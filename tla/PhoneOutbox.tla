----------------------------- MODULE PhoneOutbox -----------------------------
(***************************************************************************)
(* The phone's outbox: the stored messages, the one loop that hands them   *)
(* to the radio, what the radio says of each part, and the ledger of       *)
(* reports owed to the server.  Sources: outbox/Outbox.kt,                 *)
(* outbox/OutboxDrainer.kt, sms/SmsSender.kt, sms/SmsStatusReceiver.kt and *)
(* the callers that start the loop.                                        *)
(*                                                                         *)
(* Every DAO call is one conditional UPDATE and one step; the loop and the *)
(* coroutine of each broadcast interleave between any two of them.  The    *)
(* process may die anywhere, the database and the radio live on.  A        *)
(* broadcast names a message and not the handing it answers, so an answer  *)
(* that comes late is taken for one to the handing under way.              *)
(*                                                                         *)
(* Horizons and cool-offs are choices: a row that is old enough for the    *)
(* sweep is one the choice picks.  Pacing and the segment budget are the   *)
(* wait between Pick and Claim.  A phone without the SMS permission starts *)
(* no loop.  The local wipe of an unpaired phone and prune, which removes  *)
(* rows a week after their end, are left out.                              *)
(***************************************************************************)
EXTENDS Naturals, FiniteSets

CONSTANTS
    Message,
    Segments,       \* the parts a message's text is divided into
    MaxAttempts,    \* MAX_ATTEMPTS
    MaxHandings,    \* bound: times one message is given to the radio
    MaxDeaths       \* bound: times the process or its service is stopped

ASSUME PartsAssumption == Segments \in [Message -> Nat \ {0}]
ASSUME BudgetAssumption ==
    MaxAttempts \in Nat /\ MaxHandings \in Nat /\ MaxDeaths \in Nat

VARIABLES
    row,        \* outbox.state, "none" before the message was fetched
    parts,      \* outbox.parts
    partsOk,    \* outbox.partsOk
    attempts,   \* outbox.attempts
    cooling,    \* notBefore lies ahead
    asked,      \* the service was asked to start the sending loop
    drain,      \* the sending loop: where it stands and on what
    word,       \* what the radio owes or has said of the parts it was given
    ledger,     \* how many reports of each kind were written for a message
    deaths,
    air,        \* ghost: <<message, part, handing>> that went on the air
    handings,   \* ghost: how often the radio was given the message
    late,       \* ghost: messages claimed with an answer of the radio still out
    lost        \* ghost: messages whose report died with the process

rowVars == <<row, parts, partsOk, attempts, cooling>>
ghosts  == <<air, handings, late, lost>>
vars == <<rowVars, asked, drain, word, ledger, deaths, ghosts>>

Off == [at |-> "off"]
Loop == [at |-> "loop"]
Working(m, at) == [at |-> at, id |-> m]
Listening(m, heard) == [at |-> "listening", id |-> m, heard |-> heard]
Sweeping(rows) == [at |-> "sweeping", rows |-> rows]

(* "refused" is a failure for good, "passing" one the phone can recover from. *)
Reports == {"sent", "delivered", "refused", "passing", "interrupted", "undelivered"}
Tell(m, report) == ledger' = [ledger EXCEPT ![m][report] = @ + 1]

-----------------------------------------------------------------------------
(* The conditional updates of OutboxDao: where each of them applies. *)

InFlight == {"pending", "sending", "handed", "awaiting"}

(* A bug to catch: a message whose end was a guess is ended once more. *)
FinishableGuessed == InFlight \cup {"interrupted"}

Finishable == InFlight

Countable == {"handed", "awaiting", "interrupted"}

Retryable(m) == row[m] \in {"sending", "handed", "awaiting"} /\ partsOk[m] = 0

(* A bug to catch: the last part is not waited for. *)
AllOutEarly(m) == partsOk[m] + 1 >= parts[m]

AllOut(m) == partsOk[m] >= parts[m]

SetRow(m, to) == row' = [row EXCEPT ![m] = to]

-----------------------------------------------------------------------------
(* Fetching, and the cool-off *)

(* OutboxSync: a row that is there already is left alone. *)
Fetch(m) ==
    /\ row[m] = "none"
    /\ SetRow(m, "pending")
    /\ UNCHANGED <<parts, partsOk, attempts, cooling, asked, drain, word, ledger, deaths, ghosts>>

(* A bug to catch: notBefore is compared with another clock's time. *)
CoolOffLasts(m) == cooling[m] /\ UNCHANGED vars

CoolOffPasses(m) ==
    /\ cooling[m]
    /\ cooling' = [cooling EXCEPT ![m] = FALSE]
    /\ UNCHANGED <<row, parts, partsOk, attempts, asked, drain, word, ledger, deaths, ghosts>>

-----------------------------------------------------------------------------
(* The sending loop.  Its lock allows one at a time. *)

(* OutboxSync, at every push and check-in: messages are pending. *)
Sync ==
    /\ \E m \in Message : row[m] = "pending"
    /\ asked' = TRUE
    /\ UNCHANGED <<rowVars, drain, word, ledger, deaths, ghosts>>

(* The same for messages that are not among Message. *)
OthersPending ==
    /\ asked' = TRUE
    /\ UNCHANGED <<rowVars, drain, word, ledger, deaths, ghosts>>

(* onStartCommand leaves a loop that is still active alone, also one that   *)
(* has just found nothing to send.                                          *)
StartIgnored ==
    /\ asked /\ drain # Off
    /\ asked' = FALSE
    /\ UNCHANGED <<rowVars, drain, word, ledger, deaths, ghosts>>

(* drain takes the lock and reads the rows the radio has had too long. *)
StartDrain ==
    /\ asked /\ drain = Off
    /\ asked' = FALSE
    /\ \E rows \in SUBSET {m \in Message : row[m] \in {"handed", "awaiting"}} :
          drain' = Sweeping(rows)
    /\ UNCHANGED <<rowVars, word, ledger, deaths, ghosts>>

(* finish(interrupted) of one of them, which may have moved on since. *)
Interrupt(m) ==
    /\ drain.at = "sweeping"
    /\ m \in drain.rows
    /\ IF row[m] \in Finishable
       THEN /\ SetRow(m, "interrupted")
            /\ drain' = [at |-> "owing", rows |-> drain.rows \ {m}, id |-> m]
       ELSE /\ drain' = Sweeping(drain.rows \ {m})
            /\ UNCHANGED row
    /\ UNCHANGED <<parts, partsOk, attempts, cooling, asked, word, ledger, deaths, ghosts>>

TellInterrupted ==
    /\ drain.at = "owing"
    /\ Tell(drain.id, "interrupted")
    /\ drain' = Sweeping(drain.rows)
    /\ UNCHANGED <<rowVars, asked, word, deaths, ghosts>>

(* A bug to catch: messages the radio was given are unclaimed too. *)
UnclaimableHanded == {m \in Message : row[m] \in {"sending", "handed"}}

Unclaimable == {m \in Message : row[m] = "sending"}

(* unclaim: claims a dead loop left behind, those that are old enough. *)
Unclaim(claims) ==
    /\ drain = Sweeping({})
    /\ claims \subseteq Unclaimable
    /\ row' = [m \in Message |-> IF m \in claims THEN "pending" ELSE row[m]]
    /\ drain' = Loop
    /\ UNCHANGED <<parts, partsOk, attempts, cooling, asked, word, ledger, deaths, ghosts>>

(* The loop's head: settings, nextPending, and then the wait for the budget. *)
Pick(m) ==
    /\ drain = Loop
    /\ row[m] = "pending" /\ ~cooling[m]
    /\ drain' = Working(m, "picked")
    /\ UNCHANGED <<rowVars, asked, word, ledger, deaths, ghosts>>

(* Switched off, nothing to wait for, or the worker's deadline. *)
Leave ==
    /\ drain.at \in {"loop", "picked"}
    /\ drain' = Off
    /\ UNCHANGED <<rowVars, asked, word, ledger, deaths, ghosts>>

(* Some answer to an earlier handing is still to come or being dealt with. *)
Unanswered(m) == \E w \in word : w.id = m /\ w.at \notin {"delivery", "tell undelivered"}

(* claim.  prepare, before it, may have found the message unsendable.  The  *)
(* bound is here, where a message that reaches it stays in the queue.       *)
Claim(m, sendable) ==
    /\ drain = Working(m, "picked")
    /\ handings[m] < MaxHandings
    /\ IF row[m] = "pending"
       THEN /\ SetRow(m, "sending")
            /\ drain' = Working(m, IF sendable THEN "claimed" ELSE "unsendable")
            /\ late' = IF Unanswered(m) THEN late \cup {m} ELSE late
       ELSE drain' = Loop /\ UNCHANGED <<row, late>>
    /\ UNCHANGED <<parts, partsOk, attempts, cooling, asked, word, ledger, deaths,
                   air, handings, lost>>

(* markHanded.  The loop goes on even when it changed nothing. *)
MarkHanded(m) ==
    /\ drain \in {Working(m, "claimed"), Working(m, "unsendable")}
    /\ IF row[m] = "sending"
       THEN /\ SetRow(m, "handed")
            /\ attempts' = [attempts EXCEPT ![m] = @ + 1]
            /\ parts' = [parts EXCEPT ![m] = IF drain.at = "claimed" THEN Segments[m] ELSE 1]
            /\ partsOk' = [partsOk EXCEPT ![m] = 0]
       ELSE UNCHANGED <<row, attempts, parts, partsOk>>
    /\ drain' = Working(m, IF drain.at = "claimed" THEN "marked" ELSE "settling")
    /\ UNCHANGED <<cooling, asked, word, ledger, deaths, ghosts>>

(* dispatch: every part goes to the radio, and the loop waits for a verdict. *)
Dispatch(m) ==
    /\ drain = Working(m, "marked")
    /\ word' = word \cup {[id |-> m, part |-> p, try |-> handings[m] + 1, at |-> "radio"]
                            : p \in 1..Segments[m]}
    /\ handings' = [handings EXCEPT ![m] = @ + 1]
    /\ drain' = Listening(m, FALSE)
    /\ UNCHANGED <<rowVars, asked, ledger, deaths, air, late, lost>>

DispatchThrows(m) ==
    /\ drain = Working(m, "marked")
    /\ drain' = Working(m, "settling")
    /\ UNCHANGED <<rowVars, asked, word, ledger, deaths, ghosts>>

(* settle of a failure that is not the radio's: none of those is passing. *)
Settle(m) ==
    /\ drain = Working(m, "settling")
    /\ IF row[m] \in Finishable
       THEN SetRow(m, "failed") /\ drain' = Working(m, "telling")
       ELSE drain' = Loop /\ UNCHANGED row
    /\ UNCHANGED <<parts, partsOk, attempts, cooling, asked, word, ledger, deaths, ghosts>>

TellRefused(m) ==
    /\ drain = Working(m, "telling")
    /\ Tell(m, "refused")
    /\ drain' = Loop
    /\ UNCHANGED <<rowVars, asked, word, deaths, ghosts>>

Verdict(m) ==
    /\ drain = Listening(m, TRUE)
    /\ drain' = Loop
    /\ UNCHANGED <<rowVars, asked, word, ledger, deaths, ghosts>>

(* The radio is silent for SENT_TIMEOUT_MS: await. *)
Silence(m) ==
    /\ drain = Listening(m, FALSE)
    /\ row' = [row EXCEPT ![m] = IF @ = "handed" THEN "awaiting" ELSE @]
    /\ drain' = Loop
    /\ UNCHANGED <<parts, partsOk, attempts, cooling, asked, word, ledger, deaths, ghosts>>

-----------------------------------------------------------------------------
(* The radio, and the coroutine of each broadcast *)

Becomes(w, at) == word' = (word \ {w}) \cup {[w EXCEPT !.at = at]}
Over(w) == word' = word \ {w}

(* SendTracker.complete, the end of a coroutine that settled its message.   *)
(* It is one step with the update before it: all the loop can do in between *)
(* is to give up waiting, and await then finds no handed row.               *)
Handled(w) ==
    /\ Over(w)
    /\ drain' = IF drain = Listening(w.id, FALSE) THEN Listening(w.id, TRUE) ELSE drain

(* A part goes out.  The last one carries a request for a delivery report;  *)
(* two such reports of a message that wait together are one.                *)
RadioSends(w) ==
    /\ w.at = "radio"
    /\ air' = air \cup {<<w.id, w.part, w.try>>}
    /\ word' = (word \ {w}) \cup {[w EXCEPT !.at = "ok"]}
                 \cup {r \in {[w EXCEPT !.at = "delivery", !.try = 1]} : r.part = Segments[r.id]}
    /\ UNCHANGED <<rowVars, asked, drain, ledger, deaths, handings, late, lost>>

(* For a reason that passes, or for good. *)
RadioFails(w, why) ==
    /\ w.at = "radio"
    /\ Becomes(w, why)
    /\ UNCHANGED <<rowVars, asked, drain, ledger, deaths, ghosts>>

PartOk(w) ==
    /\ w.at = "ok"
    /\ IF row[w.id] \in Countable
       THEN /\ partsOk' = [partsOk EXCEPT ![w.id] = @ + 1]
            /\ Becomes(w, "counted")
       ELSE Over(w) /\ UNCHANGED partsOk
    /\ UNCHANGED <<row, parts, attempts, cooling, asked, drain, ledger, deaths, ghosts>>

CompleteIfAllParts(w) ==
    /\ w.at = "counted"
    /\ IF row[w.id] \in Countable /\ AllOut(w.id)
       THEN SetRow(w.id, "sent") /\ Becomes(w, "completed")
       ELSE Over(w) /\ UNCHANGED row
    /\ UNCHANGED <<parts, partsOk, attempts, cooling, asked, drain, ledger, deaths, ghosts>>

Spent(m) == attempts[m] >= MaxAttempts

(* settle of a passing failure: the attempts are read... *)
ReadAttempts(w) ==
    /\ w.at = "passing"
    /\ Becomes(w, IF Spent(w.id) THEN "failing" ELSE "retrying")
    /\ UNCHANGED <<rowVars, asked, drain, ledger, deaths, ghosts>>

(* ...and retryLater applies or does not. *)
RetryLater(w) ==
    /\ w.at = "retrying"
    /\ IF Retryable(w.id)
       THEN /\ SetRow(w.id, "pending")
            /\ cooling' = [cooling EXCEPT ![w.id] = TRUE]
            /\ Handled(w)
       ELSE Becomes(w, "failing") /\ UNCHANGED <<row, cooling, drain>>
    /\ UNCHANGED <<parts, partsOk, attempts, asked, ledger, deaths, ghosts>>

(* A bug to catch: a spent budget is not reported. *)
ToTellRefusals(w) == IF w.at = "refused" THEN "tell refused" ELSE "ended"

ToTell(w) == IF w.at = "refused" THEN "tell refused" ELSE "tell passing"

(* finish(failed), after a refusal or when a passing failure is not retried. *)
Fail(w) ==
    /\ w.at \in {"refused", "failing"}
    /\ IF row[w.id] \in Finishable
       THEN /\ SetRow(w.id, "failed")
            /\ Becomes(w, ToTell(w))
            /\ UNCHANGED drain
       ELSE Handled(w) /\ UNCHANGED row
    /\ UNCHANGED <<parts, partsOk, attempts, cooling, asked, ledger, deaths, ghosts>>

(* The report a coroutine has yet to write. *)
Owing == {"completed", "tell refused", "tell passing", "tell undelivered"}
ReportOf(at) ==
    CASE at = "completed"        -> "sent"
      [] at = "tell refused"     -> "refused"
      [] at = "tell passing"     -> "passing"
      [] at = "tell undelivered" -> "undelivered"

WriteReport(w) ==
    /\ w.at \in Owing
    /\ Tell(w.id, ReportOf(w.at))
    /\ IF w.at = "tell undelivered" THEN Over(w) /\ UNCHANGED drain ELSE Handled(w)
    /\ UNCHANGED <<rowVars, asked, deaths, ghosts>>

(* The delivery report: delivered, undecided, or failed, which overrules    *)
(* whatever state the row is in.                                            *)
Delivered(w) ==
    /\ w.at = "delivery"
    /\ Over(w)
    /\ Tell(w.id, "delivered")
    /\ UNCHANGED <<rowVars, asked, drain, deaths, ghosts>>

Undecided(w) ==
    /\ w.at = "delivery"
    /\ Over(w)
    /\ UNCHANGED <<rowVars, asked, drain, ledger, deaths, ghosts>>

Undelivered(w) ==
    /\ w.at = "delivery"
    /\ SetRow(w.id, "failed")
    /\ Becomes(w, "tell undelivered")
    /\ UNCHANGED <<parts, partsOk, attempts, cooling, asked, drain, ledger, deaths, ghosts>>

-----------------------------------------------------------------------------
(* The end of the process *)

Posted == {"radio", "ok", "passing", "refused", "delivery"}

OwedByLoop == IF drain.at \in {"owing", "telling"} THEN {drain.id} ELSE {}
OwedByWords == {w.id : w \in {v \in word : v.at \in Owing}}

(* The system destroys the service, which cancels the loop; being sticky it *)
(* is started again.                                                        *)
ServiceStops ==
    /\ drain # Off /\ deaths < MaxDeaths
    /\ drain' = Off
    /\ deaths' = deaths + 1
    /\ asked' = TRUE
    /\ lost' = lost \cup OwedByLoop
    /\ UNCHANGED <<rowVars, word, ledger, air, handings, late>>

(* The process dies: its coroutines go with it, broadcasts not yet begun do *)
(* not.  When the whole phone restarts, the radio forgets as well.  As the  *)
(* process starts again it looks for messages in flight.                    *)
ProcessDies(restart) ==
    /\ deaths < MaxDeaths
    /\ drain' = Off
    /\ asked' = \E m \in Message : row[m] \in InFlight
    /\ word' = IF restart THEN {} ELSE {w \in word : w.at \in Posted}
    /\ deaths' = deaths + 1
    /\ lost' = lost \cup OwedByLoop \cup OwedByWords
    /\ UNCHANGED <<rowVars, ledger, air, handings, late>>

-----------------------------------------------------------------------------
Init ==
    /\ row = [m \in Message |-> "none"]
    /\ parts = [m \in Message |-> 1]
    /\ partsOk = [m \in Message |-> 0]
    /\ attempts = [m \in Message |-> 0]
    /\ cooling = [m \in Message |-> FALSE]
    /\ asked = FALSE
    /\ drain = Off
    /\ word = {}
    /\ ledger = [m \in Message |-> [r \in Reports |-> 0]]
    /\ deaths = 0
    /\ air = {}
    /\ handings = [m \in Message |-> 0]
    /\ late = {}
    /\ lost = {}

(* The loop with message m in hand. *)
LoopStep(m) ==
    \/ Pick(m)
    \/ \E sendable \in BOOLEAN : Claim(m, sendable)
    \/ MarkHanded(m)
    \/ Dispatch(m)
    \/ DispatchThrows(m)
    \/ Settle(m)
    \/ TellRefused(m)
    \/ Verdict(m)
    \/ Silence(m)

(* The loop as it starts. *)
StartStep ==
    \/ \E m \in Message : Interrupt(m)
    \/ TellInterrupted
    \/ \E claims \in SUBSET Message : Unclaim(claims)

(* One step of a broadcast's coroutine. *)
HandlerStep(w) ==
    \/ PartOk(w)
    \/ CompleteIfAllParts(w)
    \/ ReadAttempts(w)
    \/ RetryLater(w)
    \/ Fail(w)
    \/ WriteReport(w)
    \/ Delivered(w)
    \/ Undecided(w)
    \/ Undelivered(w)

RadioStep(w) == RadioSends(w) \/ \E why \in {"passing", "refused"} : RadioFails(w, why)

Next ==
    \/ \E m \in Message : Fetch(m) \/ CoolOffPasses(m) \/ LoopStep(m)
    \/ Sync
    \/ OthersPending
    \/ StartIgnored
    \/ StartDrain
    \/ StartStep
    \/ Leave
    \/ \E w \in word : RadioStep(w) \/ HandlerStep(w)
    \/ ServiceStops
    \/ \E restart \in BOOLEAN : ProcessDies(restart)

(* A check-in comes round while messages are pending, a start that was      *)
(* asked for happens, and the loop runs; its deadline does not strike each  *)
(* time before it gets anywhere.  Nothing is assumed of the radio, or of a  *)
(* coroutine of a broadcast.                                                *)
Fairness ==
    /\ WF_vars(Sync)
    /\ SF_vars(StartDrain)
    /\ WF_vars(StartStep)
    /\ WF_vars(Leave)
    /\ \A m \in Message :
          /\ WF_vars(CoolOffPasses(m))
          /\ SF_vars(Pick(m))
          /\ SF_vars(\E sendable \in BOOLEAN : Claim(m, sendable))
          /\ WF_vars(LoopStep(m))

(* The program as it is. *)
Spec == Init /\ [][Next]_vars /\ Fairness

(* The program on a phone that never stops being given messages, so that    *)
(* loops keep being started and a claim left behind is old enough for one.  *)
BusySpec ==
    /\ Spec
    /\ WF_vars(OthersPending)
    /\ SF_vars(\E claims \in SUBSET Message :
                  /\ claims = Unclaimable
                  /\ Unclaim(claims))

-----------------------------------------------------------------------------
(* Properties *)

States == InFlight \cup {"none", "sent", "failed", "interrupted"}
Mid == {"counted", "retrying", "failing"} \cup Owing

(* Type correctness. *)
TypeOK ==
    /\ row \in [Message -> States]
    /\ parts \in [Message -> Nat]
    /\ partsOk \in [Message -> Nat]
    /\ attempts \in [Message -> Nat]
    /\ cooling \in [Message -> BOOLEAN]
    /\ asked \in BOOLEAN
    /\ \A w \in word : /\ w.id \in Message /\ w.part \in 1..Segments[w.id]
                       /\ w.try \in 1..handings[w.id] /\ w.at \in Posted \cup Mid
    /\ ledger \in [Message -> [Reports -> Nat]]

Told(m) == {r \in Reports : ledger[m][r] > 0}
OnAir(m, n) == {p \in 1..Segments[m] : <<m, p, n>> \in air}
WentOut(m) == \E n \in 1..handings[m] : OnAir(m, n) = 1..Segments[m]

(* No text goes out whole twice, whatever dies, is retried, swept or        *)
(* unclaimed, if it was never claimed with an answer still out; a text of   *)
(* one part never is (claim, unclaim, retryLater).                          *)
SentOnce ==
    \A m \in Message :
       /\ m \in late => Segments[m] > 1
       /\ m \notin late =>
            Cardinality({n \in 1..handings[m] : OnAir(m, n) = 1..Segments[m]}) <= 1

(* A message is finished once: the server hears one verdict of the radio,   *)
(* after at most one guess, and a guess is followed by no failure (finish,  *)
(* completeIfAllParts).  The verdict is true, if every answer of the radio  *)
(* came before the message was handed over again: "sent" only of a text     *)
(* that went out whole in one handing, "failed" for a refusal only of one   *)
(* that never did (partOk, markHanded, settle).                             *)
OneTrueVerdict ==
    /\ \A m \in Message : LET told == ledger[m] IN
       /\ told["sent"] + told["refused"] + told["passing"] <= 1
       /\ told["interrupted"] + told["refused"] + told["passing"] <= 1
    /\ \A m \in Message \ late :
       /\ "sent" \in Told(m) => WentOut(m)
       /\ Told(m) \cap {"refused", "passing"} # {} => ~WentOut(m)

(* A message that ended is reported, or about to be, or its report died     *)
(* with the process between the row's update and the ledger's insert.       *)
NothingForgotten ==
    \A m \in Message :
       row[m] \in {"sent", "failed", "interrupted"} =>
          \/ Told(m) \cap (IF row[m] = "sent" THEN {"sent"}
                            ELSE IF row[m] = "failed" THEN {"refused", "passing", "undelivered"}
                            ELSE {"interrupted"}) # {}
          \/ m \in OwedByLoop \cup OwedByWords \cup lost

(* A message fetched leaves the queue for good: within its retry budget it  *)
(* ends or stays with the radio (settle, drain, unclaim).  MaxHandings is   *)
(* no less than MAX_ATTEMPTS, so a message that needs more is stuck.        *)
QueueEmpties ==
    \A m \in Message :
       row[m] = "pending" ~> ([](row[m] \notin {"pending", "sending"}) \/ m \in late)

(* OutboxDrainer.settle: only a spent retry budget makes a condition the    *)
(* phone can recover from a failure (for a message none of whose parts went *)
(* out).                                                                    *)
OnlySpentBudgetFails ==
    \A m \in Message :
       ("passing" \in Told(m) /\ \A a \in air : a[1] # m) => attempts[m] >= MaxAttempts

=============================================================================
