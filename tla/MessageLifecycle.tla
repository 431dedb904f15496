-------------------------- MODULE MessageLifecycle --------------------------
(***************************************************************************)
(* The server's record of outbound messages: the rows of `messages`, the   *)
(* counters of `batches`, the dispatch jobs in the queue, the requests a   *)
(* phone has in flight and the stale sweep.  Sources: gateway/send.go,     *)
(* gateway/reports.go, store/messages.go, store/devices.go.                *)
(*                                                                         *)
(* A database transaction is one step.  What the code does outside a       *)
(* transaction is one step per statement, so other requests, jobs and a    *)
(* crash fall between them:                                                *)
(*   - a dispatch job loads its rows, reads the device, then fails the     *)
(*     rows, counts them and announces them, each on its own;              *)
(*   - the sweep is one statement, but it reads its rows from the          *)
(*     statement's snapshot without locking them and updates them later    *)
(*     with no check but the id (READ COMMITTED), so it is two steps.      *)
(* A phone's request is authenticated just before its transaction; a phone *)
(* unpaired or switched off in between looks as if it had been so after.   *)
(*                                                                         *)
(* Time is kept as ages.  age[m] of a queued message is the time since it  *)
(* became due, of a dispatched one the time since the phone was expected   *)
(* to have sent it; both are negative before that and stop counting one    *)
(* past PushTTL, where no test tells them apart.  quiet[d] is the time     *)
(* since the phone last reported.  Quota is Billing's, not modelled here:  *)
(* Send stands for a send whose quota was reserved.                        *)
(***************************************************************************)
EXTENDS Integers, FiniteSets

CONSTANTS
    Message, Batch, Device,
    BatchOf,        \* the batch a message is sent in
    IndexOf,        \* its place in the batch's recipient list, from 0
    DeviceOf,       \* the phone a batch goes out from
    WaveSize,       \* SIMHOOK_DISPATCH_WAVE_SIZE
    PerMessage,     \* pacing: how long the phone needs per message
    StaleAfter,     \* SIMHOOK_STALE_AFTER_MINUTES
    PushTTL,        \* SIMHOOK_PUSH_TTL_SECONDS
    FetchLimit,     \* messages one outbox fetch hands over at most
    SweepLimit,     \* rows one sweep takes at most
    MaxAttempts,    \* attempts the queue gives a dispatch job
    MaxDelay,       \* bound: how far ahead a send is scheduled
    MaxSentCount    \* bound: reports of "sent" a phone makes in a run

ASSUME BatchesAssumption ==
    /\ IsFiniteSet(Message)
    /\ BatchOf \in [Message -> Batch]
    /\ IndexOf \in [Message -> Nat]
    /\ DeviceOf \in [Batch -> Device]

ASSUME SettingsAssumption ==
    /\ WaveSize \in Nat \ {0}
    /\ PerMessage \in Nat
    /\ StaleAfter \in Nat
    /\ PushTTL \in Nat
    /\ FetchLimit \in Nat
    /\ SweepLimit \in Nat \ {0}
    /\ MaxAttempts \in Nat
    /\ MaxDelay \in Nat
    /\ MaxSentCount \in Nat

VARIABLES
    status,     \* messages.status, "none" before the message exists
    code,       \* messages.error_code
    age,        \* see above
    handed,     \* messages.dispatched_at is set
    announced,  \* the status the last webhook event of the message told
    count,      \* the five counters of a batch
    batch,      \* batches.status, "none" before the batch exists
    closed,     \* batches.completed_at is set
    paired,     \* the device row is live (deleted_at is null)
    enabled,    \* devices.enabled
    push,       \* there is a push token and the push service has not rejected it
    quiet,      \* time since devices.last_report_at
    sentCount,  \* devices.sent_count
    job,        \* the dispatch job of a wave
    sweep       \* the status the running sweep's snapshot saw, "no" if not in it

messageVars == <<status, code, age, handed, announced>>
batchVars   == <<count, batch, closed>>
deviceVars  == <<paired, enabled, push, quiet, sentCount>>
vars == <<messageVars, batchVars, deviceVars, job, sweep>>

-----------------------------------------------------------------------------
(* Batches, waves, counters *)

Recipients(b) == {m \in Message : BatchOf[m] = b}
Size(b) == Cardinality(Recipients(b))
DevOf(m) == DeviceOf[BatchOf[m]]

(* planWaves: recipients go out in slices of WaveSize, each slice due when  *)
(* the phone should be done with the one before; within a slice a message   *)
(* is expected one PerMessage after its neighbour.                          *)
WaveOf(m) == <<BatchOf[m], IndexOf[m] \div WaveSize>>
Waves == {WaveOf(m) : m \in Message}
InWave(w) == {m \in Message : WaveOf(m) = w}
DueAfter(m) == (IndexOf[m] \div WaveSize) * (WaveSize * PerMessage)
Lag(m) == (IndexOf[m] % WaveSize) * PerMessage

AtMost(x, y) == IF x < y THEN x ELSE y

Counted == {"dispatched", "sent", "delivered", "failed", "unknown"}
Resolved == {"sent", "delivered", "failed", "unknown"}
NoCounts == [s \in Counted |-> 0]

(* A bug to catch: nothing keeps a counter from going below zero. *)
MovedUnclamped(c, from, to, n) ==
    [s \in Counted |-> (IF s = from THEN c[s] - n ELSE c[s]) + (IF s = to THEN n ELSE 0)]

(* greatest(0, col - n) on the column left, col + n on the one entered. *)
Moved(c, from, to, n) ==
    [s \in Counted |->
        LET left == IF s # from THEN c[s] ELSE IF c[s] < n THEN 0 ELSE c[s] - n
        IN  IF s = to THEN left + n ELSE left]

(* A bug to catch: an unknown outcome does not count as one. *)
DoneKnown(c) == c["sent"] + c["delivered"] + c["failed"]

Done(c) == c["sent"] + c["delivered"] + c["failed"] + c["unknown"]

StatusFor(c, n) ==
    IF Done(c) + c["dispatched"] = 0 THEN "queued"
    ELSE IF n - Done(c) > 0 THEN "processing"
    ELSE IF c["failed"] = n THEN "failed"
    ELSE IF c["unknown"] = n THEN "unknown"
    ELSE IF c["failed"] > 0 \/ c["unknown"] > 0 THEN "partial"
    ELSE "completed"

(* A bug to catch: only the column entered is updated. *)
ShiftedOneSided(c, rows, from, to) ==
    [b \in Batch |-> Moved(c[b], "none", to, Cardinality(rows \cap Recipients(b)))]

(* ApplyBatchTransition's first statement, for rows of several batches. *)
Shifted(c, rows, from, to) ==
    [b \in Batch |-> Moved(c[b], from, to, Cardinality(rows \cap Recipients(b)))]

(* Its second statement: status and completed_at of the batches in bs. *)
Recompute(c, bs) ==
    /\ batch' = [b \in Batch |-> IF b \in bs THEN StatusFor(c[b], Size(b)) ELSE batch[b]]
    /\ closed' = [b \in Batch |-> IF b \in bs THEN Size(b) - Done(c[b]) = 0 ELSE closed[b]]

BatchesOf(rows) == {BatchOf[m] : m \in rows}

NoJob == [state |-> "none", attempt |-> 0, rows |-> {}]

-----------------------------------------------------------------------------
(* The phone's pairing, as far as messages depend on it *)

(* UpsertDevice, on the row for this hardware: enabled again, the mark of a *)
(* rejected token cleared, so push is live if the phone brought a token or  *)
(* the row still has one.                                                   *)
PairDevice(d, live) ==
    /\ push[d] => live
    /\ paired' = [paired EXCEPT ![d] = TRUE]
    /\ enabled' = [enabled EXCEPT ![d] = TRUE]
    /\ push' = [push EXCEPT ![d] = live]
    /\ UNCHANGED <<messageVars, batchVars, quiet, sentCount, job, sweep>>

(* SoftDeleteDevice. *)
UnpairDevice(d) ==
    /\ paired[d]
    /\ paired' = [paired EXCEPT ![d] = FALSE]
    /\ enabled' = [enabled EXCEPT ![d] = FALSE]
    /\ push' = [push EXCEPT ![d] = FALSE]
    /\ UNCHANGED <<messageVars, batchVars, quiet, sentCount, job, sweep>>

(* UpdateDevice sets enabled and nudges the phone by push; a nudge the push *)
(* service rejects marks the registration.                                  *)
UpdateDevice(d, on, rejected) ==
    /\ paired[d]
    /\ enabled' = [enabled EXCEPT ![d] = on]
    /\ push' = [push EXCEPT ![d] = @ /\ ~rejected]
    /\ UNCHANGED <<messageVars, batchVars, paired, quiet, sentCount, job, sweep>>

RefreshPushToken(d) ==
    /\ paired[d]
    /\ push' = [push EXCEPT ![d] = TRUE]
    /\ UNCHANGED <<messageVars, batchVars, paired, enabled, quiet, sentCount,
                   job, sweep>>

-----------------------------------------------------------------------------
(* Sending *)

(* Send: the batch, its messages, their due times and one job per wave, in *)
(* one transaction.  The device was read enabled before it; one switched   *)
(* off in between looks the same as one switched off right after.          *)
Send(b, delay) ==
    /\ batch[b] = "none"
    /\ Recipients(b) # {}
    /\ paired[DeviceOf[b]] /\ enabled[DeviceOf[b]]
    /\ batch' = [batch EXCEPT ![b] = "queued"]
    /\ status' = [m \in Message |-> IF m \in Recipients(b) THEN "queued" ELSE status[m]]
    /\ age' = [m \in Message |->
                 IF m \in Recipients(b) THEN -(delay + DueAfter(m)) ELSE age[m]]
    /\ job' = [w \in Waves |->
                 IF w[1] = b THEN [NoJob EXCEPT !.state = "available"] ELSE job[w]]
    /\ UNCHANGED <<code, handed, announced, count, closed, deviceVars, sweep>>

-----------------------------------------------------------------------------
(* The dispatch job of a wave.  job[w].state is where it stands:            *)
(* available, loaded (rows read), pushing, doomed (rows to fail), counting, *)
(* recomputing, announcing, finished.                                       *)

Step(w, to) == job' = [job EXCEPT ![w].state = to]
WaveDevice(w) == DeviceOf[w[1]]

(* Work, dispatch: LoadQueuedForDispatch.  The queue runs it once due. *)
LoadQueued(w) ==
    LET rows == {m \in InWave(w) : status[m] = "queued"}
    IN  /\ job[w].state = "available"
        /\ \A m \in rows : age[m] >= 0
        /\ job' = [job EXCEPT ![w] =
                     [state   |-> IF rows = {} THEN "finished" ELSE "loaded",
                      attempt |-> @.attempt + 1,
                      rows    |-> rows]]
        /\ UNCHANGED <<messageVars, batchVars, deviceVars, sweep>>

(* GetDevice and what follows from it. *)
ReadDevice(w) ==
    LET d == WaveDevice(w)
    IN  /\ job[w].state = "loaded"
        /\ Step(w, IF ~paired[d] \/ ~enabled[d] THEN "doomed"
                   ELSE IF ~push[d] THEN "finished" ELSE "pushing")
        /\ UNCHANGED <<messageVars, batchVars, deviceVars, sweep>>

PushAccepted(w) ==
    /\ job[w].state = "pushing"
    /\ Step(w, "finished")
    /\ UNCHANGED <<messageVars, batchVars, deviceVars, sweep>>

(* InvalidatePushToken names the device, not the token that was pushed. *)
PushRejected(w) ==
    /\ job[w].state = "pushing"
    /\ push' = [push EXCEPT ![WaveDevice(w)] = FALSE]
    /\ Step(w, "finished")
    /\ UNCHANGED <<messageVars, batchVars, paired, enabled, quiet, sentCount,
                   sweep>>

(* An error of the job (a passing push refusal, the database) or the death *)
(* of its process: the queue runs the job again until its attempts are     *)
(* spent.                                                                  *)
JobDies(w) ==
    /\ job[w].state \notin {"none", "available", "finished"}
    /\ job' = [job EXCEPT ![w].state =
                 IF job[w].attempt < MaxAttempts THEN "available" ELSE "finished",
                          ![w].rows = {}]
    /\ UNCHANGED <<messageVars, batchVars, deviceVars, sweep>>

(* A bug to catch: the rows loaded earlier are failed whatever became of them. *)
FailableLoaded(w) == job[w].rows

(* MarkFailedFromQueued's where clause. *)
Failable(w) == {m \in job[w].rows : status[m] = "queued"}

MarkFailed(w) ==
    LET rows == Failable(w)
    IN  /\ job[w].state = "doomed"
        /\ status' = [m \in Message |-> IF m \in rows THEN "failed" ELSE status[m]]
        /\ code' = [m \in Message |-> IF m \in rows THEN "device_gone" ELSE code[m]]
        /\ age' = [m \in Message |-> IF m \in rows THEN 0 ELSE age[m]]
        /\ job' = [job EXCEPT ![w].state = IF rows = {} THEN "finished" ELSE "counting",
                              ![w].rows = rows]
        /\ UNCHANGED <<handed, announced, batchVars, deviceVars, sweep>>

(* failQueued's ApplyBatchTransition: two statements and no transaction. *)
CountFailed(w) ==
    /\ job[w].state = "counting"
    /\ count' = Shifted(count, job[w].rows, "queued", "failed")
    /\ Step(w, "recomputing")
    /\ UNCHANGED <<messageVars, batch, closed, deviceVars, sweep>>

RecomputeFailed(w) ==
    /\ job[w].state = "recomputing"
    /\ Recompute(count, BatchesOf(job[w].rows))
    /\ Step(w, "announcing")
    /\ UNCHANGED <<messageVars, count, deviceVars, sweep>>

(* A bug to catch: the rows are read back by the status they had. *)
ToAnnounceQueued(w) == {m \in job[w].rows : status[m] = "queued"}

ToAnnounce(w) == job[w].rows

AnnounceFailed(w) ==
    /\ job[w].state = "announcing"
    /\ announced' = [m \in Message |-> IF m \in ToAnnounce(w) THEN "failed" ELSE announced[m]]
    /\ Step(w, "finished")
    /\ UNCHANGED <<status, code, age, handed, batchVars, deviceVars, sweep>>

-----------------------------------------------------------------------------
(* The phone's requests *)

(* A bug to catch: a message the sweep gave up on is offered again. *)
OfferedWithUnknown(d) ==
    {m \in Message : DevOf(m) = d /\ status[m] \in {"queued", "dispatched", "unknown"}
                                 /\ (status[m] = "queued" => age[m] >= 0)}

(* The due messages: a dispatched one was due when it was first fetched. *)
Offered(d) ==
    {m \in Message : DevOf(m) = d /\ status[m] \in {"queued", "dispatched"}
                                 /\ (status[m] = "queued" => age[m] >= 0)}

(* A bug to catch: every fetch restarts the clock of what it hands over. *)
AgeAtFetchRestarted(m) == AtMost(0, -Lag(m))

(* dispatched_at is set once, and the reference time is the later of it and *)
(* the expected send time.                                                  *)
AgeAtFetch(m) ==
    IF status[m] = "queued" THEN AtMost(0, age[m] - Lag(m)) ELSE age[m]

(* FetchOutbox: rows that another transaction holds are skipped. *)
FetchOutbox(d, rows) ==
    LET fresh == {m \in rows : status[m] = "queued"}
        c == Shifted(count, fresh, "queued", "dispatched")
    IN  /\ paired[d] /\ enabled[d]
        /\ rows \subseteq Offered(d)
        /\ Cardinality(rows) <= FetchLimit
        /\ status' = [m \in Message |-> IF m \in rows THEN "dispatched" ELSE status[m]]
        /\ age' = [m \in Message |-> IF m \in rows THEN AgeAtFetch(m) ELSE age[m]]
        /\ handed' = [m \in Message |-> handed[m] \/ m \in rows]
        /\ count' = c
        /\ Recompute(c, BatchesOf(fresh))
        /\ UNCHANGED <<code, announced, deviceVars, job, sweep>>

AllowedFrom == [sent      |-> {"queued", "dispatched", "unknown"},
                delivered |-> {"queued", "dispatched", "sent", "unknown"},
                failed    |-> {"queued", "dispatched", "sent", "unknown"}]

(* A bug to catch: a late "sent" is believed after "delivered". *)
MovesBack(m, to) ==
    status[m] \in AllowedFrom[to] \/ (status[m] = "delivered" /\ to = "sent")

(* TransitionMessage's where clause: an interrupted failure is a guess. *)
Moves(m, to) ==
    \/ status[m] \in AllowedFrom[to]
    \/ status[m] = "failed" /\ code[m] = "interrupted" /\ to \in {"sent", "delivered"}

(* A bug to catch: the device's counter is not moved for a late report. *)
SentMoreSkipLate(m, to) == IF to = "sent" /\ status[m] # "unknown" THEN 1 ELSE 0

(* AddDeviceCounts(1, 0) when the report says sent. *)
SentMore(m, to) == IF to = "sent" THEN 1 ELSE 0

(* A bug to catch: an error code outlives the failure it described. *)
CodeAfterKept(m, to, why) == IF to = "failed" THEN why ELSE code[m]

CodeAfter(m, to, why) == IF to = "failed" THEN why ELSE "none"

(* ReportStatus: the phone is noted to have reported, then the transition,  *)
(* the counters and the event commit together.  A report that is noted and  *)
(* then fails is a ReportIgnored.                                           *)
ReportStatus(d, m, to, why) ==
    LET c == Shifted(count, {m}, status[m], to)
    IN  /\ paired[d]
        /\ DevOf(m) = d
        /\ Moves(m, to)
        /\ sentCount[d] + SentMore(m, to) <= MaxSentCount
        /\ status' = [status EXCEPT ![m] = to]
        /\ code' = [code EXCEPT ![m] = CodeAfter(m, to, why)]
        /\ age' = [age EXCEPT ![m] = 0]
        /\ announced' = [announced EXCEPT ![m] = to]
        /\ count' = c
        /\ Recompute(c, {BatchOf[m]})
        /\ sentCount' = [sentCount EXCEPT ![d] = @ + SentMore(m, to)]
        /\ quiet' = [quiet EXCEPT ![d] = 0]
        /\ UNCHANGED <<handed, paired, enabled, push, job, sweep>>

(* A report of a message past that state, or of none of this phone's. *)
ReportIgnored(d) ==
    /\ paired[d]
    /\ quiet' = [quiet EXCEPT ![d] = 0]
    /\ UNCHANGED <<messageVars, batchVars, paired, enabled, push, sentCount, job, sweep>>

-----------------------------------------------------------------------------
(* The stale sweep *)

NoSweep == [m \in Message |-> "no"]

(* A bug to catch: only messages the phone fetched are ever given up on. *)
StaleOnlyDispatched(m) ==
    /\ status[m] = "dispatched"
    /\ age[m] > StaleAfter
    /\ age[m] > PushTTL \/ quiet[DevOf(m)] > StaleAfter

Stale(m) ==
    \/ status[m] = "queued" /\ age[m] > PushTTL
    \/ /\ status[m] = "dispatched"
       /\ age[m] > StaleAfter
       /\ age[m] > PushTTL \/ quiet[DevOf(m)] > StaleAfter

(* MarkStaleUnknown reads its rows. *)
SweepSnapshot ==
    LET stale == {m \in Message : Stale(m)}
    IN  /\ sweep = NoSweep
        /\ stale # {}
        /\ \E rows \in SUBSET stale :
              /\ Cardinality(rows) = AtMost(SweepLimit, Cardinality(stale))
              /\ sweep' = [m \in Message |-> IF m \in rows THEN status[m] ELSE "no"]
        /\ UNCHANGED <<messageVars, batchVars, deviceVars, job>>

(* A bug to catch: the two reasons are swapped. *)
SweepCodeSwapped(from) == IF from = "queued" THEN "no_report" ELSE "not_dispatched"

SweepCode(from) == IF from = "queued" THEN "not_dispatched" ELSE "no_report"

Swept(from) == {m \in Message : sweep[m] = from}

(* MarkStaleUnknown writes them, whatever they have become since, and *)
(* Reconcile moves the counters by the statuses the snapshot saw.     *)
SweepUpdate ==
    LET rows == Swept("queued") \cup Swept("dispatched")
        c == Shifted(Shifted(count, Swept("queued"), "queued", "unknown"),
                     Swept("dispatched"), "dispatched", "unknown")
    IN  /\ rows # {}
        /\ status' = [m \in Message |-> IF m \in rows THEN "unknown" ELSE status[m]]
        /\ code' = [m \in Message |->
                      IF m \in rows THEN SweepCode(sweep[m]) ELSE code[m]]
        /\ age' = [m \in Message |-> IF m \in rows THEN 0 ELSE age[m]]
        /\ announced' = [m \in Message |-> IF m \in rows THEN "unknown" ELSE announced[m]]
        /\ count' = c
        /\ Recompute(c, BatchesOf(rows))
        /\ sweep' = NoSweep
        /\ UNCHANGED <<handed, deviceVars, job>>

(* The sweep's transaction is rolled back. *)
SweepRollsBack ==
    /\ sweep # NoSweep
    /\ sweep' = NoSweep
    /\ UNCHANGED <<messageVars, batchVars, deviceVars, job>>

(* Time passes. *)
Tick ==
    /\ age' = [m \in Message |->
                 IF status[m] \in {"queued", "dispatched"}
                 THEN AtMost(age[m] + 1, PushTTL + 1) ELSE age[m]]
    /\ quiet' = [d \in Device |-> AtMost(quiet[d] + 1, StaleAfter + 1)]
    /\ UNCHANGED <<status, code, handed, announced, batchVars, paired, enabled, push,
                   sentCount, job, sweep>>

-----------------------------------------------------------------------------
Init ==
    /\ status = [m \in Message |-> "none"]
    /\ code = [m \in Message |-> "none"]
    /\ age = [m \in Message |-> 0]
    /\ handed = [m \in Message |-> FALSE]
    /\ announced = [m \in Message |-> "none"]
    /\ count = [b \in Batch |-> NoCounts]
    /\ batch = [b \in Batch |-> "none"]
    /\ closed = [b \in Batch |-> FALSE]
    /\ paired = [d \in Device |-> FALSE]
    /\ enabled = [d \in Device |-> FALSE]
    /\ push = [d \in Device |-> FALSE]
    /\ quiet = [d \in Device |-> StaleAfter + 1]
    /\ sentCount = [d \in Device |-> 0]
    /\ job = [w \in Waves |-> NoJob]
    /\ sweep = NoSweep

DeviceStep(d) ==
    \/ \E live \in BOOLEAN : PairDevice(d, live)
    \/ UnpairDevice(d)
    \/ \E on, rejected \in BOOLEAN : UpdateDevice(d, on, rejected)
    \/ RefreshPushToken(d)

JobStep(w) ==
    \/ LoadQueued(w)
    \/ ReadDevice(w)
    \/ PushAccepted(w)
    \/ PushRejected(w)
    \/ MarkFailed(w)
    \/ CountFailed(w)
    \/ RecomputeFailed(w)
    \/ AnnounceFailed(w)

RequestStep(d) ==
    \/ \E rows \in SUBSET Message : FetchOutbox(d, rows)
    \/ \E m \in Message, to \in {"sent", "delivered", "failed"},
          why \in {"interrupted", "refused"} : ReportStatus(d, m, to, why)
    \/ ReportIgnored(d)

Transaction ==
    \/ \E d \in Device : DeviceStep(d)
    \/ \E b \in Batch, delay \in 0..MaxDelay : Send(b, delay)
    \/ \E w \in Waves : JobStep(w)
    \/ \E d \in Device : RequestStep(d)
    \/ Tick

SweepStep == SweepSnapshot \/ SweepUpdate \/ SweepRollsBack

Next ==
    \/ Transaction
    \/ \E w \in Waves : JobDies(w)
    \/ SweepStep

(* Time passes and the sweep, a periodic job, keeps running; the database *)
(* does not roll back every sweep for ever.  Nothing is assumed of the    *)
(* phone, of the push service or of a dispatch job.                       *)
Fairness ==
    /\ WF_vars(Tick)
    /\ WF_vars(SweepSnapshot)
    /\ SF_vars(SweepUpdate)

(* The program as it is. *)
Spec == Init /\ [][Next]_vars /\ Fairness

(* The job has failed its rows and not yet recorded all of it. *)
Recording(w) == job[w].state \in {"counting", "recomputing", "announcing"}

(* That, and when no dispatch job dies between the statements of failQueued. *)
SerialNext ==
    \/ sweep = NoSweep /\ Transaction
    \/ \E w \in Waves : sweep = NoSweep /\ ~Recording(w) /\ JobDies(w)
    \/ SweepStep

SerialSpec == Init /\ [][SerialNext]_vars /\ WF_vars(Tick) /\ WF_vars(SweepSnapshot)
                   /\ SF_vars(SweepUpdate) /\ \A w \in Waves : WF_vars(JobStep(w))

-----------------------------------------------------------------------------
(* Properties *)

Statuses == {"none", "queued", "dispatched", "sent", "delivered", "failed", "unknown"}
(* "device_gone" stands for device_unpaired and device_disabled, "refused" for *)
(* whatever other code a phone gives with a failure.                           *)
Codes == {"none", "interrupted", "refused", "device_gone", "not_dispatched", "no_report"}
BatchStatuses == {"none", "queued", "processing", "failed", "unknown", "partial", "completed"}
JobStates == {"none", "available", "loaded", "pushing", "doomed", "counting",
              "recomputing", "announcing", "finished"}

(* Type correctness. *)
TypeOK ==
    /\ status \in [Message -> Statuses]
    /\ code \in [Message -> Codes]
    /\ age \in [Message -> Int]
    /\ handed \in [Message -> BOOLEAN]
    /\ announced \in [Message -> Statuses]
    /\ count \in [Batch -> [Counted -> Nat]]
    /\ batch \in [Batch -> BatchStatuses]
    /\ closed \in [Batch -> BOOLEAN]
    /\ paired \in [Device -> BOOLEAN]
    /\ enabled \in [Device -> BOOLEAN]
    /\ push \in [Device -> BOOLEAN]
    /\ quiet \in [Device -> Int]
    /\ sentCount \in [Device -> Nat]
    /\ job \in [Waves -> [state : JobStates, attempt : Nat, rows : SUBSET Message]]
    /\ sweep \in [Message -> Statuses \cup {"no"}]

InFlight == {"none", "queued", "dispatched"}

(* A message that has left the outbox, by a report, a failure or the sweep, *)
(* is never offered to a phone again, whatever overlaps or dies: a phone    *)
(* can be told to send it only while nobody has said what became of it      *)
(* (FetchOutbox, TransitionMessage, MarkStaleUnknown).                      *)
NeverOfferedAgain ==
    [][\A m \in Message : status[m] \notin InFlight => status'[m] \notin InFlight]_status

(* A message the server failed because its phone was gone or off was never  *)
(* handed to that phone, although the job decides on rows and a device it   *)
(* read earlier (dispatch, failQueued).                                     *)
FailedUnsent == \A m \in Message : code[m] = "device_gone" => ~handed[m]

(* A late truthful report is taken whole.  It clears the code the sweep or  *)
(* an interrupted failure left: there is one exactly when the status is one *)
(* that needs it (TransitionMessage).  And a phone's lifetime counter       *)
(* covers every message the API calls sent, also those the sweep had given  *)
(* up on (ReportStatus, AddDeviceCounts).                                   *)
LateTruthTaken ==
    /\ \A m \in Message :
       /\ status[m] = "failed" => code[m] \in {"interrupted", "refused", "device_gone"}
       /\ status[m] = "unknown" => code[m] \in {"not_dispatched", "no_report"}
       /\ status[m] \notin {"failed", "unknown"} => code[m] = "none"
    /\ \A d \in Device :
       Cardinality({m \in Message : DevOf(m) = d /\ status[m] = "sent"}) <= sentCount[d]

(* Rows of batch b a job has failed and not yet counted. *)
Uncounted(b) ==
    {m \in Recipients(b) : \E w \in Waves : job[w].state = "counting" /\ m \in job[w].rows}

InStatus(b, s) == {m \in Recipients(b) : status[m] = s}

(* The counters of a batch, moved on each transition and never recomputed,  *)
(* equal what a scan of its messages would find (ApplyBatchTransition and   *)
(* its callers).                                                            *)
CountersMatch ==
    \A b \in Batch : \A s \in Counted :
       count[b][s] = Cardinality(InStatus(b, s)
                                   \ (IF s = "failed" THEN Uncounted(b) ELSE {}))

(* What the owner is told.  Once nothing is being recorded, a batch is      *)
(* complete exactly when every recipient has an outcome, and calls itself   *)
(* so.  The last webhook event of a message that has an outcome told that   *)
(* outcome (emitMessage).  "The phone never fetched the message" is said    *)
(* only of such messages.                                                   *)
OutcomesAreTold ==
    /\ \A b \in Batch :
       (batch[b] # "none" /\ \A w \in Waves : w[1] = b => ~Recording(w)) =>
          /\ closed[b] <=> \A m \in Recipients(b) : status[m] \in Resolved
          /\ closed[b] <=> batch[b] \in {"failed", "unknown", "partial", "completed"}
    /\ \A m \in Message :
       status[m] \in Resolved =>
          \/ announced[m] = status[m]
          \/ \E w \in Waves : Recording(w) /\ m \in job[w].rows
    /\ \A m \in Message : code[m] \in {"not_dispatched", "device_gone"} => ~handed[m]

(* No message is owed for ever: whatever the phone does, and however often  *)
(* it fetches the message or reports on others, every message leaves the    *)
(* outbox, at the latest by the sweep (FetchOutbox, MarkStaleUnknown), and  *)
(* every batch that was sent is completed in the end.                       *)
EverythingSettles ==
    /\ \A m \in Message : status[m] \in {"queued", "dispatched"}
                          ~> status[m] \notin {"queued", "dispatched"}
    /\ \A b \in Batch : batch[b] # "none" ~> closed[b]

(* decisions.md, 007, reaches "unknown" in its table of transitions only    *)
(* from "queued" and "dispatched", when there was no report: a delivered    *)
(* message stays delivered, whatever MarkStaleUnknown read before.          *)
DeliveredIsFinal ==
    [][\A m \in Message : status[m] = "delivered" => status'[m] = "delivered"]_status

(* The lifecycle a caller of the API sees.  An interrupted failure is a     *)
(* state of its own there.                                                  *)
Seen == [m \in Message |->
           IF status[m] = "failed" /\ code[m] = "interrupted" THEN "guessed" ELSE status[m]]

States == INSTANCE MessageStates WITH state <- Seen

(* The server's record implements that lifecycle. *)
FollowsLifecycle == States!Spec

=============================================================================
