-------------------------- MODULE PhoneOutboxProofs --------------------------
(***************************************************************************)
(* What holds of the phone's outbox for any messages, of any number of     *)
(* parts, any retry budget and any number of deaths.                       *)
(***************************************************************************)
EXTENDS PhoneOutbox, FiniteSetTheorems, TLAPS

(* Where the loop has message m in hand. *)
Holds(m, places) == drain.at \in places /\ drain.id = m

(* The broadcasts that answer a handing, as opposed to delivery reports. *)
Answering(w) == w.at \notin {"delivery", "tell undelivered"}

(* A part that failed, at some point of its coroutine. *)
Failing == {"passing", "refused", "retrying", "failing", "tell refused", "tell passing"}
FailureOwed == {"tell refused", "tell passing"}
VerdictOwed == {"completed"} \cup FailureOwed

-----------------------------------------------------------------------------
(* The type invariant, with the ghosts and the records it leaves out. *)

Words == [id : Message, part : Nat, try : Nat, at : Posted \cup Mid]

LoopStates ==
    {Off, Loop}
      \cup [at : {"picked", "claimed", "unsendable", "marked", "settling", "telling"}, id : Message]
      \cup [at : {"listening"}, id : Message, heard : BOOLEAN]
      \cup [at : {"sweeping"}, rows : SUBSET Message]
      \cup [at : {"owing"}, rows : SUBSET Message, id : Message]

TypeInv ==
    /\ TypeOK
    /\ drain \in LoopStates
    /\ word \subseteq Words
    /\ handings \in [Message -> Nat]

-----------------------------------------------------------------------------
(* Verdicts: what is owed and what was told of a message. *)

InDoubt(m) == row[m] \in InFlight \cup {"none"}
Open(m) == row[m] \in InFlight \cup {"none", "interrupted"}

Owes(m, ats) == \E w \in word : w.id = m /\ w.at \in ats

VerdictsOwed(m) == Owes(m, VerdictOwed) \/ Holds(m, {"telling"})
VerdictsTold(m) == ledger[m]["sent"] + ledger[m]["refused"] + ledger[m]["passing"]
FailureClaimed(m) ==
    \/ Owes(m, FailureOwed) \/ Holds(m, {"telling"})
    \/ ledger[m]["refused"] > 0 \/ ledger[m]["passing"] > 0
GuessClaimed(m) == Holds(m, {"owing"}) \/ ledger[m]["interrupted"] > 0

OneVerdict(m) ==
    /\ Open(m) => ~VerdictsOwed(m) /\ VerdictsTold(m) = 0
    /\ VerdictsOwed(m) => VerdictsTold(m) = 0
    /\ Owes(m, VerdictOwed) => ~Holds(m, {"telling"})
    /\ \A v, w \in word :
          v.id = m /\ w.id = m /\ v.at \in VerdictOwed /\ w.at \in VerdictOwed => v = w
    /\ VerdictsTold(m) <= 1

OneGuess(m) ==
    /\ InDoubt(m) => ~GuessClaimed(m)
    /\ Holds(m, {"owing"}) => ledger[m]["interrupted"] = 0
    /\ ledger[m]["interrupted"] <= 1
    /\ FailureClaimed(m) => ~GuessClaimed(m)

VerdictInv == \A m \in Message : OneVerdict(m) /\ OneGuess(m)

(* What an ended message is owed, by how it ended. *)
Kept(m) ==
    /\ row[m] = "sent" => "sent" \in Told(m) \/ Owes(m, {"completed"}) \/ m \in lost
    /\ row[m] = "failed" =>
          \/ Told(m) \cap {"refused", "passing", "undelivered"} # {}
          \/ Owes(m, FailureOwed \cup {"tell undelivered"}) \/ Holds(m, {"telling"}) \/ m \in lost
    /\ row[m] = "interrupted" => "interrupted" \in Told(m) \/ Holds(m, {"owing"}) \/ m \in lost

-----------------------------------------------------------------------------
(* The air: one word per part and handing, and what it says is so. *)

Flown(w) == <<w.id, w.part, w.try>> \in air

AirInv ==
    /\ \A a \in air : a[1] \in Message /\ a[3] \in 1..handings[a[1]]
    /\ \A v, w \in word :
          Answering(v) /\ Answering(w) /\ v.id = w.id /\ v.part = w.part /\ v.try = w.try => v = w
    /\ \A w \in word : w.at \in Failing \cup {"radio"} => ~Flown(w)
    /\ \A w \in word : w.at = "ok" => Flown(w)

(* Handing n of m did not and will not go out whole. *)
Spoilt(m, n) ==
    \E p \in 1..Segments[m] :
       /\ <<m, p, n>> \notin air
       /\ \A w \in word : ~(w.id = m /\ w.part = p /\ w.try = n /\ w.at = "radio")

(* The parts of the last handing the radio has sent and that were counted. *)
Heard(m) ==
    {p \in 1..Segments[m] :
        /\ <<m, p, handings[m]>> \in air
        /\ \A w \in word : ~(w.id = m /\ w.part = p /\ w.try = handings[m] /\ w.at = "ok")}

(* A message that is yet to be handed over has no answer out. *)
ToBeHanded(m) == row[m] = "sending" \/ Holds(m, {"claimed", "unsendable", "marked", "settling"})

(* No handing of m went or will go out whole. *)
Hopeless(m) == \A n \in 1..handings[m] : Spoilt(m, n)

Live(m) == row[m] \notin {"sent", "failed"}

AnswersAreCurrent(m) == \A w \in word : w.id = m /\ Answering(w) => w.try = handings[m]

EarlierSpoilt(m) == \A n \in 1..handings[m] : n < handings[m] => Spoilt(m, n)

FreeToSend(m) == row[m] \in {"none", "pending"} \/ ToBeHanded(m) \/ FailureClaimed(m)

(* While the loop has a claimed message, only a delivery report changes it. *)
Claimed(m) ==
    /\ Holds(m, {"claimed", "unsendable"}) => row[m] \in {"sending", "failed"}
    /\ Holds(m, {"marked", "settling"}) => row[m] \in {"handed", "failed"}

Marked(m) == Holds(m, {"marked"}) /\ Live(m) => partsOk[m] = 0 /\ parts[m] = Segments[m]

SentClaimed(m) == Owes(m, {"completed"}) \/ ledger[m]["sent"] > 0

(* A message that was never claimed with an answer of the radio still out. *)
Prompt(m) ==
    /\ AnswersAreCurrent(m)
    /\ ToBeHanded(m) => ~Unanswered(m)
    /\ EarlierSpoilt(m)
    /\ FreeToSend(m) => Hopeless(m)
    /\ FailureClaimed(m) => ~Holds(m, {"claimed", "marked"})
    /\ Live(m) => partsOk[m] <= Cardinality(Heard(m))
    /\ Marked(m)
    /\ Live(m) /\ Unanswered(m) => parts[m] = Segments[m]
    /\ SentClaimed(m) => WentOut(m)
    /\ Claimed(m)

(* A text of one part is always such a message. *)
SinglePart(m) ==
    Segments[m] = 1 => m \notin late /\ (row[m] \in {"none", "pending"} => ~Unanswered(m))

Inv ==
    /\ TypeInv
    /\ VerdictInv
    /\ \A m \in Message : Kept(m)
    /\ AirInv
    /\ \A m \in Message \ late : Prompt(m)
    /\ \A m \in Message : SinglePart(m)
-----------------------------------------------------------------------------
(* What the parts of a step do. *)

(* Where the loop stands, by its fields. *)
LEMMA LoopStateFields ==
    /\ Off \in LoopStates /\ Loop \in LoopStates
    /\ Off.at = "off" /\ Loop.at = "loop"
    /\ \A m \in Message :
         /\ \A at \in {"picked", "claimed", "unsendable", "marked", "settling", "telling"} :
               Working(m, at) \in LoopStates
         /\ \A at : Working(m, at).at = at /\ Working(m, at).id = m
         /\ \A heard \in BOOLEAN : Listening(m, heard) \in LoopStates
         /\ \A heard : Listening(m, heard).at = "listening" /\ Listening(m, heard).id = m
    /\ \A rows \in SUBSET Message : Sweeping(rows) \in LoopStates
    /\ \A rows : Sweeping(rows).at = "sweeping" /\ Sweeping(rows).rows = rows
BY DEF LoopStates, Off, Loop, Working, Listening, Sweeping

(* The places the loop can be in, and what it has in hand there. *)
LEMMA LoopStateParts ==
    ASSUME drain \in LoopStates
    PROVE  /\ drain.at \in {"off", "loop", "picked", "claimed", "unsendable", "marked",
                            "settling", "telling", "listening", "sweeping", "owing"}
           /\ drain.at \notin {"off", "loop", "sweeping"} => drain.id \in Message
           /\ drain.at \in {"sweeping", "owing"} => drain.rows \subseteq Message
BY DEF LoopStates, Off, Loop

(* A broadcast's word moves on. *)
Moved(w, at) ==
    \E v \in Words :
       /\ v.id = w.id /\ v.part = w.part /\ v.try = w.try /\ v.at = at
       /\ word' = (word \ {w}) \cup {v}

(* A word with another "at" is a word of the same part and handing. *)
LEMMA WordMoves ==
    ASSUME NEW w \in Words, NEW at \in Posted \cup Mid
    PROVE  LET v == [w EXCEPT !.at = at] IN
           /\ v \in Words /\ v.at = at
           /\ v.id = w.id /\ v.part = w.part /\ v.try = w.try
BY DEF Words

(* Becomes moves a word. *)
LEMMA BecomesMoves ==
    ASSUME NEW w \in Words, NEW at \in Posted \cup Mid, Becomes(w, at)
    PROVE  Moved(w, at)
BY WordMoves DEF Becomes, Moved

(* A part that goes out is answered, the last part with a delivery report. *)
LEMMA SendsMoves ==
    ASSUME NEW w \in Words, RadioSends(w)
    PROVE  \E v \in Words : \E reports \in SUBSET Words :
              /\ v.id = w.id /\ v.part = w.part /\ v.try = w.try /\ v.at = "ok"
              /\ \A r \in reports : r.id = w.id /\ r.part = w.part /\ r.try = 1 /\ r.at = "delivery"
              /\ word' = (word \ {w}) \cup {v} \cup reports
<1> DEFINE v == [w EXCEPT !.at = "ok"]
<1> DEFINE d == [w EXCEPT !.at = "delivery", !.try = 1]
<1> DEFINE reports == {r \in {d} : r.part = Segments[r.id]}
<1>1. v \in Words /\ v.id = w.id /\ v.part = w.part /\ v.try = w.try /\ v.at = "ok"
  BY DEF Words, Posted
<1>2. d \in Words /\ d.id = w.id /\ d.part = w.part /\ d.try = 1 /\ d.at = "delivery"
  BY DEF Words, Posted
<1>3. word' = (word \ {w}) \cup {v} \cup reports
  BY DEF RadioSends
<1>4. /\ \A r \in reports : r.id = w.id /\ r.part = w.part /\ r.try = 1 /\ r.at = "delivery"
      /\ reports \in SUBSET Words
  BY <1>2
<1> HIDE DEF v, d, reports
<1> QED
  BY <1>1, <1>3, <1>4

(* The parts of a handing. *)
LEMMA HandsOver ==
    ASSUME NEW m \in Message, handings \in [Message -> Nat], Dispatch(m)
    PROVE  \E given \in SUBSET Words :
              /\ word' = word \cup given
              /\ \A v \in given :
                    /\ v.id = m /\ v.part \in 1..Segments[m]
                    /\ v.try = handings[m] + 1 /\ v.at = "radio"
              /\ \A v, w \in given : v.part = w.part => v = w
<1> DEFINE given == {[id |-> m, part |-> p, try |-> handings[m] + 1, at |-> "radio"]
                        : p \in 1..Segments[m]}
<1>1. word' = word \cup given
  BY DEF Dispatch
<1>2. given \in SUBSET Words
  BY PartsAssumption DEF Words, Posted
<1>3. \A v \in given : /\ v.id = m /\ v.part \in 1..Segments[m]
                       /\ v.try = handings[m] + 1 /\ v.at = "radio"
  OBVIOUS
<1>4. \A v, w \in given : v.part = w.part => v = w
  OBVIOUS
<1> HIDE DEF given
<1> QED
  BY <1>1, <1>2, <1>3, <1>4

(* A coroutine that ends tells the loop, which stays where it is. *)
LEMMA HandledDoes ==
    ASSUME NEW w \in Words, drain \in LoopStates, Handled(w)
    PROVE  /\ word' = word \ {w}
           /\ drain' \in LoopStates /\ drain'.at = drain.at /\ drain'.id = drain.id
           /\ drain'.at # "listening" => drain' = drain
<1>1. w.id \in Message
  BY DEF Words
<1>2. word' = word \ {w}
  BY DEF Handled, Over
<1>3. CASE drain = Listening(w.id, FALSE)
  <2>1. drain' = Listening(w.id, TRUE)
    BY <1>3 DEF Handled
  <2>2. drain.at = "listening" /\ drain.id = w.id
    BY <1>1, <1>3, LoopStateFields
  <2>3. drain' \in LoopStates /\ drain'.at = "listening" /\ drain'.id = w.id
    BY <1>1, <2>1, LoopStateFields
  <2> QED
    BY <1>2, <2>2, <2>3
<1>4. CASE drain # Listening(w.id, FALSE)
  <2>1. drain' = drain
    BY <1>4 DEF Handled
  <2> QED
    BY <1>2, <2>1
<1> QED
  BY <1>3, <1>4

(* A report is added. *)
LEMMA TellDoes ==
    ASSUME ledger \in [Message -> [Reports -> Nat]],
           NEW m \in Message, NEW report \in Reports, Tell(m, report)
    PROVE  /\ ledger' \in [Message -> [Reports -> Nat]]
           /\ ledger'[m][report] = ledger[m][report] + 1
           /\ \A k \in Message, r \in Reports :
                 k # m \/ r # report => ledger'[k][r] = ledger[k][r]
<1>1. ledger[m] \in [Reports -> Nat]
  OBVIOUS
<1>2. ledger' = [ledger EXCEPT ![m] = [ledger[m] EXCEPT ![report] = ledger[m][report] + 1]]
  BY DEF Tell
<1>3. [ledger[m] EXCEPT ![report] = ledger[m][report] + 1] \in [Reports -> Nat]
  BY <1>1
<1> QED
  BY <1>1, <1>2, <1>3

-----------------------------------------------------------------------------
(* Types *)

(* What the words say fits the message they are about. *)
Fits(w, given) == w.part \in 1..Segments[w.id] /\ w.try \in 1..given[w.id]

(* A step keeps the types. *)
LEMMA TypeStep ==
    ASSUME TypeInv, [Next]_vars
    PROVE  TypeInv'
<1>p. /\ row \in [Message -> States] /\ parts \in [Message -> Nat]
      /\ partsOk \in [Message -> Nat] /\ attempts \in [Message -> Nat]
      /\ cooling \in [Message -> BOOLEAN] /\ asked \in BOOLEAN
      /\ ledger \in [Message -> [Reports -> Nat]] /\ handings \in [Message -> Nat]
      /\ drain \in LoopStates /\ word \subseteq Words
      /\ \A w \in word : Fits(w, handings)
  BY DEF TypeInv, TypeOK, Fits
<1>w. \A w \in word : w.id \in Message /\ w \in Words
  BY <1>p DEF Words
<1>s. Segments \in [Message -> Nat \ {0}]
  BY PartsAssumption
<1> DEFINE
      RowOK == row' \in [Message -> States]
      RowsOK == /\ parts' \in [Message -> Nat] /\ partsOk' \in [Message -> Nat]
                /\ attempts' \in [Message -> Nat] /\ cooling' \in [Message -> BOOLEAN]
      LoopOK == asked' \in BOOLEAN /\ drain' \in LoopStates
      ToldOK == ledger' \in [Message -> [Reports -> Nat]]
      WordOK == /\ word' \subseteq Words /\ handings' \in [Message -> Nat]
                /\ \A w \in word' : Fits(w, handings')
      Good == RowOK /\ RowsOK /\ LoopOK /\ ToldOK /\ WordOK
<1>g. Good => TypeInv'
  BY DEF TypeInv, TypeOK, Fits, Words
<1>r. ASSUME NEW m \in Message, NEW to \in States, SetRow(m, to) PROVE RowOK
  BY <1>p, <1>r DEF SetRow
<1>v. ASSUME NEW w \in word, NEW at \in Posted \cup Mid, Becomes(w, at), UNCHANGED handings
      PROVE  WordOK
  <2>1. w \in Words /\ Fits(w, handings)
    BY <1>p
  <2>2. Moved(w, at)
    BY <1>v, <2>1, BecomesMoves
  <2> QED
    BY <1>p, <1>v, <2>1, <2>2 DEF Moved, Fits
<1>o. ASSUME NEW w \in word, Over(w), UNCHANGED handings PROVE WordOK
  BY <1>p, <1>o DEF Over
<1>h. ASSUME NEW w \in word, Handled(w), UNCHANGED <<asked, handings>> PROVE LoopOK /\ WordOK
  BY <1>p, <1>h, <1>w, HandledDoes
<1>t. ASSUME NEW m \in Message, NEW report \in Reports, Tell(m, report) PROVE ToldOK
  BY <1>p, <1>t, TellDoes
<1> HIDE DEF RowOK, RowsOK, LoopOK, ToldOK, WordOK
<1>u. /\ UNCHANGED row => RowOK
      /\ UNCHANGED <<parts, partsOk, attempts, cooling>> => RowsOK
      /\ UNCHANGED <<asked, drain>> => LoopOK
      /\ UNCHANGED ledger => ToldOK
      /\ UNCHANGED <<word, handings>> => WordOK
  BY <1>p DEF RowOK, RowsOK, LoopOK, ToldOK, WordOK
<1>1. ASSUME NEW m \in Message, Fetch(m) PROVE Good
  BY <1>u, <1>r, <1>1 DEF Fetch, States, InFlight, ghosts
<1>2. ASSUME NEW m \in Message, CoolOffPasses(m) PROVE Good
  <2>1. RowsOK
    BY <1>p, <1>2 DEF CoolOffPasses, RowsOK
  <2> QED
    BY <1>u, <1>2, <2>1 DEF CoolOffPasses, ghosts
<1>3. ASSUME NEW m \in Message, Pick(m) PROVE Good
  <2>1. LoopOK
    BY <1>p, <1>3, LoopStateFields DEF Pick, LoopOK
  <2> QED
    BY <1>u, <1>3, <2>1 DEF Pick, rowVars, ghosts
<1>4. ASSUME NEW m \in Message, NEW sendable \in BOOLEAN, Claim(m, sendable) PROVE Good
  <2>1. LoopOK
    BY <1>p, <1>4, LoopStateFields DEF Claim, LoopOK
  <2>2. RowOK
    BY <1>u, <1>r, <1>4 DEF Claim, States, InFlight
  <2> QED
    BY <1>u, <1>4, <2>1, <2>2 DEF Claim
<1>5. ASSUME NEW m \in Message, MarkHanded(m) PROVE Good
  <2>1. LoopOK
    BY <1>p, <1>5, LoopStateFields DEF MarkHanded, LoopOK
  <2>2. RowOK
    BY <1>u, <1>r, <1>5 DEF MarkHanded, States, InFlight
  <2>3. RowsOK
    <3>1. CASE row[m] = "sending"
      <4> DEFINE n == IF drain.at = "claimed" THEN Segments[m] ELSE 1
      <4>1. n \in Nat
        BY <1>s
      <4>2. /\ attempts' = [attempts EXCEPT ![m] = @ + 1]
            /\ parts' = [parts EXCEPT ![m] = n]
            /\ partsOk' = [partsOk EXCEPT ![m] = 0]
            /\ cooling' = cooling
        BY <1>5, <3>1 DEF MarkHanded
      <4> HIDE DEF n
      <4> QED
        BY <1>p, <4>1, <4>2 DEF RowsOK
    <3>2. CASE row[m] # "sending"
      BY <1>p, <1>5, <3>2 DEF MarkHanded, RowsOK
    <3> QED
      BY <3>1, <3>2
  <2> QED
    BY <1>u, <1>5, <2>1, <2>2, <2>3 DEF MarkHanded, ghosts
<1>6. ASSUME NEW m \in Message, DispatchThrows(m) PROVE Good
  <2>1. LoopOK
    BY <1>p, <1>6, LoopStateFields DEF DispatchThrows, LoopOK
  <2> QED
    BY <1>u, <1>6, <2>1 DEF DispatchThrows, rowVars, ghosts
<1>7. ASSUME NEW m \in Message, Settle(m) PROVE Good
  <2>1. LoopOK
    BY <1>p, <1>7, LoopStateFields DEF Settle, LoopOK
  <2>2. RowOK
    BY <1>u, <1>r, <1>7 DEF Settle, States
  <2> QED
    BY <1>u, <1>7, <2>1, <2>2 DEF Settle, ghosts
<1>8. ASSUME NEW m \in Message, TellRefused(m) PROVE Good
  <2>1. LoopOK
    BY <1>p, <1>8, LoopStateFields DEF TellRefused, LoopOK
  <2>2. ToldOK
    BY <1>t, <1>8 DEF TellRefused, Reports
  <2> QED
    BY <1>u, <1>8, <2>1, <2>2 DEF TellRefused, rowVars, ghosts
<1>9. ASSUME NEW m \in Message, Verdict(m) PROVE Good
  <2>1. LoopOK
    BY <1>p, <1>9, LoopStateFields DEF Verdict, LoopOK
  <2> QED
    BY <1>u, <1>9, <2>1 DEF Verdict, rowVars, ghosts
<1>10. ASSUME NEW m \in Message, Silence(m) PROVE Good
  <2>1. LoopOK
    BY <1>p, <1>10, LoopStateFields DEF Silence, LoopOK
  <2>2. RowOK
    BY <1>p, <1>10 DEF Silence, RowOK, States, InFlight
  <2> QED
    BY <1>u, <1>10, <2>1, <2>2 DEF Silence, ghosts
<1>11. ASSUME NEW m \in Message, Interrupt(m) PROVE Good
  <2>1. LoopOK
    <3>1. drain.rows \subseteq Message
      BY <1>p, <1>11, LoopStateParts DEF Interrupt
    <3> DEFINE rest == drain.rows \ {m}
    <3>2. rest \in SUBSET Message /\ asked' \in BOOLEAN
      BY <1>p, <1>11, <3>1 DEF Interrupt
    <3>3. \/ drain' = Sweeping(rest)
          \/ drain' = [at |-> "owing", rows |-> rest, id |-> m]
      BY <1>11 DEF Interrupt
    <3> HIDE DEF rest
    <3>4. drain' \in LoopStates
      BY <3>2, <3>3 DEF LoopStates, Sweeping
    <3> QED
      BY <3>2, <3>4 DEF LoopOK
  <2>2. RowOK
    BY <1>u, <1>r, <1>11 DEF Interrupt, States
  <2> QED
    BY <1>u, <1>11, <2>1, <2>2 DEF Interrupt, ghosts
<1>12. ASSUME NEW w \in word, RadioSends(w) PROVE Good
  <2>1. WordOK
    <3>1. w \in Words /\ Fits(w, handings)
      BY <1>p
    <3>2. 1 \in 1..handings[w.id]
      BY <1>p, <1>w, <3>1 DEF Fits
    <3>3. UNCHANGED handings
      BY <1>12 DEF RadioSends
    <3> QED
      BY <1>p, <1>12, <3>1, <3>2, <3>3, SendsMoves DEF Fits, WordOK
  <2> QED
    BY <1>u, <1>12, <2>1 DEF RadioSends, rowVars, ghosts
<1>13. ASSUME NEW w \in word, NEW why \in {"passing", "refused"}, RadioFails(w, why) PROVE Good
  <2>1. WordOK
    BY <1>v, <1>13 DEF RadioFails, ghosts, Posted
  <2> QED
    BY <1>u, <1>13, <2>1 DEF RadioFails, rowVars, ghosts
<1>14. ASSUME NEW w \in word, PartOk(w) PROVE Good
  <2>1. WordOK
    BY <1>v, <1>o, <1>14 DEF PartOk, ghosts, Mid
  <2>2. RowsOK
    BY <1>p, <1>w, <1>14 DEF PartOk, RowsOK
  <2> QED
    BY <1>u, <1>14, <2>1, <2>2 DEF PartOk, ghosts
<1>15. ASSUME NEW w \in word, CompleteIfAllParts(w) PROVE Good
  <2>1. WordOK
    BY <1>v, <1>o, <1>15 DEF CompleteIfAllParts, ghosts, Mid, Owing
  <2>2. RowOK
    BY <1>u, <1>r, <1>w, <1>15 DEF CompleteIfAllParts, States
  <2> QED
    BY <1>u, <1>15, <2>1, <2>2 DEF CompleteIfAllParts, ghosts
<1>16. ASSUME NEW w \in word, ReadAttempts(w) PROVE Good
  <2>1. WordOK
    BY <1>v, <1>16 DEF ReadAttempts, ghosts, Mid
  <2> QED
    BY <1>u, <1>16, <2>1 DEF ReadAttempts, rowVars, ghosts
<1>17. ASSUME NEW w \in word, RetryLater(w) PROVE Good
  <2>1. WordOK /\ LoopOK
    BY <1>v, <1>h, <1>u, <1>17 DEF RetryLater, ghosts, Mid
  <2>2. RowOK
    BY <1>u, <1>r, <1>w, <1>17 DEF RetryLater, States, InFlight
  <2>3. RowsOK
    BY <1>p, <1>w, <1>17 DEF RetryLater, RowsOK
  <2> QED
    BY <1>u, <1>17, <2>1, <2>2, <2>3 DEF RetryLater, ghosts
<1>18. ASSUME NEW w \in word, Fail(w) PROVE Good
  <2>1. WordOK /\ LoopOK
    BY <1>v, <1>h, <1>u, <1>18 DEF Fail, ToTell, ghosts, Mid, Owing
  <2>2. RowOK
    BY <1>u, <1>r, <1>w, <1>18 DEF Fail, States
  <2> QED
    BY <1>u, <1>18, <2>1, <2>2 DEF Fail, ghosts
<1>19. ASSUME NEW w \in word, WriteReport(w) PROVE Good
  <2>1. WordOK /\ LoopOK
    BY <1>o, <1>h, <1>u, <1>19 DEF WriteReport, ghosts
  <2>2. ToldOK
    BY <1>t, <1>w, <1>19 DEF WriteReport, ReportOf, Owing, Reports
  <2> QED
    BY <1>u, <1>19, <2>1, <2>2 DEF WriteReport, rowVars, ghosts
<1>20. ASSUME NEW w \in word, Delivered(w) PROVE Good
  <2>1. WordOK
    BY <1>o, <1>20 DEF Delivered, ghosts
  <2>2. ToldOK
    BY <1>t, <1>w, <1>20 DEF Delivered, Reports
  <2> QED
    BY <1>u, <1>20, <2>1, <2>2 DEF Delivered, rowVars, ghosts
<1>21. ASSUME NEW w \in word, Undecided(w) PROVE Good
  <2>1. WordOK
    BY <1>o, <1>21 DEF Undecided, ghosts
  <2> QED
    BY <1>u, <1>21, <2>1 DEF Undecided, rowVars, ghosts
<1>22. ASSUME NEW w \in word, Undelivered(w) PROVE Good
  <2>1. WordOK
    BY <1>v, <1>22 DEF Undelivered, ghosts, Mid, Owing
  <2>2. RowOK
    BY <1>u, <1>r, <1>w, <1>22 DEF Undelivered, States
  <2> QED
    BY <1>u, <1>22, <2>1, <2>2 DEF Undelivered, ghosts
<1>23. ASSUME NEW m \in Message, Dispatch(m) PROVE Good
  <2>1. LoopOK
    BY <1>p, <1>23, LoopStateFields DEF Dispatch, LoopOK
  <2>2. WordOK
    <3>1. handings' \in [Message -> Nat]
      BY <1>p, <1>23 DEF Dispatch
    <3>2. \A k \in Message : 1..handings[k] \subseteq 1..handings'[k]
      BY <1>p, <1>23, <3>1 DEF Dispatch
    <3>3. handings[m] + 1 \in 1..handings'[m]
      BY <1>p, <1>23 DEF Dispatch
    <3>4. \A w \in word : Fits(w, handings')
      BY <1>p, <1>w, <3>2 DEF Fits
    <3> QED
      BY <1>p, <1>23, <3>1, <3>3, <3>4, HandsOver DEF Fits, WordOK
  <2> QED
    BY <1>u, <1>23, <2>1, <2>2 DEF Dispatch, rowVars
<1>24. ASSUME Sync \/ OthersPending \/ StartIgnored PROVE Good
  <2>1. LoopOK
    BY <1>p, <1>24 DEF Sync, OthersPending, StartIgnored, LoopOK
  <2> QED
    BY <1>u, <1>24, <2>1 DEF Sync, OthersPending, StartIgnored, rowVars, ghosts
<1>25. ASSUME StartDrain PROVE Good
  <2>1. LoopOK
    <3>1. \E rows \in SUBSET Message : drain' = Sweeping(rows)
      BY <1>25 DEF StartDrain
    <3> QED
      BY <1>25, <3>1, LoopStateFields DEF StartDrain, LoopOK
  <2> QED
    BY <1>u, <1>25, <2>1 DEF StartDrain, rowVars, ghosts
<1>26. ASSUME TellInterrupted PROVE Good
  <2>1. LoopOK
    BY <1>p, <1>26, LoopStateParts, LoopStateFields DEF TellInterrupted, LoopOK
  <2>2. ToldOK
    BY <1>p, <1>t, <1>26, LoopStateParts DEF TellInterrupted, Reports
  <2> QED
    BY <1>u, <1>26, <2>1, <2>2 DEF TellInterrupted, rowVars, ghosts
<1>27. ASSUME NEW claims \in SUBSET Message, Unclaim(claims) PROVE Good
  <2>1. LoopOK
    BY <1>p, <1>27, LoopStateFields DEF Unclaim, LoopOK
  <2>2. RowOK
    BY <1>p, <1>27 DEF Unclaim, RowOK, States, InFlight
  <2> QED
    BY <1>u, <1>27, <2>1, <2>2 DEF Unclaim, ghosts
<1>28. ASSUME Leave \/ ServiceStops PROVE Good
  <2>1. LoopOK
    BY <1>p, <1>28, LoopStateFields DEF Leave, ServiceStops, LoopOK
  <2> QED
    BY <1>u, <1>28, <2>1 DEF Leave, ServiceStops, rowVars, ghosts
<1>29. ASSUME NEW restart \in BOOLEAN, ProcessDies(restart) PROVE Good
  <2>1. LoopOK
    BY <1>p, <1>29, LoopStateFields DEF ProcessDies, LoopOK
  <2>2. WordOK
    BY <1>p, <1>29 DEF ProcessDies, WordOK
  <2> QED
    BY <1>u, <1>29, <2>1, <2>2 DEF ProcessDies, rowVars
<1>30. ASSUME UNCHANGED vars PROVE Good
  BY <1>u, <1>30 DEF vars, rowVars, ghosts
<1> QED
  BY <1>g, <1>1, <1>2, <1>3, <1>4, <1>5, <1>6, <1>7, <1>8, <1>9, <1>10, <1>11, <1>12, <1>13,
     <1>14, <1>15, <1>16, <1>17, <1>18, <1>19, <1>20, <1>21, <1>22, <1>23, <1>24, <1>25, <1>26,
     <1>27, <1>28, <1>29, <1>30
  DEF Next, LoopStep, StartStep, HandlerStep, RadioStep

-----------------------------------------------------------------------------
(* Verdicts *)

Doubts == InFlight \cup {"none"}

(* The words of m that owe a report. *)
OwedOf(m) == {w \in word : w.id = m /\ w.at \in Owing}

(* A step that neither ends m nor writes or owes a report of it. *)
Calm(m) ==
    /\ row'[m] = row[m] \/ (row[m] \in Doubts /\ row'[m] \in Doubts)
    /\ OwedOf(m)' = OwedOf(m)
    /\ Holds(m, {"telling"})' <=> Holds(m, {"telling"})
    /\ Holds(m, {"owing"})' <=> Holds(m, {"owing"})
    /\ \A r \in Reports \ {"delivered"} : ledger'[m][r] = ledger[m][r]
    /\ m \in lost => m \in lost'

(* Such a step keeps what is said of m. *)
LEMMA CalmKeeps ==
    ASSUME NEW m \in Message, OneVerdict(m), OneGuess(m), Kept(m), Calm(m)
    PROVE  OneVerdict(m)' /\ OneGuess(m)' /\ Kept(m)'
<1>1. \A w : w.id = m /\ w.at \in Owing => (w \in word' <=> w \in word)
  BY DEF Calm, OwedOf
<1>2. \A ats \in SUBSET Owing : Owes(m, ats)' <=> Owes(m, ats)
  BY <1>1 DEF Owes
<1>3. /\ Owes(m, VerdictOwed)' <=> Owes(m, VerdictOwed)
      /\ Owes(m, FailureOwed)' <=> Owes(m, FailureOwed)
      /\ Owes(m, {"completed"})' <=> Owes(m, {"completed"})
      /\ Owes(m, FailureOwed \cup {"tell undelivered"})'
            <=> Owes(m, FailureOwed \cup {"tell undelivered"})
  BY <1>2 DEF VerdictOwed, FailureOwed, Owing
<1>4. \A w : w.id = m /\ w.at \in VerdictOwed => (w \in word' <=> w \in word)
  BY <1>1 DEF VerdictOwed, FailureOwed, Owing
<1>5. /\ VerdictsTold(m)' = VerdictsTold(m)
      /\ FailureClaimed(m)' <=> FailureClaimed(m)
      /\ GuessClaimed(m)' <=> GuessClaimed(m)
      /\ VerdictsOwed(m)' <=> VerdictsOwed(m)
      /\ ledger'[m]["interrupted"] = ledger[m]["interrupted"]
  BY <1>3 DEF Calm, Reports, VerdictsTold, FailureClaimed, GuessClaimed, VerdictsOwed
<1>6. \A r \in Reports \ {"delivered"} : r \in Told(m)' <=> r \in Told(m)
  BY DEF Calm, Told
<1>7. OneVerdict(m)'
  BY <1>3, <1>4, <1>5 DEF Calm, Doubts, OneVerdict, Open
<1>8. OneGuess(m)'
  BY <1>5 DEF Calm, Doubts, OneGuess, InDoubt
<1>9. Kept(m)'
  BY <1>3, <1>6 DEF Calm, Doubts, Kept, InFlight, Reports
<1> QED
  BY <1>7, <1>8, <1>9

(* A word of another message, or one that owes nothing, may move on or end. *)
LEMMA OwedSame ==
    ASSUME NEW w \in word, NEW m, w.id # m \/ w.at \notin Owing
    PROVE  /\ \A at : Moved(w, at) /\ (w.id # m \/ at \notin Owing) => OwedOf(m)' = OwedOf(m)
           /\ word' = word \ {w} => OwedOf(m)' = OwedOf(m)
<1>1. ASSUME NEW at, Moved(w, at), w.id # m \/ at \notin Owing
      PROVE  OwedOf(m)' = OwedOf(m)
  BY <1>1 DEF Moved, OwedOf
<1>2. ASSUME word' = word \ {w} PROVE OwedOf(m)' = OwedOf(m)
  BY <1>2 DEF OwedOf
<1> QED
  BY <1>1, <1>2

(* Most steps are calm. *)
LEMMA CalmSteps ==
    ASSUME TypeInv, NEW k \in Message,
           \/ \E m \in Message : \/ Fetch(m) \/ CoolOffPasses(m) \/ Pick(m)
                                 \/ \E sendable \in BOOLEAN : Claim(m, sendable)
                                 \/ MarkHanded(m) \/ Dispatch(m) \/ DispatchThrows(m)
                                 \/ Verdict(m) \/ Silence(m)
           \/ Sync \/ OthersPending \/ StartIgnored \/ StartDrain \/ Leave
           \/ \E claims \in SUBSET Message : Unclaim(claims)
           \/ \E w \in word : \/ RadioStep(w)
                              \/ PartOk(w) \/ ReadAttempts(w) \/ RetryLater(w)
                              \/ Delivered(w) \/ Undecided(w)
           \/ UNCHANGED vars
    PROVE  Calm(k)
<1>p. /\ row \in [Message -> States] /\ ledger \in [Message -> [Reports -> Nat]]
      /\ drain \in LoopStates /\ word \subseteq Words /\ handings \in [Message -> Nat]
  BY DEF TypeInv, TypeOK
<1>w. \A w \in word : w.id \in Message /\ w \in Words
  BY <1>p DEF Words
<1> DEFINE
      RowCalm == row'[k] = row[k] \/ (row[k] \in Doubts /\ row'[k] \in Doubts)
      LoopCalm == /\ Holds(k, {"telling"})' <=> Holds(k, {"telling"})
                  /\ Holds(k, {"owing"})' <=> Holds(k, {"owing"})
<1>c. /\ RowCalm /\ LoopCalm /\ OwedOf(k)' = OwedOf(k) /\ UNCHANGED <<ledger, lost>>
      => Calm(k)
  BY DEF Calm
<1>u. /\ UNCHANGED row => RowCalm
      /\ UNCHANGED drain => LoopCalm
      /\ UNCHANGED word => OwedOf(k)' = OwedOf(k)
  BY DEF Holds, OwedOf
<1>l. /\ drain.at \notin {"telling", "owing"} /\ drain'.at \notin {"telling", "owing"} => LoopCalm
      /\ drain'.at = drain.at /\ drain'.id = drain.id => LoopCalm
  BY DEF Holds
<1>r. ASSUME NEW m \in Message, NEW to, SetRow(m, to), row[m] \in Doubts, to \in Doubts
      PROVE  RowCalm
  BY <1>p, <1>r DEF SetRow
<1> HIDE DEF RowCalm, LoopCalm
<1>1. ASSUME NEW m \in Message, Fetch(m) PROVE Calm(k)
  BY <1>c, <1>u, <1>r, <1>1 DEF Fetch, Doubts, InFlight, ghosts
<1>2. ASSUME NEW m \in Message, CoolOffPasses(m) PROVE Calm(k)
  BY <1>c, <1>u, <1>2 DEF CoolOffPasses, ghosts
<1>3. ASSUME NEW m \in Message, Pick(m) PROVE Calm(k)
  <2>1. LoopCalm
    BY <1>l, <1>3, LoopStateFields DEF Pick
  <2> QED
    BY <1>c, <1>u, <1>3, <2>1 DEF Pick, rowVars, ghosts
<1>4. ASSUME NEW m \in Message, NEW sendable \in BOOLEAN, Claim(m, sendable) PROVE Calm(k)
  <2>1. LoopCalm
    BY <1>l, <1>4, LoopStateFields DEF Claim
  <2>2. RowCalm
    BY <1>u, <1>r, <1>4 DEF Claim, Doubts, InFlight
  <2> QED
    BY <1>c, <1>u, <1>4, <2>1, <2>2 DEF Claim
<1>5. ASSUME NEW m \in Message, MarkHanded(m) PROVE Calm(k)
  <2>1. LoopCalm
    BY <1>l, <1>5, LoopStateFields DEF MarkHanded
  <2>2. RowCalm
    BY <1>u, <1>r, <1>5 DEF MarkHanded, Doubts, InFlight
  <2> QED
    BY <1>c, <1>u, <1>5, <2>1, <2>2 DEF MarkHanded, ghosts
<1>6. ASSUME NEW m \in Message, Dispatch(m) PROVE Calm(k)
  <2>1. LoopCalm
    <3>1. drain.at = "marked" /\ drain'.at = "listening"
      BY <1>6, LoopStateFields DEF Dispatch
    <3> QED
      BY <1>l, <3>1
  <2>2. OwedOf(k)' = OwedOf(k)
    BY <1>p, <1>6, HandsOver DEF OwedOf, Owing
  <2> QED
    BY <1>c, <1>u, <1>6, <2>1, <2>2 DEF Dispatch, rowVars
<1>7. ASSUME NEW m \in Message, DispatchThrows(m) PROVE Calm(k)
  <2>1. LoopCalm
    BY <1>l, <1>7, LoopStateFields DEF DispatchThrows
  <2> QED
    BY <1>c, <1>u, <1>7, <2>1 DEF DispatchThrows, rowVars, ghosts
<1>8. ASSUME NEW m \in Message, Verdict(m) \/ Silence(m) PROVE Calm(k)
  <2>1. LoopCalm
    BY <1>l, <1>8, LoopStateFields DEF Verdict, Silence
  <2>2. RowCalm
    BY <1>p, <1>8 DEF Verdict, Silence, RowCalm, rowVars, Doubts, InFlight
  <2> QED
    BY <1>c, <1>u, <1>8, <2>1, <2>2 DEF Verdict, Silence, rowVars, ghosts
<1>9. ASSUME Sync \/ OthersPending \/ StartIgnored PROVE Calm(k)
  BY <1>c, <1>u, <1>9 DEF Sync, OthersPending, StartIgnored, rowVars, ghosts
<1>10. ASSUME StartDrain \/ Leave PROVE Calm(k)
  <2>1. LoopCalm
    BY <1>l, <1>10, LoopStateFields DEF StartDrain, Leave
  <2> QED
    BY <1>c, <1>u, <1>10, <2>1 DEF StartDrain, Leave, rowVars, ghosts
<1>11. ASSUME NEW claims \in SUBSET Message, Unclaim(claims) PROVE Calm(k)
  <2>1. LoopCalm
    BY <1>l, <1>11, LoopStateFields DEF Unclaim
  <2>2. RowCalm
    BY <1>p, <1>11 DEF Unclaim, RowCalm, Unclaimable, Doubts, InFlight
  <2> QED
    BY <1>c, <1>u, <1>11, <2>1, <2>2 DEF Unclaim, ghosts
<1>12. ASSUME NEW w \in word, RadioSends(w) PROVE Calm(k)
  <2>1. OwedOf(k)' = OwedOf(k)
    BY <1>w, <1>12, SendsMoves DEF OwedOf, Owing, RadioSends
  <2> QED
    BY <1>c, <1>u, <1>12, <2>1 DEF RadioSends, rowVars
<1>13. ASSUME NEW w \in word, NEW why \in {"passing", "refused"}, RadioFails(w, why) PROVE Calm(k)
  <2>1. OwedOf(k)' = OwedOf(k)
    BY <1>w, <1>13, BecomesMoves, OwedSame DEF Owing, RadioFails, Posted
  <2> QED
    BY <1>c, <1>u, <1>13, <2>1 DEF RadioFails, rowVars, ghosts
<1>14. ASSUME NEW w \in word, PartOk(w) \/ ReadAttempts(w) PROVE Calm(k)
  <2>1. w.at \notin Owing
    BY <1>14 DEF PartOk, ReadAttempts, Owing
  <2>2. \/ \E at \in {"counted", "failing", "retrying"} : Becomes(w, at)
        \/ Over(w)
    BY <1>14 DEF PartOk, ReadAttempts
  <2>3. OwedOf(k)' = OwedOf(k)
    BY <1>w, <2>1, <2>2, BecomesMoves, OwedSame DEF Over, Owing, Mid
  <2> QED
    BY <1>c, <1>u, <1>14, <2>3 DEF PartOk, ReadAttempts, rowVars, ghosts
<1>15. ASSUME NEW w \in word, RetryLater(w) PROVE Calm(k)
  <2>1. w.at \notin Owing
    BY <1>15 DEF RetryLater, Owing
  <2>2. CASE Retryable(w.id)
    <3>1. RowCalm
      BY <1>r, <1>w, <1>15, <2>2 DEF RetryLater, Retryable, Doubts, InFlight
    <3>2. Handled(w)
      BY <1>15, <2>2 DEF RetryLater
    <3>3. LoopCalm /\ OwedOf(k)' = OwedOf(k)
      BY <1>p, <1>w, <1>l, <2>1, <3>2, HandledDoes, OwedSame
    <3> QED
      BY <1>c, <1>15, <3>1, <3>3 DEF RetryLater, ghosts
  <2>3. CASE ~Retryable(w.id)
    <3>1. OwedOf(k)' = OwedOf(k)
      BY <1>w, <1>15, <2>1, <2>3, BecomesMoves, OwedSame DEF RetryLater, Owing, Mid
    <3> QED
      BY <1>c, <1>u, <1>15, <2>3, <3>1 DEF RetryLater, ghosts
  <2> QED
    BY <2>2, <2>3
<1>16. ASSUME NEW w \in word, Delivered(w) \/ Undecided(w) PROVE Calm(k)
  <2>1. OwedOf(k)' = OwedOf(k)
    BY <1>16, OwedSame DEF Delivered, Undecided, Over, Owing
  <2>2. \A r \in Reports \ {"delivered"} : ledger'[k][r] = ledger[k][r]
    BY <1>p, <1>w, <1>16, TellDoes DEF Delivered, Undecided, Reports
  <2>3. LoopCalm /\ RowCalm /\ lost' = lost
    BY <1>u, <1>16 DEF Delivered, Undecided, rowVars, ghosts
  <2> QED
    BY <2>1, <2>2, <2>3 DEF Calm, RowCalm, LoopCalm
<1>17. ASSUME UNCHANGED vars PROVE Calm(k)
  BY <1>c, <1>u, <1>17 DEF vars, rowVars, ghosts
<1> QED
  BY <1>1, <1>2, <1>3, <1>4, <1>5, <1>6, <1>7, <1>8, <1>9, <1>10, <1>11, <1>12, <1>13,
     <1>14, <1>15, <1>16, <1>17 DEF RadioStep

(* The steps that write or owe a report, or end a message. *)
LEMMA VerdictStep ==
    ASSUME TypeInv, VerdictInv, \A m \in Message : Kept(m), [Next]_vars
    PROVE  VerdictInv' /\ \A m \in Message : Kept(m)'
<1> SUFFICES ASSUME NEW k \in Message
             PROVE  OneVerdict(k)' /\ OneGuess(k)' /\ Kept(k)'
  BY DEF VerdictInv
<1>p. /\ row \in [Message -> States] /\ ledger \in [Message -> [Reports -> Nat]]
      /\ drain \in LoopStates /\ word \subseteq Words /\ handings \in [Message -> Nat]
      /\ OneVerdict(k) /\ OneGuess(k) /\ Kept(k)
  BY DEF TypeInv, TypeOK, VerdictInv
<1>w. \A w \in word : w.id \in Message /\ w \in Words
  BY <1>p DEF Words
<1>n. /\ ledger[k]["sent"] \in Nat /\ ledger[k]["refused"] \in Nat /\ ledger[k]["passing"] \in Nat
      /\ ledger[k]["interrupted"] \in Nat /\ ledger[k]["undelivered"] \in Nat
  BY <1>p DEF Reports
<1>z. VerdictsTold(k) = 0 <=>
         ledger[k]["sent"] = 0 /\ ledger[k]["refused"] = 0 /\ ledger[k]["passing"] = 0
  BY <1>n DEF VerdictsTold
<1>c. Calm(k) => OneVerdict(k)' /\ OneGuess(k)' /\ Kept(k)'
  BY <1>p, CalmKeeps
<1> DEFINE Good == OneVerdict(k)' /\ OneGuess(k)' /\ Kept(k)'
<1> HIDE DEF Good
<1>g. OneVerdict(k)' /\ OneGuess(k)' /\ Kept(k)' <=> Good
  BY DEF Good
<1>1. ASSUME NEW m \in Message, Settle(m) PROVE Good
  <2>1. UNCHANGED <<word, ledger, lost>> /\ drain.at = "settling" /\ drain.id = m
    BY <1>1, LoopStateFields DEF Settle, ghosts
  <2>2. CASE row[m] \in Finishable
    <3>1. row' = [row EXCEPT ![m] = "failed"] /\ drain'.at = "telling" /\ drain'.id = m
      BY <1>1, <2>2, LoopStateFields DEF Settle, SetRow
    <3>2. CASE k # m
      BY <1>c, <1>g, <1>p, <2>1, <3>1, <3>2 DEF Calm, OwedOf, Holds
    <3>3. CASE k = m
      <4>1. /\ VerdictsTold(k) = 0 /\ ~Owes(k, VerdictOwed) /\ ~GuessClaimed(k)
        BY <1>p, <2>2, <3>3 DEF OneVerdict, OneGuess, Open, InDoubt, VerdictsOwed, Finishable
      <4>2. row'[k] = "failed" /\ Holds(k, {"telling"})' /\ ~Holds(k, {"owing"})'
        BY <1>p, <3>1, <3>3 DEF Holds
      <4>3. /\ VerdictsTold(k)' = 0 /\ ~Owes(k, VerdictOwed)' /\ ~GuessClaimed(k)'
        BY <2>1, <4>1, <4>2 DEF VerdictsTold, Owes, GuessClaimed
      <4>4. OneVerdict(k)'
        BY <4>2, <4>3 DEF OneVerdict, Open, InFlight, Owes
      <4>5. OneGuess(k)'
        <5>1. ledger'[k]["interrupted"] = 0
          BY <1>n, <4>1, <2>1 DEF GuessClaimed
        <5> QED
          BY <4>2, <4>3, <5>1 DEF OneGuess, InDoubt, InFlight
      <4>6. Kept(k)'
        BY <4>2 DEF Kept
      <4> QED
        BY <1>g, <4>4, <4>5, <4>6
    <3> QED
      BY <3>2, <3>3
  <2>3. CASE row[m] \notin Finishable
    <3>1. drain' = Loop /\ UNCHANGED row
      BY <1>1, <2>3 DEF Settle
    <3> QED
      BY <1>c, <1>g, <2>1, <3>1, LoopStateFields DEF Calm, OwedOf, Holds
  <2> QED
    BY <2>2, <2>3
<1>2. ASSUME NEW m \in Message, TellRefused(m) PROVE Good
  <2>1. /\ UNCHANGED <<row, word, lost>> /\ drain.at = "telling" /\ drain.id = m
        /\ drain'.at = "loop"
    BY <1>2, LoopStateFields DEF TellRefused, rowVars, ghosts
  <2>2. /\ ledger'[m]["refused"] = ledger[m]["refused"] + 1
        /\ \A x \in Message, r \in Reports : x # m \/ r # "refused" => ledger'[x][r] = ledger[x][r]
    BY <1>p, <1>2, TellDoes DEF TellRefused, Reports
  <2>3. CASE k # m
    BY <1>c, <1>g, <2>1, <2>2, <2>3 DEF Calm, OwedOf, Holds
  <2>4. CASE k = m
    <3>1. Holds(k, {"telling"}) /\ ~Holds(k, {"telling"})' /\ ~Holds(k, {"owing"})'
      BY <2>1, <2>4 DEF Holds
    <3>2. /\ ledger[k]["sent"] = 0 /\ ledger[k]["refused"] = 0 /\ ledger[k]["passing"] = 0
          /\ ledger[k]["interrupted"] = 0 /\ ~Owes(k, VerdictOwed) /\ ~Open(k)
      <4>1. VerdictsTold(k) = 0 /\ ~Owes(k, VerdictOwed) /\ ~Open(k)
        BY <1>p, <3>1 DEF OneVerdict, VerdictsOwed
      <4>2. ~GuessClaimed(k)
        BY <1>p, <3>1 DEF OneGuess, FailureClaimed
      <4> QED
        BY <1>n, <1>z, <4>1, <4>2 DEF GuessClaimed
    <3>3. /\ ledger'[k]["sent"] = 0 /\ ledger'[k]["refused"] = 1 /\ ledger'[k]["passing"] = 0
          /\ ledger'[k]["interrupted"] = 0 /\ ~Owes(k, VerdictOwed)' /\ ~Open(k)'
      BY <2>1, <2>2, <2>4, <3>2 DEF Owes, Open, Reports
    <3>4. VerdictsTold(k)' = 1 /\ ~GuessClaimed(k)' /\ ~VerdictsOwed(k)' /\ ~InDoubt(k)'
      BY <3>1, <3>3 DEF VerdictsTold, GuessClaimed, VerdictsOwed, InDoubt, Open
    <3>5. OneVerdict(k)' /\ OneGuess(k)'
      BY <3>1, <3>3, <3>4 DEF OneVerdict, OneGuess, Owes
    <3>6. Kept(k)'
      <4>1. "refused" \in Told(k)'
        BY <3>3 DEF Told, Reports
      <4>2. row'[k] = "sent" => "sent" \in Told(k)' \/ Owes(k, {"completed"})' \/ k \in lost'
        BY <1>p, <2>1, <2>2, <2>4 DEF Kept, Told, Owes, Reports
      <4> QED
        BY <3>3, <4>1, <4>2 DEF Kept, Open
    <3> QED
      BY <1>g, <3>5, <3>6
  <2> QED
    BY <2>3, <2>4
<1>3. ASSUME NEW m \in Message, Interrupt(m) PROVE Good
  <2>1. UNCHANGED <<word, ledger, lost>> /\ drain.at = "sweeping"
    BY <1>3 DEF Interrupt, ghosts
  <2>2. CASE row[m] \in Finishable
    <3>1. row' = [row EXCEPT ![m] = "interrupted"] /\ drain'.at = "owing" /\ drain'.id = m
      BY <1>3, <2>2 DEF Interrupt, SetRow
    <3>2. CASE k # m
      BY <1>c, <1>g, <1>p, <2>1, <3>1, <3>2 DEF Calm, OwedOf, Holds
    <3>3. CASE k = m
      <4>1. /\ VerdictsTold(k) = 0 /\ ~Owes(k, VerdictOwed) /\ ~GuessClaimed(k)
        BY <1>p, <2>2, <3>3 DEF OneVerdict, OneGuess, Open, InDoubt, VerdictsOwed, Finishable
      <4>2. row'[k] = "interrupted" /\ ~Holds(k, {"telling"})' /\ Holds(k, {"owing"})'
        BY <1>p, <3>1, <3>3 DEF Holds
      <4>3. /\ VerdictsTold(k)' = 0 /\ ~Owes(k, VerdictOwed)' /\ ledger'[k]["interrupted"] = 0
            /\ ledger'[k]["refused"] = 0 /\ ledger'[k]["passing"] = 0
        <5>1. ledger[k]["interrupted"] = 0
          BY <1>n, <4>1 DEF GuessClaimed
        <5>2. VerdictsTold(k)' = 0
          BY <2>1, <4>1 DEF VerdictsTold
        <5> QED
          BY <1>z, <2>1, <4>1, <5>1, <5>2 DEF Owes
      <4>4. ~FailureClaimed(k)'
        BY <4>2, <4>3 DEF FailureClaimed, Owes, VerdictOwed
      <4>5. OneVerdict(k)'
        BY <4>2, <4>3 DEF OneVerdict, VerdictsOwed, Owes
      <4>6. OneGuess(k)'
        BY <4>2, <4>3, <4>4 DEF OneGuess, InDoubt, InFlight
      <4> QED
        BY <1>g, <4>2, <4>5, <4>6 DEF Kept
    <3> QED
      BY <3>2, <3>3
  <2>3. CASE row[m] \notin Finishable
    <3>1. drain'.at = "sweeping" /\ UNCHANGED row
      BY <1>3, <2>3, LoopStateFields DEF Interrupt
    <3> QED
      BY <1>c, <1>g, <2>1, <3>1 DEF Calm, OwedOf, Holds
  <2> QED
    BY <2>2, <2>3
<1>4. ASSUME TellInterrupted PROVE Good
  <2>1. /\ UNCHANGED <<row, word, lost>> /\ drain.at = "owing" /\ drain.id \in Message
        /\ drain'.at = "sweeping"
    BY <1>p, <1>4, LoopStateFields, LoopStateParts DEF TellInterrupted, rowVars, ghosts
  <2>2. /\ ledger'[drain.id]["interrupted"] = ledger[drain.id]["interrupted"] + 1
        /\ \A x \in Message, r \in Reports :
              x # drain.id \/ r # "interrupted" => ledger'[x][r] = ledger[x][r]
    BY <1>p, <1>4, <2>1, TellDoes DEF TellInterrupted, Reports
  <2>3. CASE k # drain.id
    BY <1>c, <1>g, <2>1, <2>2, <2>3 DEF Calm, OwedOf, Holds
  <2>4. CASE k = drain.id
    <3>1. /\ Holds(k, {"owing"}) /\ ~Holds(k, {"telling"})
          /\ ~Holds(k, {"telling"})' /\ ~Holds(k, {"owing"})'
      BY <2>1, <2>4 DEF Holds
    <3>2. ledger[k]["interrupted"] = 0 /\ ~FailureClaimed(k) /\ ~InDoubt(k)
      BY <1>p, <3>1 DEF OneGuess, GuessClaimed
    <3>3. /\ ledger'[k]["interrupted"] = 1
          /\ ledger'[k]["sent"] = ledger[k]["sent"] /\ ledger'[k]["refused"] = ledger[k]["refused"]
          /\ ledger'[k]["passing"] = ledger[k]["passing"]
          /\ ledger'[k]["undelivered"] = ledger[k]["undelivered"]
      BY <2>2, <2>4, <3>2 DEF Reports
    <3>4. /\ VerdictsTold(k)' = VerdictsTold(k) /\ ~FailureClaimed(k)' /\ ~InDoubt(k)'
          /\ Open(k)' = Open(k) /\ \A ats : Owes(k, ats)' = Owes(k, ats)
      BY <2>1, <3>1, <3>2, <3>3 DEF VerdictsTold, FailureClaimed, InDoubt, Open, Owes
    <3>5. OneVerdict(k)'
      BY <1>p, <2>1, <3>1, <3>4 DEF OneVerdict, VerdictsOwed
    <3>6. OneGuess(k)'
      BY <3>1, <3>3, <3>4 DEF OneGuess
    <3>7. Kept(k)'
      <4>1. "interrupted" \in Told(k)'
        BY <3>3 DEF Told, Reports
      <4>2. \A r \in {"sent", "refused", "passing", "undelivered"} : r \in Told(k) => r \in Told(k)'
        BY <3>3 DEF Told, Reports
      <4> QED
        BY <1>p, <2>1, <3>1, <3>4, <4>1, <4>2 DEF Kept
    <3> QED
      BY <1>g, <3>5, <3>6, <3>7
  <2> QED
    BY <2>3, <2>4
<1>5. ASSUME NEW w \in word, CompleteIfAllParts(w) PROVE Good
  <2>1. w.at = "counted" /\ w.at \notin Owing /\ UNCHANGED <<drain, ledger, lost>>
    BY <1>5 DEF CompleteIfAllParts, ghosts, Owing
  <2>2. CASE row[w.id] \in Countable /\ AllOut(w.id)
    <3>1. row' = [row EXCEPT ![w.id] = "sent"] /\ Moved(w, "completed")
      BY <1>5, <1>w, <2>2, BecomesMoves DEF CompleteIfAllParts, SetRow, Mid, Owing
    <3>2. CASE k # w.id
      BY <1>c, <1>g, <1>p, <1>w, <2>1, <3>1, <3>2, OwedSame DEF Calm, Holds
    <3>3. CASE k = w.id
      <4>1. Open(k)
        BY <2>2, <3>3 DEF Countable, Open, InFlight
      <4>2. /\ VerdictsTold(k) = 0 /\ ~Owes(k, VerdictOwed) /\ ~Holds(k, {"telling"})
        BY <1>p, <4>1 DEF OneVerdict, VerdictsOwed
      <4>3. row'[k] = "sent"
        BY <1>p, <3>1, <3>3
      <4>4. \A v \in word' : v.id = k /\ v.at \in VerdictOwed => v.at = "completed" /\ v \notin word
        BY <3>1, <4>2 DEF Moved, Owes
      <4>5. \A v, u \in word' :
               v.id = k /\ u.id = k /\ v.at \in VerdictOwed /\ u.at \in VerdictOwed => v = u
        BY <3>1, <4>4 DEF Moved
      <4>6. Owes(k, {"completed"})'
        BY <3>1, <3>3 DEF Moved, Owes
      <4>7. VerdictsTold(k)' = 0 /\ ~Holds(k, {"telling"})' /\ ~Open(k)' /\ ~InDoubt(k)'
        BY <2>1, <4>2, <4>3 DEF VerdictsTold, Holds, Open, InDoubt, InFlight
      <4>8. OneVerdict(k)'
        BY <4>5, <4>7 DEF OneVerdict
      <4>9. OneGuess(k)'
        <5>1. GuessClaimed(k)' <=> GuessClaimed(k)
          BY <2>1 DEF GuessClaimed, Holds
        <5>2. ~Owes(k, FailureOwed)'
          BY <4>4 DEF Owes, FailureOwed, VerdictOwed
        <5>3. ~FailureClaimed(k)'
          BY <1>n, <1>z, <2>1, <4>2, <4>7, <5>2 DEF FailureClaimed
        <5> QED
          BY <1>p, <2>1, <4>7, <5>1, <5>3 DEF OneGuess, Holds
      <4> QED
        BY <1>g, <4>3, <4>6, <4>8, <4>9 DEF Kept
    <3> QED
      BY <3>2, <3>3
  <2>3. CASE ~(row[w.id] \in Countable /\ AllOut(w.id))
    <3>1. UNCHANGED row /\ word' = word \ {w}
      BY <1>5, <2>3 DEF CompleteIfAllParts, Over
    <3> QED
      BY <1>c, <1>g, <2>1, <3>1, OwedSame DEF Calm, Holds
  <2> QED
    BY <2>2, <2>3
<1>6. ASSUME NEW w \in word, Fail(w) PROVE Good
  <2>1. w.at \notin Owing /\ UNCHANGED <<ledger, lost>>
    BY <1>6 DEF Fail, ghosts, Owing
  <2>2. CASE row[w.id] \in Finishable
    <3>1. /\ row' = [row EXCEPT ![w.id] = "failed"] /\ UNCHANGED drain
          /\ \E at \in FailureOwed : Moved(w, at)
      BY <1>6, <1>w, <2>2, BecomesMoves DEF Fail, SetRow, ToTell, Mid, Owing, FailureOwed
    <3>2. CASE k # w.id
      BY <1>c, <1>g, <1>p, <1>w, <2>1, <3>1, <3>2, OwedSame DEF Calm, Holds
    <3>3. CASE k = w.id
      <4>1. InDoubt(k) /\ Open(k)
        BY <2>2, <3>3 DEF Finishable, Open, InDoubt
      <4>2. /\ VerdictsTold(k) = 0 /\ ~Owes(k, VerdictOwed) /\ ~Holds(k, {"telling"})
            /\ ~GuessClaimed(k)
        BY <1>p, <4>1 DEF OneVerdict, OneGuess, VerdictsOwed
      <4>3. row'[k] = "failed"
        BY <1>p, <3>1, <3>3
      <4>4. \A v, u \in word' :
               v.id = k /\ u.id = k /\ v.at \in VerdictOwed /\ u.at \in VerdictOwed => v = u
        BY <3>1, <4>2 DEF Moved, Owes
      <4>5. Owes(k, FailureOwed)'
        BY <3>1, <3>3 DEF Moved, Owes
      <4>6. VerdictsTold(k)' = 0 /\ ~Holds(k, {"telling"})' /\ ~Open(k)' /\ ~InDoubt(k)'
        BY <2>1, <3>1, <4>2, <4>3 DEF VerdictsTold, Holds, Open, InDoubt, InFlight
      <4>7. OneVerdict(k)'
        BY <4>4, <4>6 DEF OneVerdict
      <4>8. OneGuess(k)'
        <5>1. ~GuessClaimed(k)' /\ ledger[k]["interrupted"] = 0
          BY <1>n, <2>1, <3>1, <4>2 DEF GuessClaimed, Holds
        <5> QED
          BY <2>1, <5>1 DEF OneGuess
      <4> QED
        BY <1>g, <4>3, <4>5, <4>7, <4>8 DEF Kept, Owes
    <3> QED
      BY <3>2, <3>3
  <2>3. CASE row[w.id] \notin Finishable
    <3>1. UNCHANGED row /\ Handled(w)
      BY <1>6, <2>3 DEF Fail
    <3> QED
      BY <1>c, <1>g, <1>p, <1>w, <2>1, <3>1, HandledDoes, OwedSame DEF Calm, Holds
  <2> QED
    BY <2>2, <2>3
<1>7. ASSUME NEW w \in word, WriteReport(w) PROVE Good
  <2> DEFINE report == ReportOf(w.at)
  <2>1. /\ UNCHANGED <<row, lost>> /\ word' = word \ {w}
        /\ drain'.at = drain.at /\ drain'.id = drain.id
    BY <1>p, <1>w, <1>7, HandledDoes DEF WriteReport, Over, rowVars, ghosts
  <2>2. /\ ledger'[w.id][report] = ledger[w.id][report] + 1
        /\ \A x \in Message, r \in Reports :
              x # w.id \/ r # report => ledger'[x][r] = ledger[x][r]
        /\ w.at \in Owing /\ report \in {"sent", "refused", "passing", "undelivered"}
    <3>1. report \in Reports /\ w.at \in Owing /\ Tell(w.id, report)
          /\ report \in {"sent", "refused", "passing", "undelivered"}
      BY <1>7 DEF WriteReport, ReportOf, Owing, Reports
    <3> HIDE DEF report
    <3> QED
      BY <1>p, <1>w, <3>1, TellDoes
  <2>3. CASE k # w.id
    <3> HIDE DEF report
    <3> QED
      BY <1>c, <1>g, <2>1, <2>2, <2>3, OwedSame DEF Calm, Holds
  <2>4. CASE k = w.id /\ w.at = "tell undelivered"
    <3>1. report = "undelivered"
      BY <2>4 DEF ReportOf
    <3>2. /\ ledger'[k]["undelivered"] = ledger[k]["undelivered"] + 1
          /\ \A r \in Reports : r # "undelivered" => ledger'[k][r] = ledger[k][r]
      BY <2>2, <2>4, <3>1
    <3>3. \A ats : "tell undelivered" \notin ats => (Owes(k, ats)' <=> Owes(k, ats))
      BY <2>1, <2>4 DEF Owes
    <3>4. /\ Owes(k, VerdictOwed)' <=> Owes(k, VerdictOwed)
          /\ Owes(k, FailureOwed)' <=> Owes(k, FailureOwed)
          /\ Owes(k, {"completed"})' <=> Owes(k, {"completed"})
      BY <3>3 DEF VerdictOwed, FailureOwed
    <3>5. /\ VerdictsTold(k)' = VerdictsTold(k)
          /\ FailureClaimed(k)' <=> FailureClaimed(k)
          /\ GuessClaimed(k)' <=> GuessClaimed(k)
          /\ VerdictsOwed(k)' <=> VerdictsOwed(k)
          /\ ledger'[k]["interrupted"] = ledger[k]["interrupted"]
      BY <2>1, <3>2, <3>4
      DEF VerdictsTold, FailureClaimed, GuessClaimed, VerdictsOwed, Holds, Reports
    <3>6. OneVerdict(k)'
      BY <1>p, <2>1, <3>4, <3>5 DEF OneVerdict, Open, Holds
    <3>7. OneGuess(k)'
      BY <1>p, <2>1, <3>5 DEF OneGuess, InDoubt, Holds
    <3>8. Kept(k)'
      <4>1. "undelivered" \in Told(k)'
        BY <1>n, <3>2 DEF Told, Reports
      <4>2. \A r \in Reports : r \in Told(k) => r \in Told(k)'
        BY <3>2, <4>1 DEF Told
      <4> QED
        BY <1>p, <2>1, <3>4, <4>1, <4>2 DEF Kept, Holds, Reports
    <3> QED
      BY <1>g, <3>6, <3>7, <3>8
  <2>5. CASE k = w.id /\ w.at # "tell undelivered"
    <3>1. w.at \in VerdictOwed /\ Owes(k, VerdictOwed)
      BY <2>2, <2>5 DEF Owing, VerdictOwed, FailureOwed, Owes
    <3>2. /\ VerdictsTold(k) = 0 /\ ~Open(k) /\ ~InDoubt(k) /\ ~Holds(k, {"telling"})
      BY <1>p, <3>1 DEF OneVerdict, VerdictsOwed, Open, InDoubt
    <3>3. ~Owes(k, VerdictOwed)' /\ ~Owes(k, FailureOwed)' /\ ~Owes(k, {"completed"})'
      BY <1>p, <2>1, <2>5, <3>1 DEF OneVerdict, Owes, VerdictOwed
    <3>4. \A u \in word : u.id = k /\ u.at = "tell undelivered" => u \in word'
      BY <2>1, <2>5
    <3>5. CASE w.at = "completed"
      <4>1. report = "sent"
        BY <3>5 DEF ReportOf
      <4>2. /\ ledger'[k]["sent"] = 1 /\ ledger'[k]["refused"] = 0 /\ ledger'[k]["passing"] = 0
            /\ ledger'[k]["interrupted"] = ledger[k]["interrupted"]
            /\ ledger'[k]["undelivered"] = ledger[k]["undelivered"]
        <5>1. /\ ledger'[k]["sent"] = ledger[k]["sent"] + 1
              /\ \A r \in Reports : r # "sent" => ledger'[k][r] = ledger[k][r]
          BY <2>2, <2>5, <4>1
        <5> HIDE DEF report
        <5> QED
          BY <1>z, <3>2, <5>1 DEF Reports
      <4>3. VerdictsTold(k)' = 1 /\ ~VerdictsOwed(k)' /\ ~Open(k)'
        BY <2>1, <3>2, <3>3, <4>2 DEF VerdictsTold, VerdictsOwed, Open, Holds
      <4>4. OneVerdict(k)'
        BY <3>3, <4>3 DEF OneVerdict, Owes
      <4>5. OneGuess(k)'
        BY <1>p, <2>1, <3>2, <3>3, <4>2
        DEF OneGuess, InDoubt, FailureClaimed, GuessClaimed, Holds
      <4>6. Kept(k)'
        <5>a. ~Owes(k, FailureOwed)
          BY <1>p, <2>5, <3>5 DEF OneVerdict, Owes, VerdictOwed, FailureOwed
        <5>b. "passing" \notin Told(k) /\ "refused" \notin Told(k)
          BY <1>z, <3>2 DEF Told
        <5>1. ~Owes(k, FailureOwed) /\ "passing" \notin Told(k) /\ "refused" \notin Told(k)
          BY <5>a, <5>b
        <5>2. row[k] = "failed" => \/ "undelivered" \in Told(k)
                                   \/ Owes(k, {"tell undelivered"}) \/ k \in lost
          BY <1>p, <3>2, <5>1 DEF Kept, Owes
        <5>3. "sent" \in Told(k)' /\ ("undelivered" \in Told(k) => "undelivered" \in Told(k)')
          BY <4>2 DEF Told, Reports
        <5>4. Owes(k, {"tell undelivered"}) => Owes(k, FailureOwed \cup {"tell undelivered"})'
          BY <3>4 DEF Owes
        <5> QED
          BY <2>1, <3>2, <5>2, <5>3, <5>4 DEF Kept, Open
      <4> QED
        BY <1>g, <4>4, <4>5, <4>6
    <3>6. CASE w.at \in FailureOwed
      <4>1. report \in {"refused", "passing"}
        BY <3>6 DEF ReportOf, FailureOwed
      <4>2. FailureClaimed(k) /\ ~GuessClaimed(k)
        BY <1>p, <2>5, <3>6 DEF OneGuess, FailureClaimed, Owes
      <4>3. /\ ledger'[k]["sent"] = 0
            /\ \/ ledger'[k]["refused"] = 1 /\ ledger'[k]["passing"] = 0
               \/ ledger'[k]["refused"] = 0 /\ ledger'[k]["passing"] = 1
            /\ ledger'[k]["interrupted"] = ledger[k]["interrupted"]
        <5>1. /\ ledger'[k][report] = ledger[k][report] + 1
              /\ \A r \in Reports : r # report => ledger'[k][r] = ledger[k][r]
          BY <2>2, <2>5
        <5> HIDE DEF report
        <5> QED
          BY <1>z, <3>2, <4>1, <5>1 DEF Reports
      <4>4. VerdictsTold(k)' = 1 /\ ~VerdictsOwed(k)' /\ ~Open(k)'
        BY <2>1, <3>2, <3>3, <4>3 DEF VerdictsTold, VerdictsOwed, Open, Holds
      <4>5. OneVerdict(k)'
        BY <3>3, <4>4 DEF OneVerdict, Owes
      <4>6. OneGuess(k)'
        BY <1>n, <2>1, <4>2, <4>3 DEF OneGuess, GuessClaimed, Holds
      <4>7. Kept(k)'
        <5>1. Told(k)' \cap {"refused", "passing", "undelivered"} # {}
          BY <4>3 DEF Told, Reports
        <5>2. ~Owes(k, {"completed"}) /\ "sent" \notin Told(k)
          <6>1. ~Owes(k, {"completed"})
            BY <1>p, <2>5, <3>6 DEF OneVerdict, Owes, VerdictOwed, FailureOwed
          <6> QED
            BY <1>z, <3>2, <6>1 DEF Told
        <5> QED
          BY <1>p, <2>1, <3>2, <5>1, <5>2 DEF Kept, Open
      <4> QED
        BY <1>g, <4>5, <4>6, <4>7
    <3> QED
      BY <3>1, <3>5, <3>6 DEF VerdictOwed
  <2> QED
    BY <2>3, <2>4, <2>5
<1>8. ASSUME NEW w \in word, Undelivered(w) PROVE Good
  <2>1. /\ w.at = "delivery" /\ UNCHANGED <<drain, ledger, lost>>
        /\ row' = [row EXCEPT ![w.id] = "failed"] /\ Moved(w, "tell undelivered")
    BY <1>8, <1>w, BecomesMoves DEF Undelivered, ghosts, SetRow, Mid, Owing
  <2>2. CASE k # w.id
    BY <1>c, <1>g, <1>p, <1>w, <2>1, <2>2, OwedSame DEF Calm, Holds
  <2>3. CASE k = w.id
    <3>1. row'[k] = "failed"
      BY <1>p, <2>1, <2>3
    <3>2. \A v : v.at \in VerdictOwed => (v \in word' <=> v \in word)
      BY <2>1 DEF Moved, VerdictOwed, FailureOwed
    <3>3. /\ Owes(k, VerdictOwed)' <=> Owes(k, VerdictOwed)
          /\ Owes(k, FailureOwed)' <=> Owes(k, FailureOwed)
      BY <3>2 DEF Owes, VerdictOwed
    <3>4. /\ VerdictsTold(k)' = VerdictsTold(k)
          /\ FailureClaimed(k)' <=> FailureClaimed(k)
          /\ GuessClaimed(k)' <=> GuessClaimed(k)
          /\ VerdictsOwed(k)' <=> VerdictsOwed(k)
          /\ ~Open(k)' /\ ~InDoubt(k)'
      BY <2>1, <3>1, <3>3
      DEF VerdictsTold, FailureClaimed, GuessClaimed, VerdictsOwed, Holds, Open, InDoubt, InFlight
    <3>5. OneVerdict(k)'
      BY <1>p, <2>1, <3>2, <3>3, <3>4 DEF OneVerdict, Holds
    <3>6. OneGuess(k)'
      BY <1>p, <2>1, <3>4 DEF OneGuess, Holds
    <3>7. Owes(k, FailureOwed \cup {"tell undelivered"})'
      BY <2>1, <2>3 DEF Moved, Owes
    <3> QED
      BY <1>g, <3>1, <3>5, <3>6, <3>7 DEF Kept
  <2> QED
    BY <2>2, <2>3
<1>9. ASSUME ServiceStops \/ \E restart \in BOOLEAN : ProcessDies(restart) PROVE Good
  <2>1. UNCHANGED <<row, ledger>> /\ drain'.at = "off"
    BY <1>9, LoopStateFields DEF ServiceStops, ProcessDies, rowVars
  <2>2. lost \cup OwedByLoop \subseteq lost'
    BY <1>9 DEF ServiceStops, ProcessDies
  <2>3. /\ word' \subseteq word
        /\ \A w \in word : w \in word' \/ w.at \notin Owing \/ w.id \in lost'
    BY <1>9 DEF ServiceStops, ProcessDies, OwedByWords
  <2>4. ~Holds(k, {"telling"})' /\ ~Holds(k, {"owing"})'
    BY <2>1 DEF Holds
  <2>5. \A ats : Owes(k, ats)' => Owes(k, ats)
    BY <2>3 DEF Owes
  <2>6. /\ VerdictsTold(k)' = VerdictsTold(k)
        /\ FailureClaimed(k)' => FailureClaimed(k)
        /\ GuessClaimed(k)' => GuessClaimed(k)
        /\ VerdictsOwed(k)' => VerdictsOwed(k)
        /\ Open(k)' <=> Open(k)
        /\ InDoubt(k)' <=> InDoubt(k)
    BY <2>1, <2>4, <2>5
    DEF VerdictsTold, FailureClaimed, GuessClaimed, VerdictsOwed, Open, InDoubt
  <2>7. OneVerdict(k)'
    BY <1>p, <2>3, <2>4, <2>6 DEF OneVerdict
  <2>8. OneGuess(k)'
    BY <1>p, <2>1, <2>4, <2>6 DEF OneGuess
  <2>9. Kept(k)'
    <3>1. Holds(k, {"telling"}) \/ Holds(k, {"owing"}) => k \in lost'
      BY <2>2 DEF Holds, OwedByLoop
    <3>2. \A ats \in SUBSET Owing : Owes(k, ats) => Owes(k, ats)' \/ k \in lost'
      BY <2>3 DEF Owes
    <3>3. /\ Owes(k, {"completed"}) => Owes(k, {"completed"})' \/ k \in lost'
          /\ Owes(k, FailureOwed \cup {"tell undelivered"})
                => Owes(k, FailureOwed \cup {"tell undelivered"})' \/ k \in lost'
      BY <3>2 DEF Owing, FailureOwed
    <3>4. Told(k)' = Told(k) /\ (k \in lost => k \in lost')
      BY <2>1, <2>2 DEF Told
    <3> QED
      BY <1>p, <2>1, <3>1, <3>3, <3>4 DEF Kept
  <2> QED
    BY <1>g, <2>7, <2>8, <2>9
<1>10. CASE /\ ~ \E m \in Message : Settle(m) \/ TellRefused(m) \/ Interrupt(m)
            /\ ~TellInterrupted /\ ~ServiceStops
            /\ ~ \E w \in word : \/ CompleteIfAllParts(w) \/ Fail(w) \/ WriteReport(w)
                                 \/ Undelivered(w)
            /\ ~ \E restart \in BOOLEAN : ProcessDies(restart)
  BY <1>c, <1>g, <1>10, CalmSteps DEF Next, LoopStep, StartStep, HandlerStep
<1> QED
  BY <1>g, <1>1, <1>2, <1>3, <1>4, <1>5, <1>6, <1>7, <1>8, <1>9, <1>10

-----------------------------------------------------------------------------
(* The air, and the words about it *)

(* The answers a coroutine turns into. *)
Turned == Failing \cup {"counted", "completed"}

WordsEnd == word' \subseteq word /\ UNCHANGED <<air, handings>>

WordTurns(w, at) ==
    /\ Moved(w, at) /\ at # w.at
    /\ UNCHANGED <<air, handings>>
    /\ \/ w.at = "delivery" /\ at = "tell undelivered"
       \/ Answering(w) /\ at \in Turned
    /\ at \in Failing => w.at \in Failing \cup {"radio"}

(* What a step can do to the words and the air. *)
LEMMA StepKinds ==
    ASSUME TypeInv, [Next]_vars
    PROVE  \/ WordsEnd
           \/ \E w \in word : \E at : WordTurns(w, at)
           \/ \E w \in word : RadioSends(w)
           \/ \E m \in Message : Dispatch(m)
<1> DEFINE Kind == \/ WordsEnd
                   \/ \E w \in word : \E at : WordTurns(w, at)
                   \/ \E w \in word : RadioSends(w)
                   \/ \E m \in Message : Dispatch(m)
<1> HIDE DEF Kind
<1>k. /\ WordsEnd => Kind
      /\ \A w \in word : \A at : WordTurns(w, at) => Kind
      /\ \A w \in word : RadioSends(w) => Kind
      /\ \A m \in Message : Dispatch(m) => Kind
  BY DEF Kind
<1>w. \A w \in word : w \in Words
  BY DEF TypeInv
<1>h. \A w \in word : Handled(w) => word' \subseteq word
  BY DEF Handled, Over
<1>t. ASSUME NEW w \in word, NEW at \in Turned, Becomes(w, at), at # w.at, Answering(w),
             at \in Failing => w.at \in Failing \cup {"radio"}, UNCHANGED <<air, handings>>
      PROVE  Kind
  <2>1. at \in Posted \cup Mid
    BY DEF Turned, Failing, Posted, Mid, Owing
  <2>2. Moved(w, at)
    BY <1>w, <1>t, <2>1, BecomesMoves
  <2>3. WordTurns(w, at)
    BY <1>t, <2>2 DEF WordTurns
  <2> QED
    BY <1>k, <2>3
<1>1. ASSUME NEW m \in Message,
             \/ Fetch(m) \/ CoolOffPasses(m) \/ Pick(m) \/ MarkHanded(m) \/ DispatchThrows(m)
             \/ Settle(m) \/ TellRefused(m) \/ Verdict(m) \/ Silence(m) \/ Interrupt(m)
             \/ \E sendable \in BOOLEAN : Claim(m, sendable)
      PROVE  Kind
  <2>1. WordsEnd
    BY <1>1 DEF WordsEnd, Fetch, CoolOffPasses, Pick, MarkHanded, DispatchThrows, Settle,
                TellRefused, Verdict, Silence, Interrupt, Claim, ghosts
  <2> QED
    BY <1>k, <2>1
<1>2. ASSUME \/ Sync \/ OthersPending \/ StartIgnored \/ StartDrain \/ TellInterrupted \/ Leave
             \/ \E claims \in SUBSET Message : Unclaim(claims)
             \/ UNCHANGED vars
      PROVE  Kind
  <2>1. WordsEnd
    BY <1>2 DEF WordsEnd, Sync, OthersPending, StartIgnored, StartDrain, TellInterrupted, Leave,
                Unclaim, vars, ghosts
  <2> QED
    BY <1>k, <2>1
<1>3. ASSUME ServiceStops \/ \E restart \in BOOLEAN : ProcessDies(restart) PROVE Kind
  <2>1. WordsEnd
    BY <1>3 DEF WordsEnd, ServiceStops, ProcessDies
  <2> QED
    BY <1>k, <2>1
<1>4. ASSUME NEW w \in word, NEW why \in {"passing", "refused"}, RadioFails(w, why) PROVE Kind
  BY <1>t, <1>4 DEF RadioFails, Turned, Failing, Answering, ghosts
<1>5. ASSUME NEW w \in word, PartOk(w) PROVE Kind
  <2>1. CASE Over(w)
    BY <1>k, <1>5, <2>1 DEF WordsEnd, PartOk, Over, ghosts
  <2>2. CASE Becomes(w, "counted")
    BY <1>t, <1>5, <2>2 DEF PartOk, Turned, Failing, Answering, ghosts
  <2> QED
    BY <1>5, <2>1, <2>2 DEF PartOk
<1>6. ASSUME NEW w \in word, CompleteIfAllParts(w) PROVE Kind
  <2>1. CASE Over(w)
    BY <1>k, <1>6, <2>1 DEF WordsEnd, CompleteIfAllParts, Over, ghosts
  <2>2. CASE Becomes(w, "completed")
    BY <1>t, <1>6, <2>2 DEF CompleteIfAllParts, Turned, Failing, Answering, ghosts
  <2> QED
    BY <1>6, <2>1, <2>2 DEF CompleteIfAllParts
<1>7. ASSUME NEW w \in word, ReadAttempts(w) PROVE Kind
  BY <1>t, <1>7 DEF ReadAttempts, Turned, Failing, Answering, ghosts
<1>8. ASSUME NEW w \in word, RetryLater(w) PROVE Kind
  <2>1. CASE Handled(w)
    BY <1>h, <1>k, <1>8, <2>1 DEF WordsEnd, RetryLater, ghosts
  <2>2. CASE Becomes(w, "failing")
    BY <1>t, <1>8, <2>2 DEF RetryLater, Turned, Failing, Answering, ghosts
  <2> QED
    BY <1>8, <2>1, <2>2 DEF RetryLater
<1>9. ASSUME NEW w \in word, Fail(w) PROVE Kind
  <2>1. CASE Handled(w)
    BY <1>h, <1>k, <1>9, <2>1 DEF WordsEnd, Fail, ghosts
  <2>2. CASE Becomes(w, ToTell(w))
    BY <1>t, <1>9, <2>2 DEF Fail, ToTell, Turned, Failing, Answering, ghosts
  <2> QED
    BY <1>9, <2>1, <2>2 DEF Fail
<1>10. ASSUME NEW w \in word, WriteReport(w) \/ Delivered(w) \/ Undecided(w) PROVE Kind
  <2>1. word' \subseteq word
    BY <1>h, <1>10 DEF WriteReport, Delivered, Undecided, Over
  <2> QED
    BY <1>k, <1>10, <2>1 DEF WordsEnd, WriteReport, Delivered, Undecided, ghosts
<1>11. ASSUME NEW w \in word, Undelivered(w) PROVE Kind
  <2>1. WordTurns(w, "tell undelivered")
    BY <1>w, <1>11, BecomesMoves DEF WordTurns, Undelivered, Mid, Owing, Failing, ghosts
  <2> QED
    BY <1>k, <2>1
<1> QED
  <2>1. Kind
    BY <1>k, <1>1, <1>2, <1>3, <1>4, <1>5, <1>6, <1>7, <1>8, <1>9, <1>10, <1>11
    DEF Next, LoopStep, StartStep, RadioStep, HandlerStep
  <2> QED
    BY <2>1 DEF Kind

(* Each kind of step keeps what the words say of the air true. *)
LEMMA AirStep ==
    ASSUME TypeInv, AirInv, [Next]_vars
    PROVE  AirInv'
<1>p. /\ word \subseteq Words /\ handings \in [Message -> Nat]
      /\ \A w \in word : w \in Words /\ w.id \in Message /\ w.try \in 1..handings[w.id]
  BY DEF TypeInv, TypeOK
<1>i. /\ \A a \in air : a[1] \in Message /\ a[3] \in 1..handings[a[1]]
      /\ \A v, w \in word :
            Answering(v) /\ Answering(w) /\ v.id = w.id /\ v.part = w.part /\ v.try = w.try => v = w
      /\ \A w \in word : w.at \in Failing \cup {"radio"} => ~Flown(w)
      /\ \A w \in word : w.at = "ok" => Flown(w)
  BY DEF AirInv
<1>1. CASE WordsEnd
  BY <1>1 DEF WordsEnd, AirInv, Flown
<1>2. ASSUME NEW w \in word, NEW at, WordTurns(w, at) PROVE AirInv'
  <2>1. PICK u \in Words : /\ u.id = w.id /\ u.part = w.part /\ u.try = w.try /\ u.at = at
                           /\ word' = (word \ {w}) \cup {u}
    BY <1>2 DEF WordTurns, Moved
  <2>2. /\ UNCHANGED <<air, handings>> /\ at \notin {"radio", "ok"}
        /\ Answering(u) => Answering(w)
        /\ at \in Failing => w.at \in Failing \cup {"radio"}
    BY <1>2, <2>1 DEF WordTurns, Turned, Failing, Answering
  <2>3. \A v, x \in word' :
           Answering(v) /\ Answering(x) /\ v.id = x.id /\ v.part = x.part /\ v.try = x.try => v = x
    BY <1>i, <2>1, <2>2
  <2>4. \A v \in word' : v.at \in Failing \cup {"radio"} => ~Flown(v)'
    BY <1>i, <2>1, <2>2 DEF Flown
  <2>5. \A v \in word' : v.at = "ok" => Flown(v)'
    BY <1>i, <2>1, <2>2 DEF Flown
  <2> QED
    BY <1>i, <2>2, <2>3, <2>4, <2>5 DEF AirInv
<1>3. ASSUME NEW w \in word, RadioSends(w) PROVE AirInv'
  <2>1. PICK u \in Words, reports \in SUBSET Words :
           /\ u.id = w.id /\ u.part = w.part /\ u.try = w.try /\ u.at = "ok"
           /\ \A r \in reports : r.id = w.id /\ r.part = w.part /\ r.try = 1 /\ r.at = "delivery"
           /\ word' = (word \ {w}) \cup {u} \cup reports
    BY <1>p, <1>3, SendsMoves
  <2>2. /\ w.at = "radio" /\ Answering(w) /\ handings' = handings
        /\ air' = air \cup {<<w.id, w.part, w.try>>}
    BY <1>3 DEF RadioSends, Answering
  <2>3. \A v \in word' : Answering(v) => v = u \/ v \in word \ {w}
    BY <2>1 DEF Answering
  <2>4. \A v, x \in word' :
           Answering(v) /\ Answering(x) /\ v.id = x.id /\ v.part = x.part /\ v.try = x.try => v = x
    BY <1>i, <2>1, <2>2, <2>3
  <2>5. \A v \in word' : v.at \in Failing \cup {"radio"} => ~Flown(v)'
    <3> SUFFICES ASSUME NEW v \in word', v.at \in Failing \cup {"radio"} PROVE ~Flown(v)'
      OBVIOUS
    <3>1. Answering(v) /\ v \in word \ {w}
      BY <2>1, <2>3 DEF Answering, Failing
    <3>2. v.id # w.id \/ v.part # w.part \/ v.try # w.try
      BY <1>i, <2>2, <3>1
    <3> QED
      BY <1>i, <2>2, <3>1, <3>2 DEF Flown
  <2>6. \A v \in word' : v.at = "ok" => Flown(v)'
    BY <1>i, <2>1, <2>2 DEF Flown
  <2>7. \A a \in air' : a[1] \in Message /\ a[3] \in 1..handings'[a[1]]
    BY <1>i, <1>p, <2>2
  <2> QED
    BY <2>4, <2>5, <2>6, <2>7 DEF AirInv
<1>4. ASSUME NEW m \in Message, Dispatch(m) PROVE AirInv'
  <2>1. PICK given \in SUBSET Words :
           /\ word' = word \cup given
           /\ \A v \in given : v.id = m /\ v.try = handings[m] + 1 /\ v.at = "radio"
           /\ \A v, w \in given : v.part = w.part => v = w
    BY <1>p, <1>4, HandsOver
  <2>2. air' = air /\ handings' = [handings EXCEPT ![m] = @ + 1]
    BY <1>4 DEF Dispatch
  <2>3. handings'[m] = handings[m] + 1 /\ \A k \in Message : k # m => handings'[k] = handings[k]
    BY <1>p, <2>2
  <2>4. \A w \in word : w.id = m => w.try # handings[m] + 1
    BY <1>p
  <2>5. \A v, x \in word' :
           Answering(v) /\ Answering(x) /\ v.id = x.id /\ v.part = x.part /\ v.try = x.try => v = x
    BY <1>i, <2>1, <2>4
  <2>6. \A v \in given : ~Flown(v)'
    <3>1. <<m, handings[m] + 1>> \notin {<<a[1], a[3]>> : a \in air}
      BY <1>i, <1>p
    <3>2. \A v \in given : /\ <<v.id, v.part, v.try>>[1] = m
                           /\ <<v.id, v.part, v.try>>[3] = handings[m] + 1
      BY <2>1
    <3> QED
      BY <2>2, <3>1, <3>2 DEF Flown
  <2>7. \A v \in word' : v.at \in Failing \cup {"radio"} => ~Flown(v)'
    BY <1>i, <2>1, <2>2, <2>6 DEF Flown
  <2>8. \A v \in word' : v.at = "ok" => Flown(v)'
    BY <1>i, <2>1, <2>2 DEF Flown
  <2>9. \A a \in air' : a[1] \in Message /\ a[3] \in 1..handings'[a[1]]
    <3> SUFFICES ASSUME NEW a \in air PROVE a[1] \in Message /\ a[3] \in 1..handings'[a[1]]
      BY <2>2
    <3>1. CASE a[1] # m
      BY <1>i, <2>3, <3>1
    <3>2. CASE a[1] = m
      BY <1>i, <1>p, <2>3, <3>2
    <3> QED
      BY <3>1, <3>2
  <2> QED
    BY <2>5, <2>7, <2>8, <2>9 DEF AirInv
<1> QED
  BY <1>1, <1>2, <1>3, <1>4, StepKinds

(* What is spoilt stays so: nothing of an earlier handing comes back. *)
LEMMA SpoiltStays ==
    ASSUME TypeInv, [Next]_vars, NEW m \in Message, NEW n \in 1..handings[m], Spoilt(m, n)
    PROVE  Spoilt(m, n)'
<1>p. /\ handings \in [Message -> Nat] /\ \A w \in word : w \in Words
  BY DEF TypeInv
<1> PICK p \in 1..Segments[m] :
       /\ <<m, p, n>> \notin air
       /\ \A w \in word : ~(w.id = m /\ w.part = p /\ w.try = n /\ w.at = "radio")
  BY DEF Spoilt
<1> SUFFICES /\ <<m, p, n>> \notin air'
             /\ \A w \in word' : ~(w.id = m /\ w.part = p /\ w.try = n /\ w.at = "radio")
  BY DEF Spoilt
<1>1. CASE WordsEnd
  BY <1>1 DEF WordsEnd
<1>2. ASSUME NEW w \in word, NEW at, WordTurns(w, at)
      PROVE  /\ <<m, p, n>> \notin air'
             /\ \A v \in word' : ~(v.id = m /\ v.part = p /\ v.try = n /\ v.at = "radio")
  <2>1. at # "radio" /\ air' = air
    BY <1>2 DEF WordTurns, Turned, Failing
  <2> QED
    BY <1>2, <2>1 DEF WordTurns, Moved
<1>3. ASSUME NEW w \in word, RadioSends(w)
      PROVE  /\ <<m, p, n>> \notin air'
             /\ \A v \in word' : ~(v.id = m /\ v.part = p /\ v.try = n /\ v.at = "radio")
  <2>1. w.at = "radio" /\ air' = air \cup {<<w.id, w.part, w.try>>}
    BY <1>3 DEF RadioSends
  <2>2. \A v \in word' : v.at = "radio" => v \in word
    BY <1>p, <1>3, SendsMoves
  <2> QED
    BY <2>1, <2>2
<1>4. ASSUME NEW k \in Message, Dispatch(k)
      PROVE  /\ <<m, p, n>> \notin air'
             /\ \A v \in word' : ~(v.id = m /\ v.part = p /\ v.try = n /\ v.at = "radio")
  <2>1. PICK given \in SUBSET Words :
           /\ word' = word \cup given
           /\ \A v \in given : v.id = k /\ v.try = handings[k] + 1
    BY <1>p, <1>4, HandsOver
  <2>2. \A v \in given : v.id = m => v.try # n
    BY <1>p, <2>1
  <2> QED
    BY <1>4, <2>1, <2>2 DEF Dispatch
<1> QED
  BY <1>1, <1>2, <1>3, <1>4, StepKinds

(* What went out went out. *)
LEMMA AirStays ==
    ASSUME TypeInv, [Next]_vars, NEW m \in Message
    PROVE  /\ air \subseteq air'
           /\ handings'[m] \in Nat /\ handings[m] <= handings'[m]
           /\ ~Dispatch(m) => handings'[m] = handings[m]
           /\ WentOut(m) => WentOut(m)'
<1>p. handings \in [Message -> Nat]
  BY DEF TypeInv
<1>1. air \subseteq air'
  BY StepKinds DEF WordsEnd, WordTurns, RadioSends, Dispatch
<1>2. /\ handings'[m] \in Nat /\ handings[m] <= handings'[m]
      /\ ~Dispatch(m) => handings'[m] = handings[m]
  <2>1. ASSUME NEW k \in Message, Dispatch(k)
        PROVE  /\ handings'[m] \in Nat /\ handings[m] <= handings'[m]
               /\ ~Dispatch(m) => handings'[m] = handings[m]
    <3>1. handings' = [handings EXCEPT ![k] = @ + 1]
      BY <2>1 DEF Dispatch
    <3>2. CASE k = m
      BY <1>p, <2>1, <3>1, <3>2
    <3>3. CASE k # m
      BY <1>p, <3>1, <3>3
    <3> QED
      BY <3>2, <3>3
  <2>2. handings' = handings \/ \E k \in Message : Dispatch(k)
    BY StepKinds DEF WordsEnd, WordTurns, RadioSends
  <2> QED
    BY <1>p, <2>1, <2>2
<1>3. ASSUME WentOut(m) PROVE WentOut(m)'
  <2>1. PICK n \in 1..handings[m] : OnAir(m, n) = 1..Segments[m]
    BY <1>3 DEF WentOut
  <2>2. n \in 1..handings'[m] /\ OnAir(m, n)' = 1..Segments[m]
    BY <1>1, <1>2, <1>p, <2>1 DEF OnAir
  <2> QED
    BY <2>2 DEF WentOut
<1> QED
  BY <1>1, <1>2, <1>3

(* Only a handing makes answers to wait for; a part heard of stays heard of. *)
LEMMA AnswersStay ==
    ASSUME TypeInv, AirInv, [Next]_vars, NEW m \in Message, ~Dispatch(m)
    PROVE  /\ AnswersAreCurrent(m) => AnswersAreCurrent(m)'
           /\ Unanswered(m)' => Unanswered(m)
           /\ Heard(m) \subseteq Heard(m)'
<1>p. /\ handings \in [Message -> Nat] /\ \A w \in word : w \in Words
  BY DEF TypeInv
<1>a. /\ \A w \in word : w.at = "radio" => ~Flown(w)
      /\ air \subseteq air' /\ handings'[m] = handings[m]
  BY AirStays DEF AirInv
<1> DEFINE Same(v) == \E u \in word : /\ u.id = v.id /\ u.part = v.part /\ u.try = v.try
                                      /\ Answering(u)
                                      /\ v.at = "ok" => u.at \in {"ok", "radio"}
                                      /\ v.at = "ok" /\ u.at = "ok" => u = v
<1>s. \A v \in word' : v.id = m /\ Answering(v) => Same(v)
  <2>1. CASE WordsEnd
    BY <2>1 DEF WordsEnd
  <2>2. ASSUME NEW w \in word, NEW at, WordTurns(w, at), NEW v \in word', Answering(v)
        PROVE  Same(v)
    <3>1. CASE v \in word
      BY <2>2, <3>1
    <3>2. CASE v \notin word
      <4>1. v.id = w.id /\ v.part = w.part /\ v.try = w.try /\ v.at = at
        BY <2>2, <3>2 DEF WordTurns, Moved
      <4>2. Answering(w) /\ at # "ok"
        BY <2>2, <4>1 DEF WordTurns, Turned, Failing, Answering
      <4> QED
        BY <4>1, <4>2
    <3> QED
      BY <3>1, <3>2
  <2>3. ASSUME NEW w \in word, RadioSends(w), NEW v \in word', Answering(v) PROVE Same(v)
    <3>1. w.at = "radio" /\ Answering(w)
      BY <2>3 DEF RadioSends, Answering
    <3>2. \/ v \in word
          \/ v.id = w.id /\ v.part = w.part /\ v.try = w.try /\ v.at = "ok"
      BY <1>p, <2>3, SendsMoves DEF Answering
    <3> QED
      BY <2>3, <3>1, <3>2
  <2>4. ASSUME NEW k \in Message, Dispatch(k), NEW v \in word', v.id = m, Answering(v)
        PROVE  Same(v)
    <3>1. k # m
      BY <2>4
    <3>2. v \in word
      BY <1>p, <2>4, <3>1, HandsOver
    <3> QED
      BY <2>4, <3>2
  <2> QED
    BY <2>1, <2>2, <2>3, <2>4, StepKinds
<1>1. ASSUME AnswersAreCurrent(m) PROVE AnswersAreCurrent(m)'
  BY <1>1, <1>a, <1>s DEF AnswersAreCurrent
<1>2. Unanswered(m)' => Unanswered(m)
  BY <1>s DEF Unanswered, Answering
<1>3. Heard(m) \subseteq Heard(m)'
  <2> SUFFICES ASSUME NEW p \in Heard(m) PROVE p \in Heard(m)'
    OBVIOUS
  <2>1. /\ p \in 1..Segments[m] /\ <<m, p, handings[m]>> \in air
        /\ \A w \in word : ~(w.id = m /\ w.part = p /\ w.try = handings[m] /\ w.at = "ok")
    BY DEF Heard
  <2>2. ASSUME NEW v \in word', v.id = m, v.part = p, v.try = handings[m], v.at = "ok"
        PROVE  FALSE
    <3>1. PICK u \in word : /\ u.id = m /\ u.part = p /\ u.try = handings[m]
                            /\ u.at \in {"ok", "radio"}
      BY <1>s, <2>2 DEF Answering
    <3>2. u.at # "radio"
      BY <1>a, <2>1, <3>1 DEF Flown
    <3> QED
      BY <2>1, <3>1, <3>2
  <2> QED
    BY <1>a, <2>1, <2>2 DEF Heard
<1> QED
  BY <1>1, <1>2, <1>3

-----------------------------------------------------------------------------
(* Prompt messages *)

(* What must be so for a step to leave a message prompt. *)
LEMMA PromptKeeps ==
    ASSUME TypeInv, AirInv, [Next]_vars, NEW m \in Message, Prompt(m), ~Dispatch(m),
           ToBeHanded(m)' => ToBeHanded(m) \/ ~Unanswered(m),
           FreeToSend(m)' => Hopeless(m),
           FailureClaimed(m)' => ~Holds(m, {"claimed", "marked"})',
           Live(m)' => \/ partsOk'[m] = 0
                       \/ Live(m) /\ partsOk'[m] = partsOk[m]
                       \/ partsOk'[m] <= Cardinality(Heard(m)'),
           Marked(m)',
           Live(m)' => ~Unanswered(m) \/ (Live(m) /\ parts'[m] = parts[m]),
           SentClaimed(m)' => WentOut(m),
           Claimed(m)'
    PROVE  Prompt(m)'
<1>p. /\ handings \in [Message -> Nat] /\ partsOk \in [Message -> Nat]
      /\ Segments[m] \in Nat
  BY PartsAssumption DEF TypeInv, TypeOK
<1>h. handings'[m] = handings[m]
  BY AirStays
<1>1. AnswersAreCurrent(m)' /\ (ToBeHanded(m)' => ~Unanswered(m)')
  BY AnswersStay DEF Prompt
<1>2. EarlierSpoilt(m)'
  BY <1>h, SpoiltStays DEF Prompt, EarlierSpoilt
<1>3. FreeToSend(m)' => Hopeless(m)'
  BY <1>h, SpoiltStays DEF Hopeless
<1>4. Live(m)' => partsOk'[m] <= Cardinality(Heard(m)')
  <2>1. IsFiniteSet(1..Segments[m]) /\ Heard(m)' \subseteq 1..Segments[m]
    <3>1. IsFiniteSet(1..Segments[m])
      <4>1. \A b \in Int : IsFiniteSet(1..b)
        BY FS_Interval
      <4> QED
        BY <1>p, <4>1
    <3>2. Heard(m)' \subseteq 1..Segments[m]
      BY DEF Heard
    <3> QED
      BY <3>1, <3>2
  <2>2. IsFiniteSet(Heard(m)')
    BY <2>1, FS_Subset
  <2>3. Heard(m) \subseteq Heard(m)'
    BY AnswersStay
  <2>4. IsFiniteSet(Heard(m)) /\ Cardinality(Heard(m)) <= Cardinality(Heard(m)')
    BY <2>2, <2>3, FS_Subset
  <2>5. Cardinality(Heard(m)) \in Nat /\ Cardinality(Heard(m)') \in Nat
    BY <2>2, <2>4, FS_CardinalityType
  <2>6. Live(m) => partsOk[m] <= Cardinality(Heard(m))
    BY DEF Prompt
  <2> HIDE DEF Heard
  <2> QED
    BY <1>p, <2>4, <2>5, <2>6
<1>5. Live(m)' /\ Unanswered(m)' => parts'[m] = Segments[m]
  BY AnswersStay DEF Prompt
<1>6. SentClaimed(m)' => WentOut(m)'
  BY AirStays
<1> QED
  BY <1>1, <1>2, <1>3, <1>4, <1>5, <1>6 DEF Prompt

ClaimPlaces == {"claimed", "unsendable", "marked", "settling"}

(* A step that neither claims, hands over nor answers message m. *)
RowStill(m) ==
    \/ row'[m] = row[m]
    \/ row'[m] = "failed"
    \/ row[m] = "none" /\ row'[m] = "pending"
    \/ row[m] = "sending" /\ row'[m] = "pending" /\ ~Holds(m, ClaimPlaces)'
    \/ Live(m) /\ row'[m] \in {"awaiting", "interrupted"} /\ ~Holds(m, ClaimPlaces)'

LoopStill(m) ==
    Holds(m, ClaimPlaces)' =>
       drain.id = m /\ (drain.at = drain'.at \/ (drain.at = "marked" /\ drain'.at = "settling"))

CountStill(m) == parts'[m] = parts[m] /\ partsOk'[m] = partsOk[m]

ClaimsStill(m) ==
    /\ FailureClaimed(m)' => FailureClaimed(m)
    /\ SentClaimed(m)' => SentClaimed(m)

Still(m) == RowStill(m) /\ LoopStill(m) /\ CountStill(m) /\ ClaimsStill(m)

(* Such a step leaves it prompt. *)
LEMMA StillKeeps ==
    ASSUME TypeInv, AirInv, [Next]_vars, NEW m \in Message, Prompt(m), ~Dispatch(m), Still(m)
    PROVE  Prompt(m)'
<1>l. /\ Holds(m, {"claimed", "unsendable"})' => Holds(m, {"claimed", "unsendable"})
      /\ Holds(m, {"marked", "settling"})' => Holds(m, {"marked", "settling"})
      /\ Holds(m, {"marked"})' => Holds(m, {"marked"})
      /\ Holds(m, {"claimed", "marked"})' => Holds(m, {"claimed", "marked"})
      /\ Holds(m, ClaimPlaces)' => Holds(m, ClaimPlaces)
  BY DEF Still, LoopStill, Holds, ClaimPlaces
<1>h. Holds(m, ClaimPlaces) => row[m] \in {"sending", "handed", "failed"}
  BY DEF Prompt, Claimed, Holds, ClaimPlaces
<1>r. /\ RowStill(m) /\ CountStill(m) /\ ClaimsStill(m)
      /\ Claimed(m) /\ Marked(m)
  BY DEF Still, Prompt
<1>1. ToBeHanded(m)' => ToBeHanded(m)
  BY <1>l, <1>r DEF RowStill, ToBeHanded, ClaimPlaces
<1>2. FreeToSend(m)' => FreeToSend(m)
  BY <1>1, <1>r DEF RowStill, FreeToSend, ClaimsStill, ToBeHanded
<1>3. Live(m)' => Live(m)
  BY <1>r DEF RowStill, Live
<1>4. Claimed(m)'
  <2>1. ~Holds(m, ClaimPlaces)' =>
            ~Holds(m, {"claimed", "unsendable"})' /\ ~Holds(m, {"marked", "settling"})'
    BY DEF Holds, ClaimPlaces
  <2>2. Holds(m, ClaimPlaces)' => row'[m] = row[m] \/ row'[m] = "failed"
    BY <1>h, <1>l, <1>r DEF RowStill
  <2> QED
    BY <1>l, <1>r, <2>1, <2>2 DEF Claimed
<1>5. Marked(m)'
  BY <1>3, <1>l, <1>r DEF Marked, CountStill
<1> QED
  BY <1>1, <1>2, <1>3, <1>4, <1>5, <1>l, <1>r, PromptKeeps DEF Prompt, ClaimsStill, CountStill

(* Most steps are of that sort: all of another message, and most of its own. *)
LEMMA StillSteps ==
    ASSUME TypeInv, NEW k \in Message,
           \/ \E m \in Message :
                 \/ Fetch(m) \/ CoolOffPasses(m) \/ Pick(m) \/ DispatchThrows(m)
                 \/ TellRefused(m) \/ Verdict(m) \/ Silence(m) \/ Interrupt(m)
                 \/ (m # k \/ row[m] # "pending") /\ \E sendable \in BOOLEAN : Claim(m, sendable)
                 \/ m # k /\ (MarkHanded(m) \/ Dispatch(m))
                 \/ (m # k \/ row[m] \notin Finishable) /\ Settle(m)
           \/ Sync \/ OthersPending \/ StartIgnored \/ StartDrain \/ TellInterrupted \/ Leave
           \/ \E claims \in SUBSET Message : Unclaim(claims)
           \/ \E w \in word :
                 \/ RadioStep(w) \/ ReadAttempts(w) \/ WriteReport(w)
                 \/ Delivered(w) \/ Undecided(w) \/ Undelivered(w)
                 \/ (w.id # k \/ row[w.id] \notin Countable) /\ PartOk(w)
                 \/ /\ w.id # k \/ ~(row[w.id] \in Countable /\ AllOut(w.id))
                    /\ CompleteIfAllParts(w)
                 \/ (w.id # k \/ ~Retryable(w.id)) /\ RetryLater(w)
                 \/ (w.id # k \/ row[w.id] \notin Finishable) /\ Fail(w)
           \/ ServiceStops \/ \E restart \in BOOLEAN : ProcessDies(restart)
           \/ UNCHANGED vars
    PROVE  Still(k)
<1>p. /\ row \in [Message -> States] /\ ledger \in [Message -> [Reports -> Nat]]
      /\ parts \in [Message -> Nat] /\ partsOk \in [Message -> Nat]
      /\ drain \in LoopStates /\ \A w \in word : w.id \in Message /\ w \in Words
  BY DEF TypeInv, TypeOK
<1>r. /\ UNCHANGED row => RowStill(k)
      /\ \A m, to : m # k /\ SetRow(m, to) => RowStill(k)
      /\ \A m : SetRow(m, "failed") => RowStill(k)
  BY <1>p DEF RowStill, SetRow
<1>l. /\ UNCHANGED drain => LoopStill(k)
      /\ drain'.at \notin ClaimPlaces => LoopStill(k)
      /\ drain'.id # k => LoopStill(k)
      /\ drain'.at = drain.at /\ drain'.id = drain.id => LoopStill(k)
  BY DEF LoopStill, Holds
<1>n. UNCHANGED <<parts, partsOk>> => CountStill(k)
  BY DEF CountStill
<1>c. Calm(k) => ClaimsStill(k)
  <2> SUFFICES ASSUME Calm(k) PROVE ClaimsStill(k)
    OBVIOUS
  <2>1. \A ats \in SUBSET Owing : Owes(k, ats)' <=> Owes(k, ats)
    BY DEF Calm, Owes, OwedOf
  <2>2. FailureOwed \subseteq Owing /\ {"completed"} \subseteq Owing
    BY DEF FailureOwed, Owing
  <2> QED
    BY <2>1, <2>2 DEF Calm, ClaimsStill, FailureClaimed, SentClaimed, Reports
<1>q. /\ Holds(k, {"telling"})' => Holds(k, {"telling"})
      /\ \A ats \in SUBSET VerdictOwed : Owes(k, ats)' => Owes(k, ats)
      /\ UNCHANGED ledger
      => ClaimsStill(k)
  BY DEF ClaimsStill, FailureClaimed, SentClaimed, VerdictOwed
<1>o. UNCHANGED word => \A ats : Owes(k, ats)' => Owes(k, ats)
  BY DEF Owes
<1>s. RowStill(k) /\ LoopStill(k) /\ CountStill(k) /\ ClaimsStill(k) => Still(k)
  BY DEF Still
<1>a. \A m \in Message : SetRow(m, "pending") /\ row[m] = "none" => RowStill(k)
  BY <1>p DEF RowStill, SetRow
<1>e. ASSUME NEW w \in word, NEW at \in Posted \cup Mid, Becomes(w, at)
      PROVE  \A ats : w.id # k \/ at \notin ats => (Owes(k, ats)' => Owes(k, ats))
  BY <1>p, <1>e, BecomesMoves DEF Moved, Owes
<1>f. \A w \in word : Over(w) \/ Handled(w) => \A ats : Owes(k, ats)' => Owes(k, ats)
  BY DEF Over, Handled, Owes
<1>g. \A w \in word : Handled(w) => drain'.at = drain.at /\ drain'.id = drain.id
  BY <1>p, HandledDoes
<1> HIDE DEF RowStill, LoopStill, CountStill, ClaimsStill
<1>1. ASSUME NEW m \in Message, Fetch(m) \/ CoolOffPasses(m) PROVE Still(k)
  <2>1. Calm(k)
    BY <1>1, CalmSteps
  <2> QED
    BY <1>1, <1>a, <1>r, <1>l, <1>n, <1>c, <1>s, <2>1 DEF Fetch, CoolOffPasses
<1>2. ASSUME NEW m \in Message, Pick(m) \/ Verdict(m) PROVE Still(k)
  <2>1. Calm(k)
    BY <1>2, CalmSteps
  <2>2. drain'.at \notin ClaimPlaces
    <3>1. drain' = Working(m, "picked") \/ drain' = Loop
      BY <1>2 DEF Pick, Verdict
    <3> QED
      BY <3>1, LoopStateFields DEF ClaimPlaces
  <2> QED
    BY <1>2, <1>r, <1>l, <1>n, <1>c, <1>s, <2>1, <2>2 DEF Pick, Verdict, rowVars
<1>3. ASSUME NEW m \in Message, DispatchThrows(m) PROVE Still(k)
  <2>1. Calm(k)
    BY <1>3, CalmSteps
  <2>2. LoopStill(k)
    BY <1>3, LoopStateFields DEF DispatchThrows, LoopStill, Holds
  <2> QED
    BY <1>3, <1>r, <1>n, <1>c, <1>s, <2>1, <2>2 DEF DispatchThrows, rowVars
<1>4. ASSUME NEW m \in Message, TellRefused(m) PROVE Still(k)
  <2>1. drain'.at = "loop" /\ drain.at = "telling" /\ drain.id = m
    BY <1>4, LoopStateFields DEF TellRefused
  <2>2. ClaimsStill(k)
    <3>1. ~Holds(k, {"telling"})' /\ UNCHANGED word
      BY <1>4, <2>1 DEF Holds, TellRefused
    <3>2. ledger'[k]["sent"] = ledger[k]["sent"] /\ ledger'[k]["passing"] = ledger[k]["passing"]
      BY <1>p, <1>4, TellDoes DEF TellRefused, Reports
    <3>3. Holds(k, {"telling"}) \/ ledger'[k]["refused"] = ledger[k]["refused"]
      BY <1>p, <1>4, <2>1, TellDoes DEF TellRefused, Reports, Holds
    <3> QED
      BY <1>o, <3>1, <3>2, <3>3 DEF ClaimsStill, FailureClaimed, SentClaimed
  <2> QED
    BY <1>4, <1>r, <1>l, <1>n, <1>s, <2>1, <2>2 DEF TellRefused, rowVars, ClaimPlaces
<1>5. ASSUME NEW m \in Message, Silence(m) PROVE Still(k)
  <2>1. Calm(k)
    BY <1>5, CalmSteps
  <2>2. drain'.at = "loop"
    BY <1>5, LoopStateFields DEF Silence
  <2>3. RowStill(k)
    BY <1>p, <1>5, <2>2 DEF Silence, RowStill, Live, Holds, ClaimPlaces
  <2> QED
    BY <1>5, <1>l, <1>n, <1>c, <1>s, <2>1, <2>2, <2>3 DEF Silence, ClaimPlaces
<1>6. ASSUME NEW m \in Message, Interrupt(m) PROVE Still(k)
  <2>1. drain'.at \in {"owing", "sweeping"}
    BY <1>6, LoopStateFields DEF Interrupt
  <2>2. RowStill(k)
    <3>1. ~Holds(k, ClaimPlaces)'
      BY <2>1 DEF Holds, ClaimPlaces
    <3>2. CASE row[m] \in Finishable
      <4>1. row' = [row EXCEPT ![m] = "interrupted"]
        BY <1>6, <3>2 DEF Interrupt, SetRow
      <4> QED
        BY <1>p, <3>1, <3>2, <4>1 DEF RowStill, Live, Finishable, InFlight
    <3>3. CASE row[m] \notin Finishable
      BY <1>6, <1>r, <3>3 DEF Interrupt
    <3> QED
      BY <3>2, <3>3
  <2>3. ~Holds(k, {"telling"})'
    BY <2>1 DEF Holds
  <2> QED
    BY <1>6, <1>l, <1>n, <1>o, <1>q, <1>s, <2>1, <2>2, <2>3 DEF Interrupt, ClaimPlaces
<1>7. ASSUME NEW m \in Message, m # k \/ row[m] # "pending", NEW sendable \in BOOLEAN,
             Claim(m, sendable)
      PROVE  Still(k)
  <2>1. Calm(k)
    BY <1>7, CalmSteps
  <2>2. RowStill(k)
    BY <1>7, <1>r DEF Claim
  <2>3. drain'.at \notin ClaimPlaces \/ drain'.id # k
    BY <1>7, LoopStateFields DEF Claim, ClaimPlaces
  <2> QED
    BY <1>7, <1>l, <1>n, <1>c, <1>s, <2>1, <2>2, <2>3 DEF Claim
<1>8. ASSUME NEW m \in Message, m # k, MarkHanded(m) \/ Dispatch(m) PROVE Still(k)
  <2>1. Calm(k)
    BY <1>8, CalmSteps
  <2>2. RowStill(k)
    BY <1>8, <1>r DEF MarkHanded, Dispatch, rowVars
  <2>3. drain'.id # k
    <3>1. \/ drain' = Listening(m, FALSE)
          \/ drain' = Working(m, "marked") \/ drain' = Working(m, "settling")
      BY <1>8 DEF MarkHanded, Dispatch
    <3>2. Listening(m, FALSE).id = m /\ \A at : Working(m, at).id = m
      BY LoopStateFields
    <3>3. drain'.id = m
      BY <3>1, <3>2
    <3> QED
      BY <1>8, <3>3
  <2>4. CountStill(k)
    BY <1>p, <1>8 DEF MarkHanded, Dispatch, CountStill, rowVars
  <2> QED
    BY <1>l, <1>c, <1>s, <2>1, <2>2, <2>3, <2>4
<1>9. ASSUME NEW m \in Message, m # k \/ row[m] \notin Finishable, Settle(m) PROVE Still(k)
  <2>1. RowStill(k)
    BY <1>9, <1>r DEF Settle
  <2>2. drain'.at \notin ClaimPlaces
    BY <1>9, LoopStateFields DEF Settle, ClaimPlaces
  <2>3. ~Holds(k, {"telling"})'
    BY <1>9, LoopStateFields DEF Settle, Holds
  <2> QED
    BY <1>9, <1>l, <1>n, <1>o, <1>q, <1>s, <2>1, <2>2, <2>3 DEF Settle
<1>10. ASSUME Sync \/ OthersPending \/ StartIgnored PROVE Still(k)
  <2>1. Calm(k)
    BY <1>10, CalmSteps
  <2> QED
    BY <1>10, <1>r, <1>l, <1>n, <1>c, <1>s, <2>1 DEF Sync, OthersPending, StartIgnored, rowVars
<1>11. ASSUME StartDrain \/ Leave PROVE Still(k)
  <2>1. Calm(k)
    BY <1>11, CalmSteps
  <2>2. drain'.at \notin ClaimPlaces
    BY <1>11, LoopStateFields DEF StartDrain, Leave, ClaimPlaces
  <2> QED
    BY <1>11, <1>r, <1>l, <1>n, <1>c, <1>s, <2>1, <2>2 DEF StartDrain, Leave, rowVars
<1>12. ASSUME TellInterrupted PROVE Still(k)
  <2>1. drain'.at = "sweeping" /\ drain.at = "owing" /\ drain.id \in Message
    BY <1>p, <1>12, LoopStateFields, LoopStateParts DEF TellInterrupted
  <2>2. /\ ledger'[k]["sent"] = ledger[k]["sent"] /\ ledger'[k]["passing"] = ledger[k]["passing"]
        /\ ledger'[k]["refused"] = ledger[k]["refused"]
    BY <1>p, <1>12, <2>1, TellDoes DEF TellInterrupted, Reports
  <2>3. ~Holds(k, {"telling"})' /\ UNCHANGED word
    BY <1>12, <2>1 DEF Holds, TellInterrupted
  <2>4. ClaimsStill(k)
    BY <1>o, <2>2, <2>3 DEF ClaimsStill, FailureClaimed, SentClaimed
  <2> QED
    BY <1>12, <1>r, <1>l, <1>n, <1>s, <2>1, <2>4 DEF TellInterrupted, rowVars, ClaimPlaces
<1>13. ASSUME NEW claims \in SUBSET Message, Unclaim(claims) PROVE Still(k)
  <2>1. Calm(k)
    BY <1>13, CalmSteps
  <2>2. drain'.at = "loop"
    BY <1>13, LoopStateFields DEF Unclaim
  <2>3. RowStill(k)
    BY <1>13, <2>2 DEF Unclaim, Unclaimable, RowStill, Holds, ClaimPlaces
  <2> QED
    BY <1>13, <1>l, <1>n, <1>c, <1>s, <2>1, <2>2, <2>3 DEF Unclaim, ClaimPlaces
<1>14. ASSUME NEW w \in word, RadioStep(w) \/ ReadAttempts(w) \/ Delivered(w) \/ Undecided(w)
       PROVE  Still(k)
  <2>1. Calm(k)
    BY <1>14, CalmSteps
  <2> QED
    BY <1>14, <1>r, <1>l, <1>n, <1>c, <1>s, <2>1
    DEF RadioStep, RadioSends, RadioFails, ReadAttempts, Delivered, Undecided, rowVars
<1>15. ASSUME NEW w \in word, WriteReport(w) PROVE Still(k)
  <2> DEFINE report == ReportOf(w.at)
  <2>1. /\ UNCHANGED rowVars /\ word' \subseteq word
        /\ drain'.at = drain.at /\ drain'.id = drain.id
    BY <1>15, <1>g DEF WriteReport, Over, Handled
  <2>2. report \in Reports /\ w.at \in Owing /\ Tell(w.id, report)
    BY <1>15 DEF WriteReport, ReportOf, Owing, Reports
  <2>3. /\ report = "sent" => w.at = "completed"
        /\ report \in {"refused", "passing"} => w.at \in FailureOwed
    BY <2>2 DEF ReportOf, Owing, FailureOwed
  <2> HIDE DEF report
  <2>4. \A r \in Reports : ledger'[k][r] = ledger[k][r] \/ (w.id = k /\ report = r)
    BY <1>p, <2>2, TellDoes
  <2>5. Owes(k, FailureOwed)' => Owes(k, FailureOwed)
    BY <2>1 DEF Owes
  <2>6. Owes(k, {"completed"})' => Owes(k, {"completed"})
    BY <2>1 DEF Owes
  <2>7. Holds(k, {"telling"})' => Holds(k, {"telling"})
    BY <2>1 DEF Holds
  <2>8. FailureClaimed(k)' => FailureClaimed(k)
    <3>1. \/ Owes(k, FailureOwed)
          \/ /\ ledger'[k]["refused"] = ledger[k]["refused"]
             /\ ledger'[k]["passing"] = ledger[k]["passing"]
      BY <2>3, <2>4 DEF Owes, Reports
    <3> QED
      BY <2>5, <2>7, <3>1 DEF FailureClaimed
  <2>9. SentClaimed(k)' => SentClaimed(k)
    <3>1. Owes(k, {"completed"}) \/ ledger'[k]["sent"] = ledger[k]["sent"]
      BY <2>3, <2>4 DEF Owes, Reports
    <3> QED
      BY <2>6, <3>1 DEF SentClaimed
  <2>10. ClaimsStill(k)
    BY <2>8, <2>9 DEF ClaimsStill
  <2> QED
    BY <1>r, <1>l, <1>n, <1>s, <2>1, <2>10 DEF rowVars
<1>16. ASSUME NEW w \in word, Undelivered(w) PROVE Still(k)
  <2>1. \A ats \in SUBSET VerdictOwed : Owes(k, ats)' => Owes(k, ats)
    BY <1>e, <1>16 DEF Undelivered, Mid, Owing, VerdictOwed, FailureOwed
  <2> QED
    BY <1>16, <1>r, <1>l, <1>n, <1>q, <1>s, <2>1 DEF Undelivered, Holds
<1>17. ASSUME NEW w \in word, w.id # k \/ row[w.id] \notin Countable, PartOk(w) PROVE Still(k)
  <2>1. Calm(k)
    BY <1>17, CalmSteps
  <2>2. CountStill(k)
    BY <1>p, <1>17 DEF PartOk, CountStill
  <2> QED
    BY <1>17, <1>r, <1>l, <1>c, <1>s, <2>1, <2>2 DEF PartOk
<1>18. ASSUME NEW w \in word, w.id # k \/ ~(row[w.id] \in Countable /\ AllOut(w.id)),
              CompleteIfAllParts(w)
       PROVE  Still(k)
  <2>1. RowStill(k)
    BY <1>18, <1>r DEF CompleteIfAllParts
  <2>2. \A ats : Owes(k, ats)' => Owes(k, ats)
    <3>1. CASE Over(w)
      BY <1>f, <3>1
    <3>2. CASE w.id # k /\ Becomes(w, "completed")
      BY <1>e, <3>2 DEF Mid, Owing
    <3> QED
      BY <1>18, <3>1, <3>2 DEF CompleteIfAllParts
  <2> QED
    BY <1>18, <1>l, <1>n, <1>q, <1>s, <2>1, <2>2 DEF CompleteIfAllParts, Holds
<1>19. ASSUME NEW w \in word, w.id # k \/ ~Retryable(w.id), RetryLater(w) PROVE Still(k)
  <2>1. Calm(k)
    BY <1>19, CalmSteps
  <2>2. RowStill(k)
    BY <1>19, <1>r DEF RetryLater
  <2>3. LoopStill(k)
    BY <1>19, <1>l, <1>g DEF RetryLater
  <2> QED
    BY <1>19, <1>n, <1>c, <1>s, <2>1, <2>2, <2>3 DEF RetryLater
<1>20. ASSUME NEW w \in word, w.id # k \/ row[w.id] \notin Finishable, Fail(w) PROVE Still(k)
  <2>1. RowStill(k)
    BY <1>20, <1>r DEF Fail
  <2>2. drain'.at = drain.at /\ drain'.id = drain.id
    BY <1>20, <1>g DEF Fail
  <2>3. \A ats : Owes(k, ats)' => Owes(k, ats)
    <3>1. CASE Handled(w)
      BY <1>f, <3>1
    <3>2. CASE w.id # k /\ Becomes(w, ToTell(w))
      BY <1>e, <3>2 DEF ToTell, Mid, Owing
    <3> QED
      BY <1>20, <3>1, <3>2 DEF Fail
  <2> QED
    BY <1>20, <1>l, <1>n, <1>q, <1>s, <2>1, <2>2, <2>3 DEF Fail, Holds
<1>21. ASSUME ServiceStops \/ \E restart \in BOOLEAN : ProcessDies(restart) PROVE Still(k)
  <2>1. drain'.at = "off" /\ word' \subseteq word
    BY <1>21, LoopStateFields DEF ServiceStops, ProcessDies
  <2>2. \A ats : Owes(k, ats)' => Owes(k, ats)
    BY <2>1 DEF Owes
  <2>3. ~Holds(k, {"telling"})'
    BY <2>1 DEF Holds
  <2> QED
    BY <1>21, <1>r, <1>l, <1>n, <1>q, <1>s, <2>1, <2>2, <2>3
    DEF ServiceStops, ProcessDies, rowVars, ClaimPlaces
<1>22. ASSUME UNCHANGED vars PROVE Still(k)
  <2>1. Calm(k)
    BY <1>22, CalmSteps
  <2> QED
    BY <1>22, <1>r, <1>l, <1>n, <1>c, <1>s, <2>1 DEF vars, rowVars
<1> QED
  BY <1>1, <1>2, <1>3, <1>4, <1>5, <1>6, <1>7, <1>8, <1>9, <1>10, <1>11, <1>12, <1>13, <1>14,
     <1>15, <1>16, <1>17, <1>18, <1>19, <1>20, <1>21, <1>22

(* A part that failed spoils the last handing as well. *)
LEMMA FailureSpoils ==
    ASSUME TypeInv, AirInv, NEW m \in Message, Prompt(m),
           NEW w \in word, w.id = m, w.at \in Failing
    PROVE  Hopeless(m)
<1>1. /\ handings \in [Message -> Nat] /\ w.part \in 1..Segments[m] /\ w.try = handings[m]
      /\ Answering(w)
  BY DEF TypeInv, TypeOK, Prompt, AnswersAreCurrent, Answering, Failing
<1>2. <<m, w.part, handings[m]>> \notin air
  BY <1>1 DEF AirInv, Flown
<1>3. \A v \in word : ~(v.id = m /\ v.part = w.part /\ v.try = handings[m] /\ v.at = "radio")
  BY <1>1 DEF AirInv, Answering, Failing
<1>4. Spoilt(m, handings[m])
  BY <1>1, <1>2, <1>3 DEF Spoilt
<1>5. \A n \in 1..handings[m] : n < handings[m] \/ n = handings[m]
  BY <1>1
<1> QED
  BY <1>4, <1>5 DEF Prompt, EarlierSpoilt, Hopeless

(* All parts counted are all parts of the last handing. *)
LEMMA CountedWentOut ==
    ASSUME TypeInv, NEW m \in Message, Prompt(m), Live(m), AllOut(m),
           NEW w \in word, w.id = m, Answering(w)
    PROVE  WentOut(m)
<1>1. /\ Segments[m] \in Nat /\ partsOk[m] \in Nat /\ handings[m] \in Nat
      /\ w.try = handings[m] /\ w.try \in 1..handings[m]
  BY PartsAssumption DEF TypeInv, TypeOK, Prompt, AnswersAreCurrent
<1>2. parts[m] = Segments[m] /\ partsOk[m] <= Cardinality(Heard(m))
  BY DEF Prompt, Unanswered, Answering
<1>3. IsFiniteSet(1..Segments[m]) /\ Cardinality(1..Segments[m]) = Segments[m]
  <2>1. \A b \in Int : /\ IsFiniteSet(1..b)
                       /\ Cardinality(1..b) = IF 1 > b THEN 0 ELSE b - 1 + 1
    BY FS_Interval
  <2> QED
    BY <1>1, <2>1
<1>4. Heard(m) \in SUBSET (1..Segments[m])
  BY DEF Heard
<1>5. /\ IsFiniteSet(Heard(m)) /\ Cardinality(Heard(m)) <= Cardinality(1..Segments[m])
      /\ Cardinality(1..Segments[m]) = Cardinality(Heard(m)) => 1..Segments[m] = Heard(m)
  BY <1>3, <1>4, FS_Subset
<1>6. Cardinality(Heard(m)) \in Nat
  BY <1>5, FS_CardinalityType
<1>7. Segments[m] <= partsOk[m]
  BY <1>1, <1>2 DEF AllOut
<1>8. Cardinality(Heard(m)) = Segments[m]
  <2> DEFINE c == Cardinality(Heard(m))
  <2> HIDE DEF c
  <2>1. c \in Nat /\ partsOk[m] <= c /\ c <= Segments[m]
    BY <1>2, <1>3, <1>5, <1>6 DEF c
  <2>2. c = Segments[m]
    BY <1>1, <1>7, <2>1
  <2> QED
    BY <2>2 DEF c
<1>9. 1..Segments[m] = Heard(m)
  BY <1>3, <1>5, <1>8
<1>10. OnAir(m, handings[m]) = 1..Segments[m]
  BY <1>9 DEF OnAir, Heard
<1> QED
  BY <1>1, <1>10 DEF WentOut

(* A part counted is a part heard of. *)
LEMMA CountingHears ==
    ASSUME TypeInv, AirInv, [Next]_vars, NEW m \in Message, Prompt(m), Live(m), ~Dispatch(m),
           NEW w \in word, w.id = m, w.at = "ok", Becomes(w, "counted"),
           UNCHANGED <<air, handings>>
    PROVE  partsOk[m] + 1 <= Cardinality(Heard(m)')
<1>p. /\ w \in Words /\ partsOk[m] \in Nat /\ Segments[m] \in Nat
      /\ w.part \in 1..Segments[m] /\ w.try = handings[m] /\ Answering(w)
  BY PartsAssumption DEF TypeInv, TypeOK, Prompt, AnswersAreCurrent, Answering
<1>1. PICK u \in Words : u.at = "counted" /\ word' = (word \ {w}) \cup {u}
  BY <1>p, BecomesMoves DEF Moved, Mid
<1>2. w.part \notin Heard(m)
  BY <1>p DEF Heard
<1>3. w.part \in Heard(m)'
  <2>1. <<m, w.part, handings'[m]>> \in air'
    BY <1>p DEF AirInv, Flown
  <2>2. \A v \in word' : ~(v.id = m /\ v.part = w.part /\ v.try = handings'[m] /\ v.at = "ok")
    BY <1>p, <1>1 DEF AirInv, Answering
  <2> QED
    BY <1>p, <2>1, <2>2 DEF Heard
<1>4. Heard(m) \cup {w.part} \subseteq Heard(m)'
  BY <1>3, AnswersStay
<1>5. IsFiniteSet(Heard(m)')
  <2>1. \A b \in Int : IsFiniteSet(1..b)
    BY FS_Interval
  <2>2. IsFiniteSet(1..Segments[m]) /\ Heard(m)' \in SUBSET (1..Segments[m])
    BY <1>p, <2>1 DEF Heard
  <2> QED
    BY <2>2, FS_Subset
<1>6. IsFiniteSet(Heard(m)) /\ IsFiniteSet(Heard(m) \cup {w.part})
  BY <1>4, <1>5, FS_Subset
<1>7. Cardinality(Heard(m) \cup {w.part}) = Cardinality(Heard(m)) + 1
  BY <1>2, <1>6, FS_AddElement
<1>8. Cardinality(Heard(m) \cup {w.part}) <= Cardinality(Heard(m)')
  BY <1>4, <1>5, FS_Subset
<1>9. Cardinality(Heard(m)) \in Nat /\ Cardinality(Heard(m)') \in Nat
  BY <1>5, <1>6, FS_CardinalityType
<1>10. partsOk[m] <= Cardinality(Heard(m))
  BY DEF Prompt
<1> DEFINE c == Cardinality(Heard(m))
<1> DEFINE d == Cardinality(Heard(m)')
<1>11. c \in Nat /\ d \in Nat /\ c + 1 <= d /\ partsOk[m] <= c
  BY <1>7, <1>8, <1>9, <1>10
<1> HIDE DEF c, d
<1>12. partsOk[m] + 1 <= d
  BY <1>p, <1>11
<1> QED
  BY <1>12 DEF d

(* Only a claim with an answer still out makes a message late. *)
LEMMA LateBy ==
    ASSUME [Next]_vars, NEW k
    PROVE  /\ late \subseteq late'
           /\ k \in late' => \/ k \in late
                             \/ row[k] = "pending" /\ Unanswered(k)
<1>1. \/ UNCHANGED late
      \/ \E m \in Message : \E sendable \in BOOLEAN : Claim(m, sendable)
  BY DEF Next, LoopStep, StartStep, RadioStep, HandlerStep, Fetch, CoolOffPasses, Pick, MarkHanded,
         Dispatch, DispatchThrows, Settle, TellRefused, Verdict, Silence, Sync, OthersPending,
         StartIgnored, StartDrain, Interrupt, TellInterrupted, Unclaim, Leave, RadioSends,
         RadioFails, PartOk, CompleteIfAllParts, ReadAttempts, RetryLater, Fail, WriteReport,
         Delivered, Undecided, Undelivered, ServiceStops, ProcessDies, ghosts, vars
<1>2. ASSUME NEW m \in Message, NEW sendable \in BOOLEAN, Claim(m, sendable)
      PROVE  /\ late \subseteq late'
             /\ k \in late' => \/ k \in late
                               \/ row[k] = "pending" /\ Unanswered(k)
  BY <1>2 DEF Claim
<1> QED
  BY <1>1, <1>2

(* Handing a prompt message over: no answer is out and no handing of it     *)
(* can still succeed, so the new one is the one to wait for.                *)
LEMMA DispatchKeeps ==
    ASSUME TypeInv, AirInv, [Next]_vars, NEW m \in Message, Prompt(m), Dispatch(m)
    PROVE  Prompt(m)'
<1>p. /\ handings \in [Message -> Nat] /\ partsOk \in [Message -> Nat]
      /\ Segments[m] \in Nat
  BY PartsAssumption DEF TypeInv, TypeOK
<1>1. /\ drain.at = "marked" /\ drain.id = m /\ drain'.at = "listening" /\ drain'.id = m
      /\ UNCHANGED <<row, parts, partsOk, ledger, air>>
      /\ handings' = [handings EXCEPT ![m] = @ + 1]
  BY LoopStateFields DEF Dispatch, rowVars
<1>2. handings'[m] = handings[m] + 1
  BY <1>1, <1>p
<1>3. /\ ToBeHanded(m) /\ ~Unanswered(m) /\ Hopeless(m) /\ ~FailureClaimed(m)
      /\ row[m] \in {"handed", "failed"}
      /\ Live(m) => partsOk[m] = 0 /\ parts[m] = Segments[m]
  BY <1>1 DEF Prompt, ToBeHanded, Holds, FreeToSend, Claimed, Marked
<1>4. PICK given \in SUBSET Words :
         /\ word' = word \cup given
         /\ \A v \in given : v.id = m /\ v.try = handings[m] + 1 /\ v.at = "radio"
  BY <1>p, HandsOver
<1>5. AnswersAreCurrent(m)'
  BY <1>2, <1>3, <1>4 DEF AnswersAreCurrent, Unanswered, Answering
<1>6. ~ToBeHanded(m)'
  BY <1>1, <1>3 DEF ToBeHanded, Holds
<1>7. EarlierSpoilt(m)'
  <2> SUFFICES ASSUME NEW n \in 1..handings'[m], n < handings'[m] PROVE Spoilt(m, n)'
    BY DEF EarlierSpoilt
  <2>1. n \in 1..handings[m]
    BY <1>2, <1>p
  <2> QED
    BY <1>3, <2>1, SpoiltStays DEF Hopeless
<1>8. \A ats : "radio" \notin ats => (Owes(m, ats)' => Owes(m, ats))
  BY <1>4 DEF Owes
<1>9. ~FailureClaimed(m)'
  <2>1. Owes(m, FailureOwed)' => Owes(m, FailureOwed)
    BY <1>8 DEF FailureOwed
  <2> QED
    BY <1>1, <1>3, <2>1 DEF FailureClaimed, Holds
<1>10. ~FreeToSend(m)'
  BY <1>1, <1>3, <1>6, <1>9 DEF FreeToSend
<1>11. Live(m)' => partsOk'[m] <= Cardinality(Heard(m)')
  <2>1. \A b \in Int : IsFiniteSet(1..b)
    BY FS_Interval
  <2>2. IsFiniteSet(1..Segments[m]) /\ Heard(m)' \in SUBSET (1..Segments[m])
    BY <1>p, <2>1 DEF Heard
  <2>3. IsFiniteSet(Heard(m)')
    BY <2>2, FS_Subset
  <2>4. Cardinality(Heard(m)') \in Nat
    BY <2>3, FS_CardinalityType
  <2>5. Live(m)' => partsOk'[m] = 0
    BY <1>1, <1>3 DEF Live
  <2> HIDE DEF Heard
  <2> QED
    BY <2>4, <2>5
<1>12. Live(m)' => parts'[m] = Segments[m]
  BY <1>1, <1>3 DEF Live
<1>13. SentClaimed(m)' => WentOut(m)'
  <2>1. Owes(m, {"completed"})' => Owes(m, {"completed"})
    BY <1>8
  <2>2. SentClaimed(m)' => SentClaimed(m)
    BY <1>1, <2>1 DEF SentClaimed
  <2> QED
    BY <2>2, AirStays DEF Prompt
<1>14. Marked(m)' /\ Claimed(m)'
  BY <1>1 DEF Marked, Claimed, Holds
<1> QED
  BY <1>5, <1>6, <1>7, <1>9, <1>10, <1>11, <1>12, <1>13, <1>14 DEF Prompt

(* A message that is prompt after a step was prompt before, and the steps   *)
(* on it keep it so.                                                        *)
LEMMA PromptStep ==
    ASSUME Inv, [Next]_vars, NEW k \in Message, k \notin late'
    PROVE  Prompt(k)'
<1>i. TypeInv /\ AirInv /\ Prompt(k) /\ OneVerdict(k)
  BY LateBy DEF Inv, VerdictInv
<1>p. /\ row \in [Message -> States] /\ ledger \in [Message -> [Reports -> Nat]]
      /\ parts \in [Message -> Nat] /\ partsOk \in [Message -> Nat]
      /\ drain \in LoopStates /\ \A w \in word : w.id \in Message /\ w \in Words
  BY <1>i DEF TypeInv, TypeOK
<1>u. ASSUME NEW w \in word, w.id = k, Answering(w)
      PROVE  Unanswered(k) /\ ~ToBeHanded(k) /\ ~Holds(k, ClaimPlaces)
  BY <1>i, <1>u DEF Unanswered, Answering, Prompt, ToBeHanded, ClaimPlaces
<1>h. /\ Holds(k, {"claimed", "marked"}) => Holds(k, ClaimPlaces)
      /\ Holds(k, {"marked"}) => Holds(k, ClaimPlaces)
      /\ Holds(k, {"claimed", "unsendable"}) => Holds(k, ClaimPlaces)
      /\ Holds(k, {"marked", "settling"}) => Holds(k, ClaimPlaces)
  BY DEF Holds, ClaimPlaces
<1>hh. /\ Holds(k, {"claimed", "marked"})' => Holds(k, ClaimPlaces)'
       /\ Holds(k, {"marked"})' => Holds(k, ClaimPlaces)'
       /\ Holds(k, {"claimed", "unsendable"})' => Holds(k, ClaimPlaces)'
       /\ Holds(k, {"marked", "settling"})' => Holds(k, ClaimPlaces)'
  BY <1>h DEF Holds, ClaimPlaces
<1>n. ~Holds(k, ClaimPlaces)' => /\ Marked(k)' /\ Claimed(k)'
                                 /\ ~Holds(k, {"claimed", "marked"})'
                                 /\ ToBeHanded(k)' => row'[k] = "sending"
  BY <1>hh DEF Marked, Claimed, ToBeHanded, ClaimPlaces
<1>c. Calm(k) => /\ FailureClaimed(k)' <=> FailureClaimed(k)
                 /\ SentClaimed(k)' <=> SentClaimed(k)
  <2> SUFFICES ASSUME Calm(k)
               PROVE  /\ FailureClaimed(k)' <=> FailureClaimed(k)
                      /\ SentClaimed(k)' <=> SentClaimed(k)
    OBVIOUS
  <2>1. \A ats \in SUBSET Owing : Owes(k, ats)' <=> Owes(k, ats)
    BY DEF Calm, Owes, OwedOf
  <2>2. FailureOwed \subseteq Owing /\ {"completed"} \subseteq Owing
    BY DEF FailureOwed, Owing
  <2> QED
    BY <2>1, <2>2 DEF Calm, FailureClaimed, SentClaimed, Reports
<1>1. CASE Dispatch(k)
  BY <1>1, <1>i, DispatchKeeps
<1>2. ASSUME ~Dispatch(k), NEW sendable \in BOOLEAN, Claim(k, sendable), row[k] = "pending"
      PROVE  Prompt(k)'
  <2>1. /\ row' = [row EXCEPT ![k] = "sending"] /\ ~Unanswered(k)
        /\ drain'.at \in {"claimed", "unsendable"} /\ drain'.id = k
        /\ UNCHANGED <<parts, partsOk, word, ledger>>
    <3>1. late' = IF Unanswered(k) THEN late \cup {k} ELSE late
      BY <1>2 DEF Claim
    <3> QED
      BY <1>2, <3>1, LoopStateFields DEF Claim, SetRow
  <2>2. row'[k] = "sending" /\ Live(k) /\ FreeToSend(k)
    BY <1>2, <1>p, <2>1 DEF Live, FreeToSend
  <2>3. Calm(k)
    BY <1>2, <1>i, CalmSteps
  <2>4. ~FailureClaimed(k)
    <3>1. ~VerdictsOwed(k) /\ VerdictsTold(k) = 0
      BY <1>2, <1>i DEF OneVerdict, Open, InFlight
    <3>2. ledger[k]["sent"] \in Nat /\ ledger[k]["refused"] \in Nat /\ ledger[k]["passing"] \in Nat
      BY <1>p DEF Reports
    <3>3. ~Owes(k, FailureOwed) /\ ~Holds(k, {"telling"})
      BY <3>1 DEF VerdictsOwed, Owes, VerdictOwed
    <3>4. ledger[k]["refused"] = 0 /\ ledger[k]["passing"] = 0
      <4>1. ledger[k]["sent"] + ledger[k]["refused"] + ledger[k]["passing"] = 0
        BY <3>1 DEF VerdictsTold
      <4> QED
        BY <3>2, <4>1
    <3> QED
      BY <3>3, <3>4 DEF FailureClaimed
  <2>5. Marked(k)' /\ Claimed(k)'
    BY <2>1, <2>2 DEF Marked, Claimed, Holds
  <2> QED
    BY <1>2, <1>c, <1>i, <2>1, <2>2, <2>3, <2>4, <2>5, PromptKeeps DEF Prompt
<1>3. ASSUME ~Dispatch(k), MarkHanded(k) PROVE Prompt(k)'
  <2>1. /\ drain.at \in {"claimed", "unsendable"} /\ drain.id = k
        /\ drain'.id = k
        /\ drain.at = "claimed" => drain'.at = "marked"
        /\ drain.at = "unsendable" => drain'.at = "settling"
    BY <1>3, LoopStateFields DEF MarkHanded
  <2>2. row[k] \in {"sending", "failed"} /\ ToBeHanded(k) /\ ~Unanswered(k) /\ FreeToSend(k)
    BY <1>i, <2>1 DEF Prompt, Claimed, Holds, ToBeHanded, FreeToSend
  <2>3. Calm(k)
    BY <1>3, <1>i, CalmSteps
  <2>4. FailureClaimed(k)' => ~Holds(k, {"claimed", "marked"})'
    BY <1>c, <1>i, <2>1, <2>3 DEF Prompt, Holds
  <2>5. CASE row[k] = "sending"
    <3>1. /\ row'[k] = "handed" /\ partsOk'[k] = 0
          /\ drain.at = "claimed" => parts'[k] = Segments[k]
      BY <1>3, <1>p, <2>5 DEF MarkHanded, SetRow
    <3>2. Marked(k)' /\ Claimed(k)'
      BY <2>1, <3>1 DEF Marked, Claimed, Holds
    <3> QED
      BY <1>3, <1>c, <1>i, <2>2, <2>3, <2>4, <3>1, <3>2, PromptKeeps DEF Prompt
  <2>6. CASE row[k] = "failed"
    <3>1. row'[k] = "failed"
      BY <1>3, <2>6 DEF MarkHanded
    <3>2. Marked(k)' /\ Claimed(k)' /\ ~Live(k)'
      BY <3>1 DEF Marked, Claimed, Live
    <3> QED
      BY <1>3, <1>c, <1>i, <2>2, <2>3, <2>4, <3>2, PromptKeeps DEF Prompt
  <2> QED
    BY <2>2, <2>5, <2>6
<1>4. ASSUME ~Dispatch(k), Settle(k), row[k] \in Finishable PROVE Prompt(k)'
  <2>1. /\ drain.at = "settling" /\ drain.id = k /\ drain'.at = "telling"
        /\ row' = [row EXCEPT ![k] = "failed"] /\ UNCHANGED <<word, ledger>>
    BY <1>4, LoopStateFields DEF Settle, SetRow
  <2>2. ToBeHanded(k) /\ FreeToSend(k)
    BY <2>1 DEF ToBeHanded, Holds, FreeToSend
  <2>3. ~Live(k)' /\ Marked(k)' /\ Claimed(k)' /\ ~Holds(k, {"claimed", "marked"})'
    BY <1>p, <2>1 DEF Live, Marked, Claimed, Holds
  <2>4. SentClaimed(k)' => SentClaimed(k)
    BY <2>1 DEF SentClaimed, Owes
  <2> QED
    BY <1>4, <1>i, <2>2, <2>3, <2>4, PromptKeeps DEF Prompt
<1>5. ASSUME ~Dispatch(k), NEW w \in word, PartOk(w), w.id = k, row[k] \in Countable
      PROVE  Prompt(k)'
  <2>1. /\ w.at = "ok" /\ Becomes(w, "counted") /\ partsOk' = [partsOk EXCEPT ![k] = @ + 1]
        /\ UNCHANGED <<row, parts, drain, air, handings>>
    BY <1>5 DEF PartOk, ghosts
  <2>2. Answering(w)
    BY <2>1 DEF Answering
  <2>3. /\ Unanswered(k) /\ ~ToBeHanded(k) /\ ~Holds(k, ClaimPlaces)
    BY <1>5, <1>u, <2>2
  <2>4. Live(k) /\ partsOk'[k] = partsOk[k] + 1
    BY <1>5, <1>p, <2>1 DEF Live, Countable
  <2>5. partsOk[k] + 1 <= Cardinality(Heard(k)')
    BY <1>5, <1>i, <2>1, <2>4, CountingHears
  <2>6. Calm(k)
    BY <1>5, <1>i, CalmSteps
  <2>7. ~Holds(k, ClaimPlaces)' /\ ~ToBeHanded(k)' /\ (FreeToSend(k)' => FreeToSend(k))
    BY <1>c, <2>1, <2>3, <2>6 DEF Holds, ToBeHanded, FreeToSend
  <2> QED
    BY <1>5, <1>c, <1>i, <1>n, <2>1, <2>4, <2>5, <2>6, <2>7, PromptKeeps DEF Prompt
<1>6. ASSUME ~Dispatch(k), NEW w \in word, CompleteIfAllParts(w), w.id = k,
             row[k] \in Countable /\ AllOut(k)
      PROVE  Prompt(k)'
  <2>1. /\ w.at = "counted" /\ Becomes(w, "completed") /\ row' = [row EXCEPT ![k] = "sent"]
        /\ UNCHANGED <<drain, ledger>>
    BY <1>6 DEF CompleteIfAllParts, SetRow
  <2>2. Answering(w)
    BY <2>1 DEF Answering
  <2>3. /\ Unanswered(k) /\ ~ToBeHanded(k) /\ ~Holds(k, ClaimPlaces) /\ Live(k)
    BY <1>6, <1>u, <2>2 DEF Live, Countable
  <2>4. WentOut(k)
    BY <1>6, <1>i, <2>2, <2>3, CountedWentOut
  <2>5. row'[k] = "sent" /\ ~Live(k)' /\ ~Holds(k, ClaimPlaces)' /\ ~ToBeHanded(k)'
    BY <1>p, <2>1, <2>3 DEF Live, Holds, ToBeHanded, ClaimPlaces
  <2>6. FailureClaimed(k)' => FailureClaimed(k)
    <3>1. Owes(k, FailureOwed)' => Owes(k, FailureOwed)
      <4>1. Moved(w, "completed")
        BY <1>p, <2>1, BecomesMoves DEF Mid, Owing
      <4> QED
        BY <4>1 DEF Moved, Owes, FailureOwed
    <3> QED
      BY <2>1, <3>1 DEF FailureClaimed, Holds
  <2>7. FreeToSend(k)' => FreeToSend(k)
    BY <2>5, <2>6 DEF FreeToSend
  <2> QED
    BY <1>6, <1>i, <1>n, <2>4, <2>5, <2>7, PromptKeeps DEF Prompt
<1>7. ASSUME ~Dispatch(k), NEW w \in word, RetryLater(w), w.id = k, Retryable(k)
      PROVE  Prompt(k)'
  <2>1. /\ w.at = "retrying" /\ row' = [row EXCEPT ![k] = "pending"] /\ Handled(w)
        /\ UNCHANGED <<parts, partsOk, ledger>>
    BY <1>7 DEF RetryLater, SetRow
  <2>2. Answering(w) /\ w.at \in Failing
    BY <2>1 DEF Answering, Failing
  <2>3. /\ Unanswered(k) /\ ~ToBeHanded(k) /\ ~Holds(k, ClaimPlaces) /\ Live(k)
    BY <1>7, <1>u, <2>2 DEF Live, Retryable
  <2>4. Hopeless(k)
    BY <1>7, <1>i, <2>2, FailureSpoils
  <2>5. drain'.at = drain.at /\ drain'.id = drain.id
    BY <1>p, <2>1, HandledDoes
  <2>6. row'[k] = "pending" /\ ~Holds(k, ClaimPlaces)' /\ ~ToBeHanded(k)'
    BY <1>p, <2>1, <2>3, <2>5 DEF Holds, ToBeHanded, ClaimPlaces
  <2>7. Calm(k)
    BY <1>7, <1>i, CalmSteps
  <2> QED
    BY <1>7, <1>c, <1>i, <1>n, <2>1, <2>3, <2>4, <2>6, <2>7, PromptKeeps DEF Prompt
<1>8. ASSUME ~Dispatch(k), NEW w \in word, Fail(w), w.id = k, row[k] \in Finishable
      PROVE  Prompt(k)'
  <2>1. /\ w.at \in {"refused", "failing"} /\ row' = [row EXCEPT ![k] = "failed"]
        /\ Becomes(w, ToTell(w)) /\ UNCHANGED <<drain, ledger>>
    BY <1>8 DEF Fail, SetRow
  <2>2. Answering(w) /\ w.at \in Failing
    BY <2>1 DEF Answering, Failing
  <2>3. ~ToBeHanded(k) /\ ~Holds(k, ClaimPlaces)
    BY <1>8, <1>u, <2>2
  <2>4. Hopeless(k)
    BY <1>8, <1>i, <2>2, FailureSpoils
  <2>5. row'[k] = "failed" /\ ~Live(k)' /\ ~Holds(k, ClaimPlaces)' /\ ~ToBeHanded(k)'
    BY <1>p, <2>1, <2>3 DEF Live, Holds, ToBeHanded, ClaimPlaces
  <2>6. SentClaimed(k)' => SentClaimed(k)
    <3>1. Owes(k, {"completed"})' => Owes(k, {"completed"})
      <4>1. Moved(w, ToTell(w)) /\ ToTell(w) # "completed"
        BY <1>p, <2>1, BecomesMoves DEF ToTell, Mid, Owing
      <4> QED
        BY <4>1 DEF Moved, Owes
    <3> QED
      BY <2>1, <3>1 DEF SentClaimed
  <2> QED
    BY <1>8, <1>i, <1>n, <2>4, <2>5, <2>6, PromptKeeps DEF Prompt
<1>9. ASSUME ~Dispatch(k), Still(k) PROVE Prompt(k)'
  BY <1>9, <1>i, StillKeeps
<1>10. CASE ~Dispatch(k)
  <2>1. SUFFICES ASSUME
           /\ ~ \E sendable \in BOOLEAN : Claim(k, sendable) /\ row[k] = "pending"
           /\ ~MarkHanded(k) /\ ~(Settle(k) /\ row[k] \in Finishable)
           /\ ~ \E w \in word :
                  /\ w.id = k
                  /\ \/ PartOk(w) /\ row[k] \in Countable
                     \/ CompleteIfAllParts(w) /\ row[k] \in Countable /\ AllOut(k)
                     \/ RetryLater(w) /\ Retryable(k)
                     \/ Fail(w) /\ row[k] \in Finishable
         PROVE Still(k)
    BY <1>2, <1>3, <1>4, <1>5, <1>6, <1>7, <1>8, <1>9, <1>10
  <2> QED
    BY <1>10, <1>i, <2>1, StillSteps DEF Next, LoopStep, StartStep, HandlerStep
<1> QED
  BY <1>1, <1>10

(* The one answer to a text of one part is dealt with before the text can   *)
(* be claimed again, so such a text is never late.                          *)
LEMMA SinglePartStep ==
    ASSUME Inv, [Next]_vars, NEW k \in Message
    PROVE  SinglePart(k)'
<1> SUFFICES ASSUME Segments[k] = 1
             PROVE  k \notin late' /\ (row'[k] \in {"none", "pending"} => ~Unanswered(k)')
  BY DEF SinglePart
<1>i. /\ TypeInv /\ AirInv /\ k \notin late /\ Prompt(k)
      /\ row[k] \in {"none", "pending"} => ~Unanswered(k)
  BY DEF Inv, SinglePart
<1>p. /\ row \in [Message -> States]
      /\ \A w \in word : w.id \in Message /\ w \in Words /\ w.part \in 1..Segments[w.id]
  BY <1>i DEF TypeInv, TypeOK
<1>1. k \notin late'
  BY <1>i, LateBy
<1>2. ASSUME row'[k] \in {"none", "pending"} PROVE ~Unanswered(k)'
  <2>1. CASE Dispatch(k)
    <3>1. drain.at = "marked" /\ drain.id = k /\ UNCHANGED row
      BY <2>1, LoopStateFields DEF Dispatch, rowVars
    <3>2. row'[k] \in {"handed", "failed"}
      BY <1>i, <3>1 DEF Prompt, Claimed, Holds
    <3> QED
      BY <1>2, <3>2
  <2>2. ASSUME NEW w \in word, RetryLater(w), w.id = k, Retryable(k)
        PROVE  ~Unanswered(k)'
    <3>1. w.at = "retrying" /\ word' = word \ {w}
      BY <2>2 DEF RetryLater, Handled, Over
    <3>2. \A v \in word : v.id = k /\ Answering(v) => v = w
      <4> SUFFICES ASSUME NEW v \in word, v.id = k, Answering(v) PROVE v = w
        OBVIOUS
      <4>1. Answering(w)
        BY <3>1 DEF Answering
      <4>2. v.try = w.try
        BY <1>i, <2>2, <4>1 DEF Prompt, AnswersAreCurrent
      <4>3. v.part = w.part
        BY <1>p, <2>2
      <4> QED
        BY <1>i, <2>2, <4>1, <4>2, <4>3 DEF AirInv
    <3> QED
      BY <3>1, <3>2 DEF Unanswered, Answering
  <2>3. ASSUME row[k] \in {"none", "pending", "sending"}, ~Dispatch(k) PROVE ~Unanswered(k)'
    <3>1. ~Unanswered(k)
      BY <1>i, <2>3 DEF Prompt, ToBeHanded
    <3> QED
      BY <1>i, <2>3, <3>1, AnswersStay
  <2>4. \/ row[k] \in {"none", "pending", "sending"}
        \/ \E w \in word : RetryLater(w) /\ w.id = k /\ Retryable(k)
    <3>1. CASE Still(k)
      BY <1>2, <3>1 DEF Still, RowStill
    <3>2. ASSUME \/ \E sendable \in BOOLEAN : Claim(k, sendable) /\ row[k] = "pending"
                 \/ MarkHanded(k) \/ Dispatch(k) \/ Settle(k)
          PROVE  row[k] \in {"none", "pending", "sending"}
      BY <1>2, <1>p, <3>2 DEF Claim, MarkHanded, Dispatch, Settle, SetRow, rowVars
    <3>3. ASSUME NEW w \in word, w.id = k, PartOk(w) \/ CompleteIfAllParts(w) \/ Fail(w)
          PROVE  row[k] \in {"none", "pending", "sending"}
      BY <1>2, <1>p, <3>3 DEF PartOk, CompleteIfAllParts, Fail, SetRow
    <3> QED
      <4> SUFFICES ASSUME
             /\ ~ \E sendable \in BOOLEAN : Claim(k, sendable) /\ row[k] = "pending"
             /\ ~MarkHanded(k) /\ ~Dispatch(k) /\ ~Settle(k)
             /\ ~ \E w \in word : w.id = k /\ \/ PartOk(w) \/ CompleteIfAllParts(w) \/ Fail(w)
                                              \/ RetryLater(w) /\ Retryable(k)
             PROVE Still(k)
        BY <3>1, <3>2, <3>3
      <4> QED
        BY <1>i, StillSteps DEF Next, LoopStep, StartStep, HandlerStep
  <2> QED
    BY <2>1, <2>2, <2>3, <2>4
<1> QED
  BY <1>1, <1>2


-----------------------------------------------------------------------------
(* The results *)

(* The empty outbox is a state of the invariant. *)
LEMMA InitInv == ASSUME Init PROVE Inv
<1>i. /\ row = [m \in Message |-> "none"] /\ parts = [m \in Message |-> 1]
      /\ partsOk = [m \in Message |-> 0] /\ attempts = [m \in Message |-> 0]
      /\ cooling = [m \in Message |-> FALSE] /\ asked = FALSE
      /\ drain = Off /\ word = {} /\ air = {} /\ late = {}
      /\ ledger = [m \in Message |-> [r \in Reports |-> 0]]
      /\ handings = [m \in Message |-> 0]
  BY DEF Init
<1>o. drain.at = "off"
  BY <1>i, LoopStateFields
<1>n. \A m \in Message : /\ row[m] = "none" /\ partsOk[m] = 0 /\ handings[m] = 0
                         /\ \A r \in Reports : ledger[m][r] = 0
  BY <1>i
<1>1. TypeInv
  BY <1>i, LoopStateFields DEF TypeInv, TypeOK, States
<1>2. AirInv
  BY <1>i DEF AirInv
<1> SUFFICES ASSUME NEW m \in Message
             PROVE  OneVerdict(m) /\ OneGuess(m) /\ Kept(m) /\ Prompt(m) /\ SinglePart(m)
  BY <1>1, <1>2 DEF Inv, VerdictInv
<1>w. /\ \A ats : ~Owes(m, ats)
      /\ \A places : "off" \notin places => ~Holds(m, places)
      /\ ~Unanswered(m) /\ Live(m)
  BY <1>i, <1>n, <1>o DEF Owes, Holds, Unanswered, Live
<1>l. /\ ledger[m]["sent"] = 0 /\ ledger[m]["refused"] = 0 /\ ledger[m]["passing"] = 0
      /\ ledger[m]["interrupted"] = 0
  BY <1>n DEF Reports
<1>3. ~VerdictsOwed(m) /\ VerdictsTold(m) = 0 /\ ~FailureClaimed(m) /\ ~GuessClaimed(m)
      /\ ~SentClaimed(m)
  BY <1>w, <1>l DEF VerdictsOwed, VerdictsTold, FailureClaimed, GuessClaimed, SentClaimed
<1>4. OneVerdict(m) /\ OneGuess(m)
  BY <1>3, <1>i, <1>l DEF OneVerdict, OneGuess, Owes, Holds
<1>5. Kept(m)
  BY <1>n DEF Kept
<1>6. Prompt(m)
  <2>1. AnswersAreCurrent(m) /\ EarlierSpoilt(m) /\ Hopeless(m)
    BY <1>i, <1>n DEF AnswersAreCurrent, EarlierSpoilt, Hopeless
  <2>2. partsOk[m] <= Cardinality(Heard(m))
    <3>1. Heard(m) = {}
      BY <1>i DEF Heard
    <3> QED
      BY <1>n, <3>1, FS_EmptySet
  <2>3. Marked(m) /\ Claimed(m)
    BY <1>w DEF Marked, Claimed
  <2> QED
    BY <1>3, <1>w, <2>1, <2>2, <2>3 DEF Prompt
<1>7. SinglePart(m)
  BY <1>i, <1>w DEF SinglePart
<1> QED
  BY <1>4, <1>5, <1>6, <1>7

(* Every step keeps the invariant. *)
LEMMA StepInv == ASSUME Inv, [Next]_vars PROVE Inv'
<1>1. TypeInv'
  BY TypeStep DEF Inv
<1>2. VerdictInv' /\ \A m \in Message : Kept(m)'
  BY VerdictStep DEF Inv
<1>3. AirInv'
  BY AirStep DEF Inv
<1>4. \A m \in Message \ late' : Prompt(m)'
  BY PromptStep
<1>5. \A m \in Message : SinglePart(m)'
  BY SinglePartStep
<1> QED
  BY <1>1, <1>2, <1>3, <1>4, <1>5 DEF Inv

(* The inductive invariant: types, verdicts owed and told, what an ended    *)
(* message is owed, what the words say of the air, and what is known of a   *)
(* message never claimed with an answer of the radio still out.             *)
THEOREM Invariance == Spec => []Inv
<1>1. Init => Inv
  BY InitInv
<1>2. Inv /\ [Next]_vars => Inv'
  BY StepInv
<1> QED
  BY <1>1, <1>2, PTL DEF Spec

(* The stored rows, the words of the radio and the ledger are well formed,  *)
(* and every answer is one to a part and a handing there was (OutboxDao,    *)
(* SmsSender).                                                              *)
THEOREM TypeCorrect == Spec => []TypeOK
<1>1. Inv => TypeOK
  BY DEF Inv, TypeInv
<1> QED
  BY <1>1, Invariance, PTL

(* Whatever is interleaved, swept or stopped, a message that ended is       *)
(* reported as it ended, or is about to be, or its report died with the     *)
(* process between the row's update and the ledger's insert.                *)
THEOREM NothingIsForgotten == Spec => []NothingForgotten
<1>1. ASSUME Inv PROVE NothingForgotten
  <2> SUFFICES ASSUME NEW m \in Message, row[m] \in {"sent", "failed", "interrupted"}
               PROVE  \/ Told(m) \cap (IF row[m] = "sent" THEN {"sent"}
                            ELSE IF row[m] = "failed" THEN {"refused", "passing", "undelivered"}
                            ELSE {"interrupted"}) # {}
                      \/ m \in OwedByLoop \cup OwedByWords \cup lost
    BY DEF NothingForgotten
  <2>1. Kept(m)
    BY <1>1 DEF Inv
  <2>2. \A ats \in SUBSET Owing : Owes(m, ats) => m \in OwedByWords
    BY DEF Owes, OwedByWords
  <2>3. /\ Owes(m, {"completed"}) => m \in OwedByWords
        /\ Owes(m, FailureOwed \cup {"tell undelivered"}) => m \in OwedByWords
    BY <2>2 DEF FailureOwed, Owing
  <2>4. Holds(m, {"telling"}) \/ Holds(m, {"owing"}) => m \in OwedByLoop
    BY DEF Holds, OwedByLoop
  <2> QED
    BY <2>1, <2>3, <2>4 DEF Kept
<1> QED
  BY <1>1, Invariance, PTL

(* The server hears one verdict of the radio on a message, after at most    *)
(* one guess and no failure after a guess; on a message whose answers all   *)
(* came before it was handed over again the verdict is true.                *)
THEOREM TheVerdictIsTrue == Spec => []OneTrueVerdict
<1>1. ASSUME Inv PROVE OneTrueVerdict
  <2>1. ASSUME NEW m \in Message
        PROVE  /\ ledger[m]["sent"] + ledger[m]["refused"] + ledger[m]["passing"] <= 1
               /\ ledger[m]["interrupted"] + ledger[m]["refused"] + ledger[m]["passing"] <= 1
    <3>1. OneVerdict(m) /\ OneGuess(m)
      BY <1>1 DEF Inv, VerdictInv
    <3>2. /\ ledger[m]["sent"] \in Nat /\ ledger[m]["refused"] \in Nat
          /\ ledger[m]["passing"] \in Nat /\ ledger[m]["interrupted"] \in Nat
      BY <1>1 DEF Inv, TypeInv, TypeOK, Reports
    <3>3. ledger[m]["sent"] + ledger[m]["refused"] + ledger[m]["passing"] <= 1
      BY <3>1 DEF OneVerdict, VerdictsTold
    <3>4. ledger[m]["interrupted"] <= 1
      BY <3>1 DEF OneGuess
    <3>5. ledger[m]["refused"] > 0 \/ ledger[m]["passing"] > 0 => ~(ledger[m]["interrupted"] > 0)
      BY <3>1 DEF OneGuess, FailureClaimed, GuessClaimed
    <3> QED
      BY <3>2, <3>3, <3>4, <3>5
  <2>2. ASSUME NEW m \in Message \ late
        PROVE  /\ "sent" \in Told(m) => WentOut(m)
               /\ Told(m) \cap {"refused", "passing"} # {} => ~WentOut(m)
    <3>1. Prompt(m)
      BY <1>1 DEF Inv
    <3>2. "sent" \in Told(m) => WentOut(m)
      BY <3>1 DEF Prompt, SentClaimed, Told
    <3>3. Told(m) \cap {"refused", "passing"} # {} => Hopeless(m)
      BY <3>1 DEF Prompt, FreeToSend, FailureClaimed, Told
    <3>4. Hopeless(m) => ~WentOut(m)
      BY DEF Hopeless, Spoilt, WentOut, OnAir
    <3> QED
      BY <3>2, <3>3, <3>4
  <2> QED
    BY <2>1, <2>2 DEF OneTrueVerdict
<1> QED
  BY <1>1, Invariance, PTL

(* However often it is retried, swept or unclaimed, a message never claimed *)
(* with an answer still out goes out whole at most once, and a text of one  *)
(* part is always such a message.                                           *)
THEOREM NothingIsSentTwice == Spec => []SentOnce
<1>1. ASSUME Inv PROVE SentOnce
  <2>1. ASSUME NEW m \in Message, m \in late PROVE Segments[m] > 1
    <3>1. Segments[m] \in Nat \ {0} /\ Segments[m] # 1
      BY <1>1, <2>1, PartsAssumption DEF Inv, SinglePart
    <3> QED
      BY <3>1
  <2>2. ASSUME NEW m \in Message, m \notin late
        PROVE  Cardinality({n \in 1..handings[m] : OnAir(m, n) = 1..Segments[m]}) <= 1
    <3> DEFINE whole == {n \in 1..handings[m] : OnAir(m, n) = 1..Segments[m]}
    <3>1. handings[m] \in Nat /\ EarlierSpoilt(m)
      BY <1>1, <2>2 DEF Inv, TypeInv, Prompt
    <3>2. \A n \in 1..handings[m] : Spoilt(m, n) => OnAir(m, n) # 1..Segments[m]
      BY DEF Spoilt, OnAir
    <3>3. whole \in SUBSET {handings[m]}
      BY <3>1, <3>2 DEF EarlierSpoilt
    <3>4. IsFiniteSet({handings[m]}) /\ Cardinality({handings[m]}) = 1
      BY FS_Singleton
    <3> HIDE DEF whole
    <3>5. Cardinality(whole) <= 1
      BY <3>3, <3>4, FS_Subset
    <3> QED
      BY <3>5 DEF whole
  <2> QED
    BY <2>1, <2>2 DEF SentOnce
<1> QED
  BY <1>1, Invariance, PTL

=============================================================================
