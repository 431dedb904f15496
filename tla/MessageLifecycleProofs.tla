----------------------- MODULE MessageLifecycleProofs -----------------------
(***************************************************************************)
(* What holds of the server's message record for every set of messages,    *)
(* batches and phones and every setting.                                   *)
(***************************************************************************)
EXTENDS MessageLifecycle, FiniteSetTheorems, TLAPS

(* The places of a message in time are numbers. *)
LEMMA TimesAreNumbers ==
  ASSUME NEW m \in Message
  PROVE  DueAfter(m) \in Int /\ Lag(m) \in Int
<1>1. IndexOf[m] \in Nat /\ WaveSize \in Nat \ {0} /\ PerMessage \in Nat
  BY BatchesAssumption, SettingsAssumption
<1>2. (IndexOf[m] \div WaveSize) \in Int /\ (IndexOf[m] % WaveSize) \in Int
  BY <1>1
<1>3. WaveSize * PerMessage \in Int
  BY <1>1
<1>4. QED
  BY <1>1, <1>2, <1>3 DEF DueAfter, Lag

(* How many of some rows are of one batch is a natural number. *)
LEMMA RowsAreFinite ==
  ASSUME NEW rows \in SUBSET Message
  PROVE  IsFiniteSet(rows) /\ Cardinality(rows) \in Nat
BY BatchesAssumption, FS_Subset, FS_CardinalityType

Counts == [Batch -> [Counted -> Nat]]

(* Moving counters keeps them natural numbers: the clamp at zero. *)
LEMMA ShiftedIsCounts ==
  ASSUME NEW c \in Counts, NEW rows \in SUBSET Message, NEW from, NEW to
  PROVE  Shifted(c, rows, from, to) \in Counts
<1> SUFFICES ASSUME NEW b \in Batch
             PROVE  Moved(c[b], from, to, Cardinality(rows \cap Recipients(b)))
                       \in [Counted -> Nat]
  BY DEF Shifted, Counts
<1>1. Cardinality(rows \cap Recipients(b)) \in Nat
  BY RowsAreFinite, rows \cap Recipients(b) \in SUBSET Message
<1>2. \A s \in Counted : c[b][s] \in Nat
  BY DEF Counts
<1>3. QED
  BY <1>1, <1>2 DEF Moved

(* A recomputed batch has a status of its own and is closed or not. *)
LEMMA RecomputeTypes ==
  ASSUME NEW c, NEW bs, Recompute(c, bs), TypeOK
  PROVE  /\ batch' \in [Batch -> BatchStatuses]
         /\ closed' \in [Batch -> BOOLEAN]
         /\ \A b \in Batch : batch[b] # "none" => batch'[b] # "none"
         /\ \A b \in Batch : b \notin bs => batch'[b] = batch[b]
<1>1. \A b \in Batch : StatusFor(c[b], Size(b)) \in BatchStatuses \ {"none"}
  BY DEF StatusFor, BatchStatuses
<1>2. QED
  BY <1>1 DEF Recompute, TypeOK

LEMMA InitTypes == Init => TypeOK
<1> SUFFICES ASSUME Init PROVE TypeOK
  OBVIOUS
<1>1. StaleAfter + 1 \in Int
  BY SettingsAssumption
<1>2. QED
  BY <1>1 DEF Init, TypeOK, Statuses, Codes, BatchStatuses, JobStates, NoCounts, Counted,
              NoJob, NoSweep

LEMMA DeviceStepTypes ==
  ASSUME TypeOK, NEW d \in Device, DeviceStep(d)
  PROVE  TypeOK'
<1>1. CASE \E live \in BOOLEAN : PairDevice(d, live)
  BY <1>1 DEF PairDevice, TypeOK, messageVars, batchVars
<1>2. CASE UnpairDevice(d)
  BY <1>2 DEF UnpairDevice, TypeOK, messageVars, batchVars
<1>3. CASE \E on, rejected \in BOOLEAN : UpdateDevice(d, on, rejected)
  BY <1>3 DEF UpdateDevice, TypeOK, messageVars, batchVars
<1>4. CASE RefreshPushToken(d)
  BY <1>4 DEF RefreshPushToken, TypeOK, messageVars, batchVars
<1>5. QED
  BY <1>1, <1>2, <1>3, <1>4 DEF DeviceStep

LEMMA SendTypes ==
  ASSUME TypeOK, NEW b \in Batch, NEW delay \in 0..MaxDelay, Send(b, delay)
  PROVE  TypeOK'
<1>1. \A m \in Message : -(delay + DueAfter(m)) \in Int
  BY TimesAreNumbers, SettingsAssumption
<1>2. age' \in [Message -> Int]
  BY <1>1 DEF Send, TypeOK
<1>3. job' \in [Waves -> [state : JobStates, attempt : Nat, rows : SUBSET Message]]
  BY DEF Send, TypeOK, NoJob, JobStates
<1>4. status' \in [Message -> Statuses] /\ batch' \in [Batch -> BatchStatuses]
  BY DEF Send, TypeOK, Statuses, BatchStatuses
<1>5. QED
  BY <1>2, <1>3, <1>4 DEF Send, TypeOK, deviceVars

(* Whatever else a step of a job does, its record stays one. *)
LEMMA JobRecord ==
  ASSUME TypeOK, NEW w \in Waves, NEW s \in JobStates, NEW n \in Nat,
         NEW rows \in SUBSET Message
  PROVE  /\ [job EXCEPT ![w] = [state |-> s, attempt |-> n, rows |-> rows]]
               \in [Waves -> [state : JobStates, attempt : Nat, rows : SUBSET Message]]
         /\ [job EXCEPT ![w].state = s]
               \in [Waves -> [state : JobStates, attempt : Nat, rows : SUBSET Message]]
         /\ [job EXCEPT ![w].state = s, ![w].rows = rows]
               \in [Waves -> [state : JobStates, attempt : Nat, rows : SUBSET Message]]
BY DEF TypeOK

LEMMA JobStepTypes ==
  ASSUME TypeOK, NEW w \in Waves, JobStep(w)
  PROVE  TypeOK'
<1> DEFINE JobOK == job' \in [Waves -> [state : JobStates, attempt : Nat,
                                        rows : SUBSET Message]]
<1>0. job[w] \in [state : JobStates, attempt : Nat, rows : SUBSET Message]
  BY DEF TypeOK
<1>1. CASE LoadQueued(w)
  <2>1. JobOK
    <3> DEFINE rows == {m \in InWave(w) : status[m] = "queued"}
               s == IF rows = {} THEN "finished" ELSE "loaded"
    <3>1. rows \in SUBSET Message /\ s \in JobStates /\ job[w].attempt + 1 \in Nat
      BY <1>0 DEF InWave, JobStates
    <3>2. job' = [job EXCEPT ![w] = [state |-> s, attempt |-> job[w].attempt + 1,
                                     rows |-> rows]]
      BY <1>1 DEF LoadQueued
    <3> HIDE DEF rows, s
    <3>3. QED
      BY <3>1, <3>2, JobRecord
  <2>2. QED
    BY <1>1, <2>1 DEF LoadQueued, TypeOK, messageVars, batchVars, deviceVars
<1>2. CASE ReadDevice(w)
  <2>1. JobOK
    BY <1>2, JobRecord DEF ReadDevice, Step, JobStates
  <2>2. QED
    BY <1>2, <2>1 DEF ReadDevice, TypeOK, messageVars, batchVars, deviceVars
<1>3. CASE PushAccepted(w)
  <2>1. JobOK
    BY <1>3, JobRecord DEF PushAccepted, Step, JobStates
  <2>2. QED
    BY <1>3, <2>1 DEF PushAccepted, TypeOK, messageVars, batchVars, deviceVars
<1>4. CASE PushRejected(w)
  <2>1. JobOK
    BY <1>4, JobRecord DEF PushRejected, Step, JobStates
  <2>2. QED
    BY <1>4, <2>1 DEF PushRejected, TypeOK, messageVars, batchVars
<1>5. CASE MarkFailed(w)
  <2>1. JobOK
    BY <1>0, <1>5, JobRecord DEF MarkFailed, Failable, JobStates
  <2>2. /\ status' \in [Message -> Statuses]
        /\ code' \in [Message -> Codes]
        /\ age' \in [Message -> Int]
    BY <1>5 DEF MarkFailed, TypeOK, Statuses, Codes
  <2>3. QED
    BY <1>5, <2>1, <2>2 DEF MarkFailed, TypeOK, batchVars, deviceVars
<1>6. CASE CountFailed(w)
  <2>1. JobOK
    BY <1>6, JobRecord DEF CountFailed, Step, JobStates
  <2>2. count' \in Counts
    BY <1>0, <1>6, ShiftedIsCounts DEF CountFailed, TypeOK, Counts
  <2>3. QED
    BY <1>6, <2>1, <2>2 DEF CountFailed, TypeOK, messageVars, deviceVars, Counts
<1>7. CASE RecomputeFailed(w)
  <2>1. JobOK
    BY <1>7, JobRecord DEF RecomputeFailed, Step, JobStates
  <2>2. batch' \in [Batch -> BatchStatuses] /\ closed' \in [Batch -> BOOLEAN]
    BY <1>7, RecomputeTypes DEF RecomputeFailed
  <2>3. QED
    BY <1>7, <2>1, <2>2 DEF RecomputeFailed, TypeOK, messageVars, deviceVars
<1>8. CASE AnnounceFailed(w)
  <2>1. JobOK
    BY <1>8, JobRecord DEF AnnounceFailed, Step, JobStates
  <2>2. announced' \in [Message -> Statuses]
    BY <1>8 DEF AnnounceFailed, TypeOK, Statuses
  <2>3. QED
    BY <1>8, <2>1, <2>2 DEF AnnounceFailed, TypeOK, batchVars, deviceVars
<1>9. QED
  BY <1>1, <1>2, <1>3, <1>4, <1>5, <1>6, <1>7, <1>8 DEF JobStep

LEMMA JobDiesTypes ==
  ASSUME TypeOK, NEW w \in Waves, JobDies(w)
  PROVE  TypeOK'
<1>1. job' \in [Waves -> [state : JobStates, attempt : Nat, rows : SUBSET Message]]
  BY JobRecord DEF JobDies, JobStates
<1>2. QED
  BY <1>1 DEF JobDies, TypeOK, messageVars, batchVars, deviceVars

LEMMA RequestStepTypes ==
  ASSUME TypeOK, NEW d \in Device, RequestStep(d)
  PROVE  TypeOK'
<1>1. ASSUME NEW rows \in SUBSET Message, FetchOutbox(d, rows)
      PROVE  TypeOK'
  <2> DEFINE fresh == {m \in rows : status[m] = "queued"}
             c == Shifted(count, fresh, "queued", "dispatched")
  <2>1. fresh \in SUBSET Message
    OBVIOUS
  <2>2. c \in Counts
    BY <2>1, ShiftedIsCounts DEF TypeOK, Counts
  <2>3. count' = c /\ Recompute(c, BatchesOf(fresh))
    BY <1>1 DEF FetchOutbox
  <2>4. batch' \in [Batch -> BatchStatuses] /\ closed' \in [Batch -> BOOLEAN]
    BY <2>3, RecomputeTypes
  <2>5. age' \in [Message -> Int]
    BY <1>1, TimesAreNumbers DEF FetchOutbox, TypeOK, AgeAtFetch, AtMost
  <2>6. status' \in [Message -> Statuses] /\ handed' \in [Message -> BOOLEAN]
    BY <1>1 DEF FetchOutbox, TypeOK, Statuses
  <2> HIDE DEF c
  <2>7. QED
    BY <1>1, <2>2, <2>3, <2>4, <2>5, <2>6 DEF FetchOutbox, TypeOK, deviceVars, Counts
<1>2. ASSUME NEW m \in Message, NEW to \in {"sent", "delivered", "failed"},
             NEW why \in {"interrupted", "refused"}, ReportStatus(d, m, to, why)
      PROVE  TypeOK'
  <2> DEFINE c == Shifted(count, {m}, status[m], to)
  <2>1. c \in Counts
    BY ShiftedIsCounts DEF TypeOK, Counts
  <2>2. count' = c /\ Recompute(c, {BatchOf[m]})
    BY <1>2 DEF ReportStatus
  <2>3. batch' \in [Batch -> BatchStatuses] /\ closed' \in [Batch -> BOOLEAN]
    BY <2>2, RecomputeTypes
  <2>4. sentCount' \in [Device -> Nat] /\ quiet' \in [Device -> Int]
    BY <1>2 DEF ReportStatus, SentMore, TypeOK
  <2>5. /\ status' \in [Message -> Statuses]
        /\ code' \in [Message -> Codes]
        /\ age' \in [Message -> Int]
        /\ announced' \in [Message -> Statuses]
    BY <1>2 DEF ReportStatus, CodeAfter, TypeOK, Statuses, Codes
  <2> HIDE DEF c
  <2>6. QED
    BY <1>2, <2>1, <2>2, <2>3, <2>4, <2>5 DEF ReportStatus, TypeOK, Counts
<1>3. CASE ReportIgnored(d)
  BY <1>3 DEF ReportIgnored, TypeOK, messageVars, batchVars
<1>4. QED
  BY <1>1, <1>2, <1>3 DEF RequestStep

LEMMA SweepStepTypes ==
  ASSUME TypeOK, SweepStep
  PROVE  TypeOK'
<1>1. CASE SweepSnapshot
  <2>1. sweep' \in [Message -> Statuses \cup {"no"}]
    BY <1>1 DEF SweepSnapshot, TypeOK
  <2>2. QED
    BY <1>1, <2>1 DEF SweepSnapshot, TypeOK, messageVars, batchVars, deviceVars
<1>2. CASE SweepUpdate
  <2> DEFINE rows == Swept("queued") \cup Swept("dispatched")
             c1 == Shifted(count, Swept("queued"), "queued", "unknown")
             c == Shifted(c1, Swept("dispatched"), "dispatched", "unknown")
  <2>1. Swept("queued") \in SUBSET Message /\ Swept("dispatched") \in SUBSET Message
    BY DEF Swept
  <2>2. c1 \in Counts
    BY <2>1, ShiftedIsCounts DEF TypeOK, Counts
  <2>3. count' = c /\ Recompute(c, BatchesOf(rows))
    BY <1>2 DEF SweepUpdate
  <2> HIDE DEF c1
  <2>4. c \in Counts
    BY <2>1, <2>2, ShiftedIsCounts
  <2> HIDE DEF c
  <2>5. batch' \in [Batch -> BatchStatuses] /\ closed' \in [Batch -> BOOLEAN]
    BY <2>3, RecomputeTypes
  <2>6. /\ status' \in [Message -> Statuses]
        /\ code' \in [Message -> Codes]
        /\ age' \in [Message -> Int]
        /\ announced' \in [Message -> Statuses]
        /\ sweep' \in [Message -> Statuses \cup {"no"}]
    BY <1>2 DEF SweepUpdate, SweepCode, NoSweep, TypeOK, Statuses, Codes
  <2>7. QED
    BY <1>2, <2>3, <2>4, <2>5, <2>6 DEF SweepUpdate, TypeOK, deviceVars, Counts
<1>3. CASE SweepRollsBack
  BY <1>3 DEF SweepRollsBack, NoSweep, TypeOK, messageVars, batchVars, deviceVars
<1>4. QED
  BY <1>1, <1>2, <1>3 DEF SweepStep

LEMMA TickTypes ==
  ASSUME TypeOK, Tick
  PROVE  TypeOK'
<1>1. age' \in [Message -> Int] /\ quiet' \in [Device -> Int]
  BY SettingsAssumption DEF Tick, TypeOK, AtMost
<1>2. QED
  BY <1>1 DEF Tick, TypeOK, batchVars

LEMMA StutterTypes ==
  ASSUME TypeOK, UNCHANGED vars
  PROVE  TypeOK'
BY DEF TypeOK, vars, messageVars, batchVars, deviceVars

LEMMA NextTypes == TypeOK /\ [Next]_vars => TypeOK'
<1> SUFFICES ASSUME TypeOK, [Next]_vars PROVE TypeOK'
  OBVIOUS
<1>1. CASE Transaction
  BY <1>1, DeviceStepTypes, SendTypes, JobStepTypes, RequestStepTypes, TickTypes
     DEF Transaction
<1>2. CASE \E w \in Waves : JobDies(w)
  BY <1>2, JobDiesTypes
<1>3. CASE SweepStep
  BY <1>3, SweepStepTypes
<1>4. CASE UNCHANGED vars
  BY <1>4, StutterTypes
<1>5. QED
  BY <1>1, <1>2, <1>3, <1>4 DEF Next

(* Type correctness, of the program as it is. *)
THEOREM TypeCorrect == Spec => []TypeOK
<1>1. QED
  BY InitTypes, NextTypes, PTL DEF Spec

-----------------------------------------------------------------------------
(***************************************************************************)
(* What the sweep's overlap and a dying job cannot break.  A message not   *)
(* yet fetched has no dispatched_at; the server's own failure stands until *)
(* the sweep overwrites it, code and all; a batch that does not exist has  *)
(* no messages; the sweep's snapshot holds only messages that exist.       *)
(***************************************************************************)
HandedInv ==
    /\ \A m \in Message : status[m] \in {"none", "queued"} => ~handed[m]
    /\ \A m \in Message : code[m] = "device_gone" => ~handed[m] /\ status[m] = "failed"
    /\ \A b \in Batch : batch[b] = "none" => \A m \in Recipients(b) : status[m] = "none"
    /\ \A m \in Message : sweep[m] # "no" => status[m] # "none"

(* No step returns a message that left the outbox. *)
Onward == \A m \in Message : status[m] \notin InFlight => status'[m] \notin InFlight

LEMMA HandedInit == Init => HandedInv
BY DEF Init, HandedInv, NoSweep, Recipients

LEMMA HandedJobStep ==
  ASSUME TypeOK, HandedInv, NEW w \in Waves, JobStep(w)
  PROVE  HandedInv' /\ Onward
<1>1. CASE MarkFailed(w)
  <2> DEFINE rows == Failable(w)
  <2>1. \A m \in rows : m \in Message /\ status[m] = "queued"
    BY DEF Failable, TypeOK
  <2>2. /\ status' = [m \in Message |-> IF m \in rows THEN "failed" ELSE status[m]]
        /\ code' = [m \in Message |-> IF m \in rows THEN "device_gone" ELSE code[m]]
        /\ UNCHANGED <<handed, batch, sweep>>
    BY <1>1 DEF MarkFailed, batchVars
  <2> HIDE DEF rows
  <2>3. QED
    BY <2>1, <2>2 DEF HandedInv, Onward, InFlight, Recipients
<1>2. CASE RecomputeFailed(w)
  <2>1. \A b \in Batch : batch[b] # "none" => batch'[b] # "none"
    BY <1>2, RecomputeTypes DEF RecomputeFailed
  <2>2. UNCHANGED <<status, code, handed, sweep>>
    BY <1>2 DEF RecomputeFailed, messageVars
  <2>3. QED
    BY <2>1, <2>2 DEF HandedInv, Onward, Recipients
<1>3. CASE ~MarkFailed(w) /\ ~RecomputeFailed(w)
  <2>1. UNCHANGED <<status, code, handed, batch, sweep>>
    BY <1>3 DEF JobStep, LoadQueued, ReadDevice, PushAccepted, PushRejected, CountFailed,
                AnnounceFailed, messageVars, batchVars
  <2>2. QED
    BY <2>1 DEF HandedInv, Onward, Recipients
<1>4. QED
  BY <1>1, <1>2, <1>3

LEMMA HandedSend ==
  ASSUME TypeOK, HandedInv, NEW b \in Batch, NEW delay \in 0..MaxDelay, Send(b, delay)
  PROVE  HandedInv' /\ Onward
<1>1. /\ batch[b] = "none"
      /\ batch' = [batch EXCEPT ![b] = "queued"]
      /\ status' = [m \in Message |-> IF m \in Recipients(b) THEN "queued" ELSE status[m]]
      /\ UNCHANGED <<code, handed, sweep>>
  BY DEF Send
<1>2. \A m \in Recipients(b) : status[m] = "none" /\ ~handed[m] /\ code[m] # "device_gone"
  BY <1>1 DEF HandedInv, Recipients
<1>3. \A c \in Batch \ {b} : \A m \in Recipients(c) : m \notin Recipients(b)
  BY DEF Recipients
<1>4. QED
  BY <1>1, <1>2, <1>3 DEF HandedInv, Onward, InFlight, TypeOK, Recipients

LEMMA HandedRequest ==
  ASSUME TypeOK, HandedInv, NEW d \in Device, RequestStep(d)
  PROVE  HandedInv' /\ Onward
<1>1. ASSUME NEW rows \in SUBSET Message, FetchOutbox(d, rows)
      PROVE  HandedInv' /\ Onward
  <2>1. \A m \in rows : status[m] \in {"queued", "dispatched"}
    BY <1>1 DEF FetchOutbox, Offered
  <2>2. \A b \in Batch : batch[b] # "none" => batch'[b] # "none"
    BY <1>1, RecomputeTypes DEF FetchOutbox
  <2>3. /\ status' = [m \in Message |-> IF m \in rows THEN "dispatched" ELSE status[m]]
        /\ handed' = [m \in Message |-> handed[m] \/ m \in rows]
        /\ UNCHANGED <<code, sweep>>
    BY <1>1 DEF FetchOutbox
  <2>4. \A b \in Batch : batch[b] = "none" => \A m \in Recipients(b) : m \notin rows
    BY <2>1 DEF HandedInv
  <2>5. QED
    BY <2>1, <2>2, <2>3, <2>4 DEF HandedInv, Onward, InFlight, TypeOK, Recipients
<1>2. ASSUME NEW m \in Message, NEW to \in {"sent", "delivered", "failed"},
             NEW why \in {"interrupted", "refused"}, ReportStatus(d, m, to, why)
      PROVE  HandedInv' /\ Onward
  <2>1. status[m] # "none" /\ code[m] # "device_gone"
    BY <1>2 DEF ReportStatus, Moves, AllowedFrom, HandedInv
  <2>2. \A b \in Batch : batch[b] # "none" => batch'[b] # "none"
    BY <1>2, RecomputeTypes DEF ReportStatus
  <2>3. /\ status' = [status EXCEPT ![m] = to]
        /\ code' = [code EXCEPT ![m] = CodeAfter(m, to, why)]
        /\ UNCHANGED <<handed, sweep>>
    BY <1>2 DEF ReportStatus
  <2>4. CodeAfter(m, to, why) # "device_gone"
    BY DEF CodeAfter
  <2>5. \A b \in Batch : batch[b] = "none" => m \notin Recipients(b)
    BY <2>1 DEF HandedInv
  <2>6. QED
    BY <2>1, <2>2, <2>3, <2>4, <2>5 DEF HandedInv, Onward, InFlight, TypeOK, Recipients
<1>3. CASE ReportIgnored(d)
  <2>1. UNCHANGED <<status, code, handed, batch, sweep>>
    BY <1>3 DEF ReportIgnored, messageVars, batchVars
  <2>2. QED
    BY <2>1 DEF HandedInv, Onward, Recipients
<1>4. QED
  BY <1>1, <1>2, <1>3 DEF RequestStep

LEMMA HandedSweep ==
  ASSUME TypeOK, HandedInv, SweepStep
  PROVE  HandedInv' /\ Onward
<1>1. CASE SweepSnapshot
  <2>1. UNCHANGED <<status, code, handed, batch>>
    BY <1>1 DEF SweepSnapshot, messageVars, batchVars
  <2>2. \A m \in Message : sweep'[m] # "no" => status[m] # "none"
    BY <1>1 DEF SweepSnapshot, Stale
  <2>3. QED
    BY <2>1, <2>2 DEF HandedInv, Onward, Recipients
<1>2. CASE SweepUpdate
  <2> DEFINE rows == Swept("queued") \cup Swept("dispatched")
  <2>1. \A m \in rows : sweep[m] # "no" /\ status[m] # "none"
    BY DEF Swept, HandedInv
  <2>2. \A b \in Batch : batch[b] # "none" => batch'[b] # "none"
    BY <1>2, RecomputeTypes DEF SweepUpdate
  <2>3. /\ status' = [m \in Message |-> IF m \in rows THEN "unknown" ELSE status[m]]
        /\ code' = [m \in Message |->
                      IF m \in rows THEN SweepCode(sweep[m]) ELSE code[m]]
        /\ sweep' = [m \in Message |-> "no"]
        /\ UNCHANGED handed
    BY <1>2 DEF SweepUpdate, NoSweep
  <2>4. \A m \in Message : SweepCode(sweep[m]) # "device_gone"
    BY DEF SweepCode
  <2>5. \A b \in Batch : batch[b] = "none" => \A m \in Recipients(b) : m \notin rows
    BY <2>1 DEF HandedInv
  <2> HIDE DEF rows
  <2>6. QED
    BY <2>1, <2>2, <2>3, <2>4, <2>5 DEF HandedInv, Onward, InFlight, TypeOK, Recipients
<1>3. CASE SweepRollsBack
  BY <1>3 DEF SweepRollsBack, NoSweep, messageVars, batchVars, HandedInv, Onward, Recipients
<1>4. QED
  BY <1>1, <1>2, <1>3 DEF SweepStep

(* The steps that touch neither a message's fate nor its batch. *)
LEMMA HandedElse ==
  ASSUME TypeOK, HandedInv, UNCHANGED <<status, code, handed, batch, sweep>>
  PROVE  HandedInv' /\ Onward
BY DEF HandedInv, Onward, Recipients

LEMMA HandedNext == TypeOK /\ HandedInv /\ [Next]_vars => HandedInv' /\ Onward
<1> SUFFICES ASSUME TypeOK, HandedInv, [Next]_vars PROVE HandedInv' /\ Onward
  OBVIOUS
<1>1. CASE \E d \in Device : DeviceStep(d)
  <2>1. UNCHANGED <<status, code, handed, batch, sweep>>
    BY <1>1 DEF DeviceStep, PairDevice, UnpairDevice, UpdateDevice, RefreshPushToken,
                messageVars, batchVars
  <2>2. QED
    BY <2>1, HandedElse
<1>2. CASE \E w \in Waves : JobDies(w)
  <2>1. UNCHANGED <<status, code, handed, batch, sweep>>
    BY <1>2 DEF JobDies, messageVars, batchVars
  <2>2. QED
    BY <2>1, HandedElse
<1>3. CASE Tick
  <2>1. UNCHANGED <<status, code, handed, batch, sweep>>
    BY <1>3 DEF Tick, batchVars
  <2>2. QED
    BY <2>1, HandedElse
<1>4. CASE UNCHANGED vars
  <2>1. UNCHANGED <<status, code, handed, batch, sweep>>
    BY <1>4 DEF vars, messageVars, batchVars
  <2>2. QED
    BY <2>1, HandedElse
<1>5. QED
  BY <1>1, <1>2, <1>3, <1>4, HandedSend, HandedJobStep, HandedRequest, HandedSweep
     DEF Next, Transaction

LEMMA HandedAlways == Spec => []HandedInv
BY HandedInit, HandedNext, TypeCorrect, PTL DEF Spec

(* A message the server failed because its phone was gone or off was never *)
(* handed to that phone, for any number of phones, jobs and sweeps.        *)
THEOREM FailedUnsentHolds == Spec => []FailedUnsent
<1>1. HandedInv => FailedUnsent
  BY DEF HandedInv, FailedUnsent
<1>2. QED
  BY <1>1, HandedAlways, PTL

(* A message that left the outbox is never offered again. *)
THEOREM NeverOfferedAgainHolds == Spec => NeverOfferedAgain
<1>1. TypeOK /\ HandedInv /\ [Next]_vars =>
         [\A m \in Message : status[m] \notin InFlight => status'[m] \notin InFlight]_status
  BY HandedNext DEF Onward
<1>2. QED
  BY <1>1, TypeCorrect, HandedAlways, PTL DEF Spec, NeverOfferedAgain

-----------------------------------------------------------------------------
(***************************************************************************)
(* The batch counters, when sweeps run alone and failQueued is not cut     *)
(* short.  The invariant adds what makes CountersMatch inductive: the      *)
(* sweep's snapshot is still true, a job holds rows of its own wave only,  *)
(* and rows being recorded are failed for good.                            *)
(***************************************************************************)
SnapshotFresh ==
    \A m \in Message : sweep[m] # "no" =>
        sweep[m] = status[m] /\ status[m] \in {"queued", "dispatched"}

RowsOfWave == \A w \in Waves : job[w].rows \subseteq InWave(w)

RecordedStay ==
    \A w \in Waves : Recording(w) =>
        \A m \in job[w].rows : status[m] = "failed" /\ code[m] = "device_gone"

JobsInv == SnapshotFresh /\ RowsOfWave /\ RecordedStay

(* What the counter of status s should be the size of. *)
Tally(b, s) == InStatus(b, s) \ (IF s = "failed" THEN Uncounted(b) ELSE {})

(* One counter follows the rows that move from one status to another. *)
LEMMA CounterMoves ==
  ASSUME NEW k \in [Counted -> Nat], NEW R \in SUBSET Message, NEW from, NEW to, from # to,
         NEW s \in Counted, NEW T \in SUBSET Message, NEW T2,
         k[s] = Cardinality(T),
         s = from => R \subseteq T /\ T2 = T \ R,
         s = to => R \cap T = {} /\ T2 = T \cup R,
         s # from /\ s # to => T2 = T
  PROVE  Moved(k, from, to, Cardinality(R))[s] = Cardinality(T2)
<1> DEFINE n == Cardinality(R)
<1>1. IsFiniteSet(R) /\ IsFiniteSet(T) /\ n \in Nat /\ Cardinality(T) \in Nat
  BY RowsAreFinite
<1>3. CASE s = from
  <2>1. R \subseteq T /\ T2 = T \ R
    BY <1>3
  <2>2. n <= Cardinality(T) /\ T \cap R = R
    BY <1>1, <2>1, FS_Subset
  <2>5. Cardinality(T \ R) = Cardinality(T) - Cardinality(T \cap R)
    BY <1>1, FS_Difference
  <2>3. Cardinality(T2) = Cardinality(T) - n
    BY <2>1, <2>2, <2>5
  <2>4. QED
    BY <1>1, <1>3, <2>2, <2>3 DEF Moved
<1>4. CASE s = to
  <2>1. R \cap T = {} /\ T2 = T \cup R
    BY <1>4
  <2>2. T \cap R = {} /\ Cardinality({}) = 0
    BY <2>1, FS_EmptySet
  <2>5. Cardinality(T \cup R) = Cardinality(T) + Cardinality(R) - Cardinality(T \cap R)
    BY <1>1, FS_Union
  <2>6. Cardinality(T \cap R) = 0
    BY <2>2, Zenon
  <2>3. Cardinality(T2) = Cardinality(T) + n
    BY <1>1, <2>1, <2>5, <2>6
  <2>4. QED
    BY <1>1, <1>4, <2>3 DEF Moved
<1>5. CASE s # from /\ s # to
  BY <1>5 DEF Moved
<1>6. QED
  BY <1>3, <1>4, <1>5

LEMMA TallyIsSet ==
  ASSUME NEW b, NEW s
  PROVE  Tally(b, s) \in SUBSET Message
BY DEF Tally, InStatus, Recipients

LEMMA CountersMatchTally == CountersMatch <=>
    \A b \in Batch : \A s \in Counted : count[b][s] = Cardinality(Tally(b, s))
BY DEF CountersMatch, Tally

LEMMA CountersMatchTallyNext == CountersMatch' <=>
    \A b \in Batch : \A s \in Counted : count'[b][s] = Cardinality(Tally(b, s)')
BY DEF CountersMatch, Tally

(* Nothing a counter is the size of has changed. *)
LEMMA CountersStay ==
  ASSUME CountersMatch, count' = count,
         \A b \in Batch : \A s \in Counted : Tally(b, s)' = Tally(b, s)
  PROVE  CountersMatch'
<1>1. \A b \in Batch : \A s \in Counted : count'[b][s] = Cardinality(Tally(b, s)')
  BY CountersMatchTally
<1>2. QED
  BY <1>1, CountersMatchTallyNext

(* Different waves have no message in common. *)
LEMMA WavesDisjoint ==
  ASSUME NEW v \in Waves, NEW w \in Waves, v # w
  PROVE  InWave(v) \cap InWave(w) = {}
BY DEF InWave

(* Steps that leave messages, counters and jobs alone. *)
LEMMA CountersElse ==
  ASSUME CountersMatch, UNCHANGED <<status, count, job>>
  PROVE  CountersMatch'
BY DEF CountersMatch, InStatus, Uncounted

(* Every counter follows the rows that move from one status to another. *)
LEMMA CountersShift ==
  ASSUME TypeOK, CountersMatch, NEW rows \in SUBSET Message, NEW from, NEW to, from # to,
         count' = Shifted(count, rows, from, to),
         \A b \in Batch : \A s \in Counted :
            LET R == rows \cap Recipients(b)
            IN  /\ s = from => R \subseteq Tally(b, s) /\ Tally(b, s)' = Tally(b, s) \ R
                /\ s = to => R \cap Tally(b, s) = {} /\ Tally(b, s)' = Tally(b, s) \cup R
                /\ s # from /\ s # to => Tally(b, s)' = Tally(b, s)
  PROVE  CountersMatch'
<1> SUFFICES ASSUME NEW b \in Batch, NEW s \in Counted
             PROVE  count'[b][s] = Cardinality(Tally(b, s)')
  BY CountersMatchTallyNext
<1> DEFINE T == Tally(b, s)
           T2 == Tally(b, s)'
           R == rows \cap Recipients(b)
<1>1. T \in SUBSET Message /\ count[b] \in [Counted -> Nat] /\ count[b][s] = Cardinality(T)
  BY TallyIsSet, CountersMatchTally DEF TypeOK
<1>2. /\ s = from => R \subseteq T /\ T2 = T \ R
      /\ s = to => R \cap T = {} /\ T2 = T \cup R
      /\ s # from /\ s # to => T2 = T
  OBVIOUS
<1>3. R \in SUBSET Message /\ count'[b][s] = Moved(count[b], from, to, Cardinality(R))[s]
  BY DEF Shifted
<1> HIDE DEF T, T2, R
<1>4. Moved(count[b], from, to, Cardinality(R))[s] = Cardinality(T2)
  BY <1>1, <1>2, <1>3, CounterMoves
<1>5. QED
  BY <1>3, <1>4 DEF T2

(* The rows themselves move, and none of them is waiting to be counted. *)
LEMMA RowsMove ==
  ASSUME TypeOK, CountersMatch, NEW rows \in SUBSET Message, NEW from, NEW to, from # to,
         \A m \in rows : status[m] = from,
         status' = [m \in Message |-> IF m \in rows THEN to ELSE status[m]],
         count' = Shifted(count, rows, from, to),
         \A b \in Batch : Uncounted(b)' = Uncounted(b) /\ rows \cap Uncounted(b) = {}
  PROVE  CountersMatch'
<1> SUFFICES ASSUME NEW b \in Batch, NEW s \in Counted
             PROVE  LET R == rows \cap Recipients(b)
                    IN  /\ s = from => R \subseteq Tally(b, s) /\ Tally(b, s)' = Tally(b, s) \ R
                        /\ s = to => R \cap Tally(b, s) = {} /\ Tally(b, s)' = Tally(b, s) \cup R
                        /\ s # from /\ s # to => Tally(b, s)' = Tally(b, s)
  BY CountersShift
<1>1. InStatus(b, s)' = {m \in Recipients(b) : (IF m \in rows THEN to ELSE status[m]) = s}
  BY DEF InStatus, Recipients
<1>2. Tally(b, s)' = InStatus(b, s)' \ (IF s = "failed" THEN Uncounted(b) ELSE {})
  BY DEF Tally
<1>3. QED
  BY <1>1, <1>2 DEF Tally, InStatus, Recipients

(* Rows waiting to be counted are the server's own failures. *)
LEMMA UncountedFailed ==
  ASSUME JobsInv, NEW b \in Batch, NEW m \in Uncounted(b)
  PROVE  status[m] = "failed" /\ code[m] = "device_gone"
<1>1. PICK w \in Waves : job[w].state = "counting" /\ m \in job[w].rows
  BY DEF Uncounted
<1>2. QED
  BY <1>1 DEF JobsInv, RecordedStay, Recording

LEMMA CountersFetch ==
  ASSUME TypeOK, JobsInv, CountersMatch, sweep = NoSweep,
         NEW d \in Device, NEW rows \in SUBSET Message, FetchOutbox(d, rows)
  PROVE  JobsInv' /\ CountersMatch'
<1> DEFINE fresh == {m \in rows : status[m] = "queued"}
<1>1. \A m \in rows : status[m] \in {"queued", "dispatched"}
  BY DEF FetchOutbox, Offered
<1>2. /\ status' = [m \in Message |-> IF m \in rows THEN "dispatched" ELSE status[m]]
      /\ count' = Shifted(count, fresh, "queued", "dispatched")
      /\ UNCHANGED <<code, job, sweep>>
  BY DEF FetchOutbox
<1>3. status' = [m \in Message |-> IF m \in fresh THEN "dispatched" ELSE status[m]]
  BY <1>1, <1>2
<1>4. \A b \in Batch : Uncounted(b)' = Uncounted(b) /\ fresh \cap Uncounted(b) = {}
  BY <1>2, UncountedFailed DEF Uncounted
<1>5. fresh \in SUBSET Message /\ \A m \in fresh : status[m] = "queued"
  OBVIOUS
<1> HIDE DEF fresh
<1>6. CountersMatch'
  BY <1>2, <1>3, <1>4, <1>5, RowsMove
<1>7. JobsInv'
  BY <1>1, <1>2 DEF JobsInv, SnapshotFresh, RowsOfWave, RecordedStay, Recording, InWave, NoSweep
<1>8. QED
  BY <1>6, <1>7

LEMMA CountersReport ==
  ASSUME TypeOK, JobsInv, CountersMatch, sweep = NoSweep, NEW d \in Device,
         NEW m \in Message, NEW to \in {"sent", "delivered", "failed"},
         NEW why \in {"interrupted", "refused"}, ReportStatus(d, m, to, why)
  PROVE  JobsInv' /\ CountersMatch'
<1>1. /\ Moves(m, to)
      /\ status' = [status EXCEPT ![m] = to]
      /\ code' = [code EXCEPT ![m] = CodeAfter(m, to, why)]
      /\ count' = Shifted(count, {m}, status[m], to)
      /\ UNCHANGED <<job, sweep>>
  BY DEF ReportStatus
<1>2. ~(status[m] = "failed" /\ code[m] = "device_gone") /\ status[m] # to
  BY <1>1 DEF Moves, AllowedFrom
<1>3. \A b \in Batch : Uncounted(b)' = Uncounted(b) /\ {m} \cap Uncounted(b) = {}
  BY <1>1, <1>2, UncountedFailed DEF Uncounted
<1>4. status' = [n \in Message |-> IF n \in {m} THEN to ELSE status[n]]
  BY <1>1 DEF TypeOK
<1> DEFINE one == {m}
<1>5. one \in SUBSET Message /\ \A n \in one : status[n] = status[m]
  OBVIOUS
<1>6. /\ status' = [n \in Message |-> IF n \in one THEN to ELSE status[n]]
      /\ count' = Shifted(count, one, status[m], to)
      /\ \A b \in Batch : Uncounted(b)' = Uncounted(b) /\ one \cap Uncounted(b) = {}
  BY <1>1, <1>3, <1>4
<1> HIDE DEF one
<1>7. CountersMatch'
  BY <1>2, <1>5, <1>6, RowsMove
<1>8. \A w \in Waves : Recording(w) => m \notin job[w].rows
  BY <1>2 DEF JobsInv, RecordedStay
<1>9. JobsInv'
  BY <1>1, <1>8 DEF JobsInv, SnapshotFresh, RowsOfWave, RecordedStay, Recording, InWave,
                    NoSweep, TypeOK
<1>10. QED
  BY <1>7, <1>9

LEMMA CountersSend ==
  ASSUME TypeOK, HandedInv, JobsInv, CountersMatch, sweep = NoSweep,
         NEW b \in Batch, NEW delay \in 0..MaxDelay, Send(b, delay)
  PROVE  JobsInv' /\ CountersMatch'
<1>1. /\ status' = [m \in Message |-> IF m \in Recipients(b) THEN "queued" ELSE status[m]]
      /\ job' = [w \in Waves |-> IF w[1] = b THEN [NoJob EXCEPT !.state = "available"]
                                             ELSE job[w]]
      /\ UNCHANGED <<code, count, sweep>>
      /\ batch[b] = "none"
  BY DEF Send
<1>2. \A m \in Recipients(b) : m \in Message /\ status[m] = "none"
  BY <1>1 DEF HandedInv, Recipients
<1>3. \A w \in Waves : w[1] = b => ~Recording(w) \/ job[w].rows = {}
  <2> SUFFICES ASSUME NEW w \in Waves, w[1] = b, Recording(w), NEW m \in job[w].rows
               PROVE  FALSE
    OBVIOUS
  <2>1. m \in InWave(w)
    BY DEF JobsInv, RowsOfWave
  <2>2. m \in Recipients(b)
    BY <2>1 DEF InWave, WaveOf, Recipients
  <2>3. status[m] = "failed"
    BY DEF JobsInv, RecordedStay
  <2>4. QED
    BY <1>2, <2>2, <2>3
<1>4. \A w \in Waves : job'[w] = IF w[1] = b THEN [NoJob EXCEPT !.state = "available"]
                                             ELSE job[w]
  BY <1>1
<1>5. \A w \in Waves : w[1] = b => job'[w].state = "available" /\ job'[w].rows = {}
  BY <1>4 DEF NoJob
<1>6. \A w \in Waves : w[1] # b => job'[w] = job[w]
  BY <1>4
<1>7. JobsInv'
  <2>1. SnapshotFresh'
    BY <1>1 DEF SnapshotFresh, NoSweep
  <2>2. RowsOfWave'
    BY <1>5, <1>6 DEF JobsInv, RowsOfWave
  <2>3. RecordedStay'
    <3> SUFFICES ASSUME NEW w \in Waves, Recording(w)', NEW m \in job'[w].rows
                 PROVE  status'[m] = "failed" /\ code'[m] = "device_gone"
      BY DEF RecordedStay
    <3>1. w[1] # b /\ job'[w] = job[w] /\ Recording(w)
      BY <1>5, <1>6 DEF Recording
    <3>2. status[m] = "failed" /\ code[m] = "device_gone" /\ m \in Message
      BY <3>1 DEF JobsInv, RecordedStay, RowsOfWave, InWave
    <3>3. QED
      BY <1>1, <1>2, <3>2
  <2>4. QED
    BY <2>1, <2>2, <2>3 DEF JobsInv
<1>8. \A c \in Batch : \A s \in Counted : InStatus(c, s)' = InStatus(c, s)
  BY <1>1, <1>2 DEF InStatus, Counted, Recipients
<1>9. \A c \in Batch : Uncounted(c)' = Uncounted(c)
  BY <1>3, <1>5, <1>6 DEF Uncounted, Recording
<1>10. \A c \in Batch : \A s \in Counted : Tally(c, s)' = Tally(c, s)
  BY <1>8, <1>9 DEF Tally
<1>11. QED
  BY <1>1, <1>7, <1>10, CountersStay

(* The steps of a job that change nothing but where the job stands. *)
LEMMA CountersJobMoves ==
  ASSUME TypeOK, JobsInv, CountersMatch, UNCHANGED <<status, code, count, sweep>>,
         NEW w \in Waves, NEW r \in [state : JobStates, attempt : Nat, rows : SUBSET Message],
         job' = [job EXCEPT ![w] = r],
         r.rows \subseteq InWave(w),
         job[w].state # "counting", r.state # "counting",
         r.state \in {"recomputing", "announcing"} => Recording(w) /\ r.rows = job[w].rows
  PROVE  JobsInv' /\ CountersMatch'
<1>1. \A v \in Waves : job'[v] = IF v = w THEN r ELSE job[v]
  BY DEF TypeOK
<1>2. SnapshotFresh' /\ RowsOfWave'
  BY <1>1 DEF JobsInv, SnapshotFresh, RowsOfWave, InWave
<1>3. \A v \in Waves : Recording(v)' => Recording(v) /\ job'[v].rows = job[v].rows
  BY <1>1 DEF Recording
<1>4. RecordedStay'
  BY <1>3 DEF JobsInv, RecordedStay
<1>5. \A b \in Batch : Uncounted(b)' = Uncounted(b)
  BY <1>1 DEF Uncounted, Recipients
<1>6. \A b \in Batch : \A s \in Counted : Tally(b, s)' = Tally(b, s)
  BY <1>5 DEF Tally, InStatus
<1>7. CountersMatch'
  BY <1>6, CountersStay
<1>8. QED
  BY <1>2, <1>4, <1>7 DEF JobsInv

LEMMA CountersMarkFailed ==
  ASSUME TypeOK, JobsInv, CountersMatch, sweep = NoSweep, NEW w \in Waves, MarkFailed(w)
  PROVE  JobsInv' /\ CountersMatch'
<1> DEFINE rows == Failable(w)
           s1 == IF rows = {} THEN "finished" ELSE "counting"
<1>1. /\ job[w].state = "doomed"
      /\ status' = [m \in Message |-> IF m \in rows THEN "failed" ELSE status[m]]
      /\ code' = [m \in Message |-> IF m \in rows THEN "device_gone" ELSE code[m]]
      /\ job' = [job EXCEPT ![w].state = s1, ![w].rows = rows]
      /\ UNCHANGED <<count, sweep>>
  BY DEF MarkFailed, batchVars
<1>2. rows \subseteq job[w].rows /\ rows \in SUBSET Message
  BY DEF Failable, TypeOK
<1>3. \A m \in rows : status[m] = "queued"
  BY DEF Failable
<1>4. /\ \A v \in Waves \ {w} : job'[v] = job[v]
      /\ job'[w].state = s1 /\ job'[w].rows = rows
  BY <1>1 DEF TypeOK
<1>5. s1 \in {"finished", "counting"} /\ (s1 = "finished" => rows = {})
  OBVIOUS
<1> HIDE DEF rows, s1
<1>6. SnapshotFresh'
  BY <1>1 DEF SnapshotFresh, NoSweep
<1>7. RowsOfWave'
  BY <1>2, <1>4 DEF JobsInv, RowsOfWave, InWave
<1>8. RecordedStay'
  <2> SUFFICES ASSUME NEW v \in Waves, Recording(v)', NEW m \in job'[v].rows
               PROVE  status'[m] = "failed" /\ code'[m] = "device_gone"
    BY DEF RecordedStay
  <2>1. CASE v = w
    BY <1>1, <1>2, <1>4, <2>1
  <2>2. CASE v # w
    <3>1. Recording(v) /\ m \in job[v].rows /\ m \in Message
      BY <1>4, <2>2 DEF Recording, TypeOK
    <3>2. status[m] = "failed" /\ code[m] = "device_gone"
      BY <3>1 DEF JobsInv, RecordedStay
    <3>3. QED
      BY <1>1, <1>3, <3>1, <3>2
  <2>3. QED
    BY <2>1, <2>2
<1>9. \A b \in Batch : Uncounted(b)' = Uncounted(b) \cup (rows \cap Recipients(b))
  BY <1>1, <1>4, <1>5 DEF Uncounted, Recipients
<1>10. \A b \in Batch : \A s \in Counted :
          InStatus(b, s)' = IF s = "failed" THEN InStatus(b, s) \cup (rows \cap Recipients(b))
                                            ELSE InStatus(b, s)
  BY <1>1, <1>3 DEF InStatus, Recipients, Counted
<1>11. \A b \in Batch : \A s \in Counted : Tally(b, s)' = Tally(b, s)
  <2> SUFFICES ASSUME NEW b \in Batch, NEW s \in Counted
               PROVE  Tally(b, s)' = Tally(b, s)
    OBVIOUS
  <2>1. CASE s = "failed"
    <3>1. InStatus(b, s) \cap (rows \cap Recipients(b)) = {}
      BY <1>3, <2>1 DEF InStatus
    <3>2. QED
      BY <1>9, <1>10, <2>1, <3>1 DEF Tally
  <2>2. CASE s # "failed"
    BY <1>10, <2>2 DEF Tally
  <2>3. QED
    BY <2>1, <2>2
<1>12. QED
  BY <1>1, <1>6, <1>7, <1>8, <1>11, CountersStay DEF JobsInv

LEMMA CountersCountFailed ==
  ASSUME TypeOK, JobsInv, CountersMatch, NEW w \in Waves, CountFailed(w)
  PROVE  JobsInv' /\ CountersMatch'
<1> DEFINE rows == job[w].rows
<1>1. /\ job[w].state = "counting"
      /\ count' = Shifted(count, rows, "queued", "failed")
      /\ job' = [job EXCEPT ![w].state = "recomputing"]
      /\ UNCHANGED <<status, code, sweep>>
  BY DEF CountFailed, Step, messageVars
<1>2. /\ \A v \in Waves \ {w} : job'[v] = job[v]
      /\ job'[w].state = "recomputing" /\ job'[w].rows = rows
  BY <1>1 DEF TypeOK
<1>3. rows \in SUBSET Message /\ rows \subseteq InWave(w)
  BY DEF JobsInv, RowsOfWave, TypeOK
<1>4. \A m \in rows : status[m] = "failed"
  BY <1>1 DEF JobsInv, RecordedStay, Recording
<1>5. \A v \in Waves \ {w} : job[v].rows \cap rows = {}
  BY <1>3, WavesDisjoint DEF JobsInv, RowsOfWave
<1> HIDE DEF rows
<1>6. \A b \in Batch : /\ rows \cap Recipients(b) \subseteq Uncounted(b)
                       /\ Uncounted(b)' = Uncounted(b) \ (rows \cap Recipients(b))
  BY <1>1, <1>2, <1>5 DEF Uncounted, Recipients, rows
<1>7. \A b \in Batch : \A s \in Counted :
         LET R == rows \cap Recipients(b)
         IN  /\ s = "queued" => R \subseteq Tally(b, s) /\ Tally(b, s)' = Tally(b, s) \ R
             /\ s = "failed" => R \cap Tally(b, s) = {} /\ Tally(b, s)' = Tally(b, s) \cup R
             /\ s # "queued" /\ s # "failed" => Tally(b, s)' = Tally(b, s)
  <2> SUFFICES ASSUME NEW b \in Batch, NEW s \in Counted
               PROVE  LET R == rows \cap Recipients(b)
                      IN  /\ s = "failed" => /\ R \cap Tally(b, s) = {}
                                             /\ Tally(b, s)' = Tally(b, s) \cup R
                          /\ s # "failed" => Tally(b, s)' = Tally(b, s)
    BY DEF Counted
  <2>1. InStatus(b, s)' = InStatus(b, s)
    BY <1>1 DEF InStatus
  <2>2. s = "failed" => rows \cap Recipients(b) \subseteq InStatus(b, s)
    BY <1>4 DEF InStatus
  <2>3. QED
    BY <1>6, <2>1, <2>2 DEF Tally
<1>8. CountersMatch'
  BY <1>1, <1>3, <1>7, CountersShift
<1>9. JobsInv'
  BY <1>1, <1>2 DEF JobsInv, SnapshotFresh, RowsOfWave, RecordedStay, Recording, InWave, rows
<1>10. QED
  BY <1>8, <1>9

LEMMA CountersJobStep ==
  ASSUME TypeOK, JobsInv, CountersMatch, sweep = NoSweep, NEW w \in Waves, JobStep(w)
  PROVE  JobsInv' /\ CountersMatch'
<1>0. /\ job[w] \in [state : JobStates, attempt : Nat, rows : SUBSET Message]
      /\ job[w].rows \subseteq InWave(w)
  BY DEF TypeOK, JobsInv, RowsOfWave
<1>1. CASE LoadQueued(w)
  <2> DEFINE rows == {m \in InWave(w) : status[m] = "queued"}
             s == IF rows = {} THEN "finished" ELSE "loaded"
             r == [state |-> s, attempt |-> job[w].attempt + 1, rows |-> rows]
  <2>1. s \in {"finished", "loaded"} /\ rows \in SUBSET Message /\ rows \subseteq InWave(w)
    BY DEF InWave
  <2>2. job' = [job EXCEPT ![w] = r] /\ job[w].state = "available"
        /\ UNCHANGED <<status, code, count, sweep>>
    BY <1>1 DEF LoadQueued, messageVars, batchVars
  <2> HIDE DEF rows, s
  <2>3. r \in [state : JobStates, attempt : Nat, rows : SUBSET Message]
        /\ r.state = s /\ r.rows = rows
    BY <1>0, <2>1 DEF JobStates
  <2> HIDE DEF r
  <2>4. QED
    BY <2>1, <2>2, <2>3, CountersJobMoves
<1>2. ASSUME NEW to \in JobStates, Step(w, to), UNCHANGED <<status, code, count, sweep>>,
             job[w].state # "counting", to # "counting",
             to \in {"recomputing", "announcing"} => Recording(w)
      PROVE  JobsInv' /\ CountersMatch'
  <2> DEFINE r == [job[w] EXCEPT !.state = to]
  <2>1. job' = [job EXCEPT ![w] = r]
    BY <1>0, <1>2 DEF Step, TypeOK
  <2>2. /\ r \in [state : JobStates, attempt : Nat, rows : SUBSET Message]
        /\ r.state = to /\ r.rows = job[w].rows
    BY <1>0
  <2> HIDE DEF r
  <2>3. QED
    BY <1>0, <1>2, <2>1, <2>2, CountersJobMoves
<1>3. CASE ReadDevice(w)
  <2> DEFINE to == IF ~paired[WaveDevice(w)] \/ ~enabled[WaveDevice(w)] THEN "doomed"
                   ELSE IF ~push[WaveDevice(w)] THEN "finished" ELSE "pushing"
  <2>1. Step(w, to) /\ job[w].state = "loaded" /\ UNCHANGED <<status, code, count, sweep>>
    BY <1>3 DEF ReadDevice, messageVars, batchVars
  <2>2. to \in {"doomed", "finished", "pushing"}
    OBVIOUS
  <2> HIDE DEF to
  <2>3. QED
    BY <1>2, <2>1, <2>2 DEF JobStates
<1>4. CASE PushAccepted(w) \/ PushRejected(w)
  <2>1. Step(w, "finished") /\ job[w].state = "pushing"
        /\ UNCHANGED <<status, code, count, sweep>>
    BY <1>4 DEF PushAccepted, PushRejected, messageVars, batchVars
  <2>2. QED
    BY <1>2, <2>1 DEF JobStates
<1>5. CASE RecomputeFailed(w)
  <2>1. Step(w, "announcing") /\ job[w].state = "recomputing"
        /\ UNCHANGED <<status, code, count, sweep>>
    BY <1>5 DEF RecomputeFailed, messageVars
  <2>2. QED
    BY <1>2, <2>1 DEF JobStates, Recording
<1>6. CASE AnnounceFailed(w)
  <2>1. Step(w, "finished") /\ job[w].state = "announcing"
        /\ UNCHANGED <<status, code, count, sweep>>
    BY <1>6 DEF AnnounceFailed, batchVars
  <2>2. QED
    BY <1>2, <2>1 DEF JobStates
<1>7. QED
  BY <1>1, <1>3, <1>4, <1>5, <1>6, CountersMarkFailed, CountersCountFailed DEF JobStep

LEMMA CountersJobDies ==
  ASSUME TypeOK, JobsInv, CountersMatch, NEW w \in Waves, ~Recording(w), JobDies(w)
  PROVE  JobsInv' /\ CountersMatch'
<1> DEFINE s == IF job[w].attempt < MaxAttempts THEN "available" ELSE "finished"
           r == [job[w] EXCEPT !.state = s, !.rows = {}]
<1>1. job[w] \in [state : JobStates, attempt : Nat, rows : SUBSET Message]
  BY DEF TypeOK
<1>2. /\ job' = [job EXCEPT ![w] = r]
      /\ UNCHANGED <<status, code, count, sweep>>
  BY <1>1 DEF JobDies, TypeOK, messageVars, batchVars
<1>3. s \in {"available", "finished"}
  OBVIOUS
<1> HIDE DEF s
<1>4. /\ r \in [state : JobStates, attempt : Nat, rows : SUBSET Message]
      /\ r.state = s /\ r.rows = {}
  BY <1>1, <1>3 DEF JobStates
<1> HIDE DEF r
<1>5. QED
  BY <1>2, <1>3, <1>4, CountersJobMoves DEF Recording

LEMMA CountersSweepUpdate ==
  ASSUME TypeOK, JobsInv, CountersMatch, SweepUpdate
  PROVE  JobsInv' /\ CountersMatch'
<1> DEFINE Q == Swept("queued")
           D == Swept("dispatched")
           c1 == Shifted(count, Q, "queued", "unknown")
<1>1. /\ status' = [m \in Message |-> IF m \in Q \cup D THEN "unknown" ELSE status[m]]
      /\ code' = [m \in Message |->
                    IF m \in Q \cup D THEN SweepCode(sweep[m]) ELSE code[m]]
      /\ count' = Shifted(c1, D, "dispatched", "unknown")
      /\ sweep' = NoSweep
      /\ UNCHANGED job
  BY DEF SweepUpdate
<1>2. /\ Q \in SUBSET Message /\ D \in SUBSET Message /\ Q \cap D = {}
      /\ \A m \in Q : status[m] = "queued"
      /\ \A m \in D : status[m] = "dispatched"
  BY DEF Swept, JobsInv, SnapshotFresh
<1>3. c1 \in Counts
  BY <1>2, ShiftedIsCounts DEF TypeOK, Counts
<1> HIDE DEF Q, D
<1>4. JobsInv'
  <2>1. SnapshotFresh' /\ RowsOfWave'
    BY <1>1 DEF JobsInv, SnapshotFresh, RowsOfWave, NoSweep, InWave
  <2>2. RecordedStay'
    <3> SUFFICES ASSUME NEW w \in Waves, Recording(w)', NEW m \in job'[w].rows
                 PROVE  status'[m] = "failed" /\ code'[m] = "device_gone"
      BY DEF RecordedStay
    <3>1. Recording(w) /\ m \in job[w].rows /\ m \in Message
      BY <1>1 DEF Recording, TypeOK
    <3>2. status[m] = "failed" /\ code[m] = "device_gone"
      BY <3>1 DEF JobsInv, RecordedStay
    <3>3. QED
      BY <1>1, <1>2, <3>1, <3>2
  <2>3. QED
    BY <2>1, <2>2 DEF JobsInv
<1>5. ASSUME NEW b \in Batch, NEW s \in Counted
      PROVE  count'[b][s] = Cardinality(Tally(b, s)')
  <2> DEFINE Qb == Q \cap Recipients(b)
             Db == D \cap Recipients(b)
             T == Tally(b, s)
             T1 == IF s = "unknown" THEN T \cup Qb ELSE T
             T2 == Tally(b, s)'
  <2>1. T \in SUBSET Message /\ count[b] \in [Counted -> Nat] /\ count[b][s] = Cardinality(T)
    BY TallyIsSet, CountersMatchTally DEF TypeOK
  <2>2. InStatus(b, s)' = IF s = "unknown" THEN InStatus(b, s) \cup Qb \cup Db
                          ELSE IF s = "dispatched" THEN InStatus(b, s) \ Db
                          ELSE InStatus(b, s)
    BY <1>1, <1>2 DEF InStatus, Recipients, Counted
  <2>3. s \in {"unknown", "dispatched"} => T = InStatus(b, s) /\ T2 = InStatus(b, s)'
    BY DEF Tally
  <2>4. s \notin {"unknown", "dispatched"} => T2 = T
    BY <1>1, <2>2 DEF Tally, Uncounted
  <2>5. Qb \in SUBSET Message /\ Db \in SUBSET Message /\ T1 \in SUBSET Message
    BY <1>2, <2>1
  <2>6. s = "unknown" => Qb \cap T = {} /\ Db \cap T1 = {}
    BY <1>2, <2>3 DEF InStatus
  <2>7. s = "dispatched" => Db \subseteq T1
    BY <1>2, <2>3 DEF InStatus, Recipients
  <2>8. s # "queued"
    BY DEF Counted
  <2>9. c1[b][s] = Moved(count[b], "queued", "unknown", Cardinality(Qb))[s]
        /\ c1[b] \in [Counted -> Nat]
    BY <1>3 DEF Shifted, Counts
  <2>10. count'[b][s] = Moved(c1[b], "dispatched", "unknown", Cardinality(Db))[s]
    BY <1>1 DEF Shifted
  <2>11. /\ s = "unknown" => T1 = T \cup Qb /\ T2 = T1 \cup Db
         /\ s # "unknown" => T1 = T
         /\ s = "dispatched" => T2 = T1 \ Db
         /\ s \notin {"unknown", "dispatched"} => T2 = T1
    BY <2>2, <2>3, <2>4
  <2> HIDE DEF c1, T, T1, T2, Qb, Db
  <2>12. c1[b][s] = Cardinality(T1)
    BY <2>1, <2>5, <2>6, <2>8, <2>9, <2>11, CounterMoves
  <2>13. Moved(c1[b], "dispatched", "unknown", Cardinality(Db))[s] = Cardinality(T2)
    BY <2>5, <2>6, <2>7, <2>9, <2>11, <2>12, CounterMoves
  <2>14. QED
    BY <2>10, <2>13 DEF T2
<1>6. QED
  BY <1>4, <1>5, CountersMatchTallyNext

LEMMA CountersSweep ==
  ASSUME TypeOK, JobsInv, CountersMatch, SweepStep
  PROVE  JobsInv' /\ CountersMatch'
<1>1. CASE SweepSnapshot
  <2>1. UNCHANGED <<status, code, count, job>>
    BY <1>1 DEF SweepSnapshot, messageVars, batchVars
  <2>2. \A m \in Message : sweep'[m] # "no" =>
           sweep'[m] = status[m] /\ status[m] \in {"queued", "dispatched"}
    BY <1>1 DEF SweepSnapshot, Stale
  <2>3. JobsInv'
    BY <2>1, <2>2 DEF JobsInv, SnapshotFresh, RowsOfWave, RecordedStay, Recording, InWave
  <2>4. QED
    BY <2>1, <2>3, CountersElse
<1>2. CASE SweepUpdate
  BY <1>2, CountersSweepUpdate
<1>3. CASE SweepRollsBack
  <2>1. UNCHANGED <<status, code, count, job>> /\ sweep' = NoSweep
    BY <1>3 DEF SweepRollsBack, messageVars, batchVars
  <2>2. JobsInv'
    BY <2>1 DEF JobsInv, SnapshotFresh, RowsOfWave, RecordedStay, Recording, InWave, NoSweep
  <2>3. QED
    BY <2>1, <2>2, CountersElse
<1>4. QED
  BY <1>1, <1>2, <1>3 DEF SweepStep

(* The steps that change none of what the counters depend on. *)
LEMMA CountersAside ==
  ASSUME JobsInv, CountersMatch, UNCHANGED <<status, code, count, job, sweep>>
  PROVE  JobsInv' /\ CountersMatch'
<1>1. JobsInv'
  BY DEF JobsInv, SnapshotFresh, RowsOfWave, RecordedStay, Recording, InWave
<1>2. QED
  BY <1>1, CountersElse

LEMMA CountersNext ==
    TypeOK /\ HandedInv /\ JobsInv /\ CountersMatch /\ [SerialNext]_vars
       => JobsInv' /\ CountersMatch'
<1> SUFFICES ASSUME TypeOK, HandedInv, JobsInv, CountersMatch, [SerialNext]_vars
             PROVE  JobsInv' /\ CountersMatch'
  OBVIOUS
<1>1. CASE sweep = NoSweep /\ \E d \in Device : DeviceStep(d)
  <2>1. UNCHANGED <<status, code, count, job, sweep>>
    BY <1>1 DEF DeviceStep, PairDevice, UnpairDevice, UpdateDevice, RefreshPushToken,
                messageVars, batchVars
  <2>2. QED
    BY <2>1, CountersAside
<1>2. CASE sweep = NoSweep /\ \E b \in Batch, delay \in 0..MaxDelay : Send(b, delay)
  BY <1>2, CountersSend
<1>3. CASE sweep = NoSweep /\ \E w \in Waves : JobStep(w)
  BY <1>3, CountersJobStep
<1>4. CASE sweep = NoSweep /\ \E d \in Device : RequestStep(d)
  <2>1. PICK d \in Device : RequestStep(d)
    BY <1>4
  <2>2. CASE ReportIgnored(d)
    <3>1. UNCHANGED <<status, code, count, job, sweep>>
      BY <2>2 DEF ReportIgnored, messageVars, batchVars
    <3>2. QED
      BY <3>1, CountersAside
  <2>3. QED
    BY <1>4, <2>1, <2>2, CountersFetch, CountersReport DEF RequestStep
<1>5. CASE sweep = NoSweep /\ Tick
  <2>1. UNCHANGED <<status, code, count, job, sweep>>
    BY <1>5 DEF Tick, batchVars
  <2>2. QED
    BY <2>1, CountersAside
<1>6. CASE \E w \in Waves : sweep = NoSweep /\ ~Recording(w) /\ JobDies(w)
  BY <1>6, CountersJobDies
<1>7. CASE SweepStep
  BY <1>7, CountersSweep
<1>8. CASE UNCHANGED vars
  <2>1. UNCHANGED <<status, code, count, job, sweep>>
    BY <1>8 DEF vars, messageVars, batchVars
  <2>2. QED
    BY <2>1, CountersAside
<1>9. QED
  BY <1>1, <1>2, <1>3, <1>4, <1>5, <1>6, <1>7, <1>8 DEF SerialNext, Transaction

LEMMA CountersInit == Init => JobsInv /\ CountersMatch
<1> SUFFICES ASSUME Init PROVE JobsInv /\ CountersMatch
  OBVIOUS
<1>1. /\ status = [m \in Message |-> "none"]
      /\ count = [b \in Batch |-> NoCounts]
      /\ job = [w \in Waves |-> NoJob]
      /\ sweep = NoSweep
  BY DEF Init
<1>2. JobsInv
  BY <1>1 DEF JobsInv, SnapshotFresh, RowsOfWave, RecordedStay, Recording, NoJob, NoSweep
<1>3. \A b \in Batch : \A s \in Counted : count[b][s] = 0 /\ Tally(b, s) = {}
  BY <1>1 DEF NoCounts, Tally, InStatus, Recipients, Counted
<1>4. \A b \in Batch : \A s \in Counted : count[b][s] = Cardinality(Tally(b, s))
  BY <1>3, FS_EmptySet, Zenon
<1>5. QED
  BY <1>2, <1>4, CountersMatchTally

(* A serial step is a step of the program. *)
LEMMA SerialIsNext == [SerialNext]_vars => [Next]_vars
BY DEF SerialNext, Next

(* The counters of every batch equal what a scan of its messages would     *)
(* find, whatever phones, jobs, requests and sweeps do, when a sweep's     *)
(* statement overlaps no other transaction and a job does not die between  *)
(* failing rows and counting them.                                         *)
THEOREM CountersMatchHolds == SerialSpec => []CountersMatch
<1>1. Init => TypeOK /\ HandedInv /\ JobsInv /\ CountersMatch
  BY InitTypes, HandedInit, CountersInit
<1>2. TypeOK /\ HandedInv /\ JobsInv /\ CountersMatch /\ [SerialNext]_vars
         => (TypeOK /\ HandedInv /\ JobsInv /\ CountersMatch)'
  BY NextTypes, HandedNext, CountersNext, SerialIsNext
<1>3. QED
  BY <1>1, <1>2, PTL DEF SerialSpec

-----------------------------------------------------------------------------
(***************************************************************************)
(* The record implements the lifecycle the API promises.  Every step takes *)
(* every message to where it was or to a state After allows: a job fails   *)
(* rows that are still queued, the sweep rows that are still as its        *)
(* snapshot saw them (SnapshotFresh), a report what AllowedFrom lets it.   *)
(***************************************************************************)
Onto(m) == Seen'[m] = Seen[m] \/ Seen'[m] \in States!After(Seen[m])

LEMMA SeenAt ==
  ASSUME NEW m \in Message
  PROVE  /\ Seen[m] = IF status[m] = "failed" /\ code[m] = "interrupted"
                      THEN "guessed" ELSE status[m]
         /\ Seen'[m] = IF status'[m] = "failed" /\ code'[m] = "interrupted"
                       THEN "guessed" ELSE status'[m]
BY DEF Seen

LEMMA OntoStay ==
  ASSUME UNCHANGED <<status, code>>, NEW m \in Message
  PROVE  Onto(m)
BY DEF Onto, Seen

LEMMA OntoSend ==
  ASSUME HandedInv, NEW b \in Batch, NEW delay \in 0..MaxDelay, Send(b, delay),
         NEW m \in Message
  PROVE  Onto(m)
<1>1. /\ batch[b] = "none" /\ UNCHANGED code
      /\ status'[m] = IF m \in Recipients(b) THEN "queued" ELSE status[m]
  BY DEF Send
<1>2. m \in Recipients(b) => status[m] = "none"
  BY <1>1 DEF HandedInv
<1>3. QED
  BY <1>1, <1>2, SeenAt DEF Onto, States!After

LEMMA OntoJob ==
  ASSUME NEW w \in Waves, JobStep(w), NEW m \in Message
  PROVE  Onto(m)
<1>1. CASE MarkFailed(w)
  <2>1. /\ status'[m] = IF m \in Failable(w) THEN "failed" ELSE status[m]
        /\ code'[m] = IF m \in Failable(w) THEN "device_gone" ELSE code[m]
    BY <1>1 DEF MarkFailed
  <2>2. m \in Failable(w) => status[m] = "queued"
    BY DEF Failable
  <2>3. QED
    BY <2>1, <2>2, SeenAt DEF Onto, States!After
<1>2. CASE ~MarkFailed(w)
  <2>1. UNCHANGED <<status, code>>
    BY <1>2 DEF JobStep, LoadQueued, ReadDevice, PushAccepted, PushRejected, CountFailed,
                RecomputeFailed, AnnounceFailed, messageVars
  <2>2. QED
    BY <2>1, OntoStay
<1>3. QED
  BY <1>1, <1>2

LEMMA OntoRequest ==
  ASSUME TypeOK, NEW d \in Device, RequestStep(d), NEW m \in Message
  PROVE  Onto(m)
<1>1. ASSUME NEW rows \in SUBSET Message, FetchOutbox(d, rows)
      PROVE  Onto(m)
  <2>1. m \in rows => status[m] \in {"queued", "dispatched"}
    BY <1>1 DEF FetchOutbox, Offered
  <2>2. status'[m] = (IF m \in rows THEN "dispatched" ELSE status[m]) /\ UNCHANGED code
    BY <1>1 DEF FetchOutbox
  <2>3. QED
    BY <2>1, <2>2, SeenAt DEF Onto, States!After
<1>2. ASSUME NEW n \in Message, NEW to \in {"sent", "delivered", "failed"},
             NEW why \in {"interrupted", "refused"}, ReportStatus(d, n, to, why)
      PROVE  Onto(m)
  <2>1. /\ Moves(n, to)
        /\ status'[m] = IF m = n THEN to ELSE status[m]
        /\ code'[m] = IF m = n THEN CodeAfter(n, to, why) ELSE code[m]
    BY <1>2 DEF ReportStatus, TypeOK
  <2>2. CASE m = n
    BY <2>1, <2>2, SeenAt DEF Onto, States!After, Moves, AllowedFrom, CodeAfter
  <2>3. CASE m # n
    BY <2>1, <2>3, SeenAt DEF Onto
  <2>4. QED
    BY <2>2, <2>3
<1>3. CASE ReportIgnored(d)
  BY <1>3, OntoStay DEF ReportIgnored, messageVars
<1>4. QED
  BY <1>1, <1>2, <1>3 DEF RequestStep

LEMMA OntoSweep ==
  ASSUME JobsInv, SweepStep, NEW m \in Message
  PROVE  Onto(m)
<1>1. CASE SweepUpdate
  <2> DEFINE rows == Swept("queued") \cup Swept("dispatched")
  <2>1. m \in rows => status[m] \in {"queued", "dispatched"}
    BY DEF Swept, JobsInv, SnapshotFresh
  <2>2. /\ status'[m] = IF m \in rows THEN "unknown" ELSE status[m]
        /\ code'[m] = IF m \in rows THEN SweepCode(sweep[m]) ELSE code[m]
    BY <1>1 DEF SweepUpdate
  <2> HIDE DEF rows
  <2>3. QED
    BY <2>1, <2>2, SeenAt DEF Onto, States!After
<1>2. CASE SweepSnapshot \/ SweepRollsBack
  BY <1>2, OntoStay DEF SweepSnapshot, SweepRollsBack, messageVars
<1>3. QED
  BY <1>1, <1>2 DEF SweepStep

LEMMA OntoNext == TypeOK /\ HandedInv /\ JobsInv /\ [SerialNext]_vars => [States!Move]_Seen
<1> SUFFICES ASSUME TypeOK, HandedInv, JobsInv, [SerialNext]_vars, NEW m \in Message
             PROVE  Onto(m)
  BY DEF States!Move, Onto
<1>1. CASE \E d \in Device : DeviceStep(d)
  BY <1>1, OntoStay DEF DeviceStep, PairDevice, UnpairDevice, UpdateDevice, RefreshPushToken,
                        messageVars
<1>2. CASE \E w \in Waves : JobDies(w)
  BY <1>2, OntoStay DEF JobDies, messageVars
<1>3. CASE Tick \/ UNCHANGED vars
  BY <1>3, OntoStay DEF Tick, vars, messageVars
<1>4. QED
  BY <1>1, <1>2, <1>3, OntoSend, OntoJob, OntoRequest, OntoSweep
     DEF SerialNext, Transaction

(* The record implements MessageStates: a message moves only as the API    *)
(* says it may, under the assumptions of CountersMatchHolds.               *)
THEOREM FollowsLifecycleHolds == SerialSpec => FollowsLifecycle
<1>1. Init => States!Init
  BY DEF Init, States!Init, Seen
<1>2. Init => TypeOK /\ HandedInv /\ JobsInv /\ CountersMatch
  BY InitTypes, HandedInit, CountersInit
<1>3. TypeOK /\ HandedInv /\ JobsInv /\ CountersMatch /\ [SerialNext]_vars
         => (TypeOK /\ HandedInv /\ JobsInv /\ CountersMatch)'
  BY NextTypes, HandedNext, CountersNext, SerialIsNext
<1>4. QED
  BY <1>1, <1>2, <1>3, OntoNext, PTL DEF SerialSpec, FollowsLifecycle, States!Spec

-----------------------------------------------------------------------------
(***************************************************************************)
(* A late truthful report is taken whole, in the program as it is.  Both   *)
(* parts are inductive beside HandedInv: codes fit statuses, and only a    *)
(* report that is counted makes a message "sent".                          *)
(***************************************************************************)
CodeFits(s, c) ==
    /\ s = "failed" => c \in {"interrupted", "refused", "device_gone"}
    /\ s = "unknown" => c \in {"not_dispatched", "no_report"}
    /\ s \notin {"failed", "unknown"} => c = "none"

CodesFit == \A m \in Message : CodeFits(status[m], code[m])

SentOf(d) == {m \in Message : DevOf(m) = d /\ status[m] = "sent"}
SentCovered == \A d \in Device : Cardinality(SentOf(d)) <= sentCount[d]

(* Together they are the property. *)
LEMMA LateTruthParts == LateTruthTaken <=> CodesFit /\ SentCovered
BY DEF LateTruthTaken, CodesFit, CodeFits, SentCovered, SentOf

(* A message that is not newly called sent needs no count. *)
LEMMA SentCoveredKept ==
  ASSUME TypeOK, SentCovered, sentCount' = sentCount,
         \A m \in Message : status'[m] = "sent" => status[m] = "sent"
  PROVE  SentCovered'
<1> SUFFICES ASSUME NEW d \in Device PROVE Cardinality(SentOf(d)') <= sentCount'[d]
  BY DEF SentCovered
<1>1. SentOf(d)' \subseteq SentOf(d) /\ SentOf(d) \in SUBSET Message
  BY DEF SentOf
<1>2. Cardinality(SentOf(d)') <= Cardinality(SentOf(d))
  BY <1>1, RowsAreFinite, FS_Subset
<1>3. Cardinality(SentOf(d)') \in Nat /\ Cardinality(SentOf(d)) \in Nat
  BY <1>1, RowsAreFinite
<1>4. Cardinality(SentOf(d)) <= sentCount[d] /\ sentCount[d] \in Nat
  BY DEF SentCovered, TypeOK
<1> HIDE DEF SentOf
<1> QED
  BY <1>2, <1>3, <1>4

(* At first no message has a code, and none is sent. *)
LEMMA LateInit == Init => CodesFit /\ SentCovered
<1> SUFFICES ASSUME Init PROVE CodesFit /\ SentCovered
  OBVIOUS
<1>1. CodesFit
  BY DEF Init, CodesFit, CodeFits
<1>2. \A d \in Device : SentOf(d) = {} /\ sentCount[d] = 0
  BY DEF Init, SentOf
<1>3. QED
  BY <1>1, <1>2, FS_EmptySet DEF SentCovered

(* A report gives a failure its code, takes any other, and counts. *)
LEMMA LateReport ==
  ASSUME TypeOK, CodesFit, SentCovered, NEW d \in Device,
         NEW m \in Message, NEW to \in {"sent", "delivered", "failed"},
         NEW why \in {"interrupted", "refused"}, ReportStatus(d, m, to, why)
  PROVE  CodesFit' /\ SentCovered'
<1>1. /\ DevOf(m) = d
      /\ \A n \in Message : status'[n] = IF n = m THEN to ELSE status[n]
      /\ \A n \in Message : code'[n] = IF n = m THEN CodeAfter(m, to, why) ELSE code[n]
  BY DEF ReportStatus, TypeOK
<1>2. CodesFit'
  BY <1>1 DEF CodesFit, CodeFits, CodeAfter
<1>3. ASSUME NEW e \in Device PROVE Cardinality(SentOf(e)') <= sentCount'[e]
  <2>1. SentOf(e) \in SUBSET Message /\ SentOf(e)' \in SUBSET Message
    BY DEF SentOf
  <2>2. /\ IsFiniteSet(SentOf(e)) /\ Cardinality(SentOf(e)) \in Nat
        /\ IsFiniteSet(SentOf(e)') /\ Cardinality(SentOf(e)') \in Nat
    BY <2>1, RowsAreFinite
  <2>3. Cardinality(SentOf(e)) <= sentCount[e] /\ sentCount[e] \in Nat
    BY DEF SentCovered, TypeOK
  <2>4. CASE to = "sent" /\ e = d
    <3>1. SentOf(e)' \subseteq SentOf(e) \cup {m}
      BY <1>1 DEF SentOf
    <3>2. /\ IsFiniteSet(SentOf(e) \cup {m})
          /\ Cardinality(SentOf(e) \cup {m}) \in {Cardinality(SentOf(e)), Cardinality(SentOf(e)) + 1}
      BY <2>2, FS_AddElement
    <3>3. Cardinality(SentOf(e)') <= Cardinality(SentOf(e) \cup {m})
      BY <3>1, <3>2, FS_Subset
    <3>4. sentCount'[e] = sentCount[e] + 1
      BY <2>4 DEF ReportStatus, SentMore, TypeOK
    <3> QED
      BY <2>2, <2>3, <3>2, <3>3, <3>4
  <2>5. CASE ~(to = "sent" /\ e = d)
    <3>1. SentOf(e)' \subseteq SentOf(e)
      BY <1>1, <2>5 DEF SentOf
    <3>2. Cardinality(SentOf(e)') <= Cardinality(SentOf(e))
      BY <2>2, <3>1, FS_Subset
    <3>3. sentCount'[e] = sentCount[e]
      BY <2>5 DEF ReportStatus, SentMore, TypeOK
    <3> QED
      BY <2>2, <2>3, <3>2, <3>3
  <2> QED
    BY <2>4, <2>5
<1> QED
  BY <1>2, <1>3 DEF SentCovered

(* Every other step says of a message that it is on its way, failed for the *)
(* phone is gone, or unknown, with the code that belongs to that.           *)
LEMMA LateElse ==
  ASSUME TypeOK, CodesFit, SentCovered, sentCount' = sentCount,
         \A m \in Message :
            \/ status'[m] = status[m] /\ code'[m] = code[m]
            \/ /\ status[m] \notin {"failed", "unknown"}
               /\ status'[m] \in {"queued", "dispatched"} /\ code'[m] = code[m]
            \/ status'[m] = "failed" /\ code'[m] = "device_gone"
            \/ status'[m] = "unknown" /\ code'[m] \in {"not_dispatched", "no_report"}
  PROVE  CodesFit' /\ SentCovered'
<1>1. CodesFit'
  BY DEF CodesFit, CodeFits
<1>2. SentCovered'
  BY SentCoveredKept
<1> QED
  BY <1>1, <1>2

(* Any step. *)
LEMMA LateNext ==
    TypeOK /\ HandedInv /\ CodesFit /\ SentCovered /\ [Next]_vars => CodesFit' /\ SentCovered'
<1> SUFFICES ASSUME TypeOK, HandedInv, CodesFit, SentCovered, [Next]_vars
             PROVE  CodesFit' /\ SentCovered'
  OBVIOUS
<1>0. ASSUME UNCHANGED <<status, code, sentCount>> PROVE CodesFit' /\ SentCovered'
  BY <1>0, LateElse
<1>1. CASE \E d \in Device : DeviceStep(d)
  BY <1>0, <1>1 DEF DeviceStep, PairDevice, UnpairDevice, UpdateDevice, RefreshPushToken,
                    messageVars
<1>2. ASSUME NEW b \in Batch, NEW delay \in 0..MaxDelay, Send(b, delay)
      PROVE  CodesFit' /\ SentCovered'
  <2>1. \A m \in Recipients(b) : status[m] = "none"
    BY <1>2 DEF Send, HandedInv
  <2>2. /\ \A m \in Message : status'[m] = IF m \in Recipients(b) THEN "queued" ELSE status[m]
        /\ UNCHANGED <<code, sentCount>>
    BY <1>2 DEF Send, deviceVars
  <2> QED
    BY <2>1, <2>2, LateElse
<1>3. ASSUME NEW w \in Waves, JobStep(w) PROVE CodesFit' /\ SentCovered'
  <2>1. CASE MarkFailed(w)
    <3>1. /\ \A m \in Message : status'[m] = IF m \in Failable(w) THEN "failed" ELSE status[m]
          /\ \A m \in Message : code'[m] = IF m \in Failable(w) THEN "device_gone" ELSE code[m]
          /\ sentCount' = sentCount
      BY <2>1 DEF MarkFailed, deviceVars
    <3> QED
      BY <3>1, LateElse
  <2>2. CASE ~MarkFailed(w)
    <3>1. UNCHANGED <<status, code, sentCount>>
      BY <1>3, <2>2 DEF JobStep, LoadQueued, ReadDevice, PushAccepted, PushRejected, CountFailed,
                        RecomputeFailed, AnnounceFailed, messageVars, deviceVars
    <3> QED
      BY <1>0, <3>1
  <2> QED
    BY <2>1, <2>2
<1>4. ASSUME NEW d \in Device, RequestStep(d) PROVE CodesFit' /\ SentCovered'
  <2>1. ASSUME NEW rows \in SUBSET Message, FetchOutbox(d, rows)
        PROVE  CodesFit' /\ SentCovered'
    <3>1. \A m \in rows : status[m] \in {"queued", "dispatched"}
      BY <2>1 DEF FetchOutbox, Offered
    <3>2. /\ \A m \in Message : status'[m] = IF m \in rows THEN "dispatched" ELSE status[m]
          /\ UNCHANGED <<code, sentCount>>
      BY <2>1 DEF FetchOutbox, deviceVars
    <3> QED
      BY <3>1, <3>2, LateElse
  <2>2. CASE ReportIgnored(d)
    BY <1>0, <2>2 DEF ReportIgnored, messageVars
  <2> QED
    BY <1>4, <2>1, <2>2, LateReport DEF RequestStep
<1>5. CASE Tick
  BY <1>0, <1>5 DEF Tick
<1>6. CASE \E w \in Waves : JobDies(w)
  BY <1>0, <1>6 DEF JobDies, messageVars, deviceVars
<1>7. CASE SweepUpdate
  <2> DEFINE rows == Swept("queued") \cup Swept("dispatched")
  <2>1. /\ \A m \in Message : status'[m] = IF m \in rows THEN "unknown" ELSE status[m]
        /\ \A m \in Message : code'[m] = IF m \in rows THEN SweepCode(sweep[m]) ELSE code[m]
        /\ sentCount' = sentCount
    BY <1>7 DEF SweepUpdate, deviceVars
  <2>2. \A m \in Message : SweepCode(sweep[m]) \in {"not_dispatched", "no_report"}
    BY DEF SweepCode
  <2> HIDE DEF rows
  <2> QED
    BY <2>1, <2>2, LateElse
<1>8. CASE SweepSnapshot \/ SweepRollsBack
  BY <1>0, <1>8 DEF SweepSnapshot, SweepRollsBack, messageVars, deviceVars
<1>9. CASE UNCHANGED vars
  BY <1>0, <1>9 DEF vars, messageVars, deviceVars
<1> QED
  BY <1>1, <1>2, <1>3, <1>4, <1>5, <1>6, <1>7, <1>8, <1>9 DEF Next, Transaction, SweepStep

(* A late truthful report clears the code the sweep or an interrupted      *)
(* failure left (TransitionMessage), and the phone's lifetime counter      *)
(* covers every message the API calls sent (AddDeviceCounts), whatever     *)
(* sweeps, jobs and phones do.                                             *)
THEOREM LateTruthTakenHolds == Spec => []LateTruthTaken
<1>1. TypeOK /\ HandedInv /\ CodesFit /\ SentCovered /\ [Next]_vars
         => (TypeOK /\ HandedInv /\ CodesFit /\ SentCovered)'
  BY NextTypes, HandedNext, LateNext
<1>2. Init => TypeOK /\ HandedInv /\ CodesFit /\ SentCovered
  BY InitTypes, HandedInit, LateInit
<1>3. CodesFit /\ SentCovered => LateTruthTaken
  BY LateTruthParts
<1>4. QED
  BY <1>1, <1>2, <1>3, PTL DEF Spec

-----------------------------------------------------------------------------
(***************************************************************************)
(* What the owner is told, when sweeps run alone and failQueued is not cut *)
(* short.  A batch's status and completion are what its counters say,      *)
(* unless a job has moved the counters and not come to recompute them.     *)
(***************************************************************************)
Recomputing(b) == \E w \in Waves : w[1] = b /\ job[w].state = "recomputing"

AsCounted(b) ==
    /\ batch[b] = StatusFor(count[b], Size(b))
    /\ closed[b] <=> Size(b) - Done(count[b]) = 0

BatchesFit ==
    /\ \A b \in Batch : batch[b] = "none" => ~closed[b]
    /\ \A b \in Batch : batch[b] # "none" => Recipients(b) # {}
    /\ \A b \in Batch : batch[b] # "none" => Recomputing(b) \/ AsCounted(b)
    /\ \A w \in Waves : job[w].state \in {"counting", "recomputing"} => job[w].rows # {}

(* Every outcome was announced, or a job is about to. *)
OutcomesAnnounced ==
    \A m \in Message : status[m] \in Resolved =>
        \/ announced[m] = status[m]
        \/ \E w \in Waves : Recording(w) /\ m \in job[w].rows

(* What is said not to have been dispatched was not. *)
SaidUnsent == \A m \in Message : code[m] = "not_dispatched" => ~handed[m]

(* Counters without rows of a batch leave it alone. *)
LEMMA NothingShifts ==
  ASSUME NEW c \in Counts, NEW rows, NEW from, NEW to, NEW b \in Batch,
         rows \cap Recipients(b) = {}
  PROVE  Shifted(c, rows, from, to)[b] = c[b]
<1>1. Cardinality(rows \cap Recipients(b)) = 0
  BY FS_EmptySet, Zenon
<1>2. Shifted(c, rows, from, to)[b] = Moved(c[b], from, to, 0)
  BY <1>1 DEF Shifted
<1>3. c[b] \in [Counted -> Nat]
  BY DEF Counts
<1>4. Moved(c[b], from, to, 0) = [s \in Counted |-> c[b][s]]
  BY <1>3 DEF Moved
<1> QED
  BY <1>2, <1>3, <1>4

(* A batch whose status is recomputed is as counted. *)
LEMMA RecomputedIsCounted ==
  ASSUME NEW bs, Recompute(count', bs), NEW b \in Batch, b \in bs
  PROVE  AsCounted(b)' /\ batch'[b] # "none"
<1>1. /\ batch'[b] = StatusFor(count'[b], Size(b))
      /\ closed'[b] = (Size(b) - Done(count'[b]) = 0)
  BY DEF Recompute
<1>2. StatusFor(count'[b], Size(b)) # "none"
  BY DEF StatusFor
<1>3. Size(b)' = Size(b)
  BY DEF Size, Recipients
<1> QED
  BY <1>1, <1>2, <1>3 DEF AsCounted

(* A transaction that moves counters and recomputes what it moved. *)
LEMMA BatchesMoved ==
  ASSUME TypeOK, BatchesFit, NEW bs, Recompute(count', bs), job' = job,
         \A b \in Batch : b \in bs => batch[b] # "none",
         \A b \in Batch : b \notin bs => count'[b] = count[b]
  PROVE  BatchesFit'
<1>1. ASSUME NEW b \in Batch
      PROVE  /\ batch'[b] = "none" => ~closed'[b]
             /\ batch'[b] # "none" => Recipients(b) # {}
             /\ batch'[b] # "none" => Recomputing(b)' \/ AsCounted(b)'
  <2>1. CASE b \in bs
    BY <2>1, RecomputedIsCounted DEF BatchesFit
  <2>2. CASE b \notin bs
    <3>1. batch'[b] = batch[b] /\ closed'[b] = closed[b] /\ count'[b] = count[b]
      BY <2>2 DEF Recompute
    <3>2. AsCounted(b) => AsCounted(b)'
      BY <3>1 DEF AsCounted, Size, Recipients
    <3>3. Recomputing(b) => Recomputing(b)'
      BY DEF Recomputing
    <3> QED
      BY <3>1, <3>2, <3>3 DEF BatchesFit
  <2> QED
    BY <2>1, <2>2
<1>2. \A w \in Waves : job'[w].state \in {"counting", "recomputing"} => job'[w].rows # {}
  BY DEF BatchesFit
<1>3. \A b \in Batch : Recipients(b)' = Recipients(b)
  BY DEF Recipients
<1> QED
  BY <1>1, <1>2, <1>3 DEF BatchesFit

(* A step of a job that neither moves counters nor is about to. *)
LEMMA BatchesJobMoves ==
  ASSUME TypeOK, BatchesFit, UNCHANGED <<count, batch, closed>>,
         \A w \in Waves : job[w].state = "recomputing" => job'[w].state = "recomputing",
         \A w \in Waves : job'[w].state \in {"counting", "recomputing"} => job'[w].rows # {}
  PROVE  BatchesFit'
<1>1. \A b \in Batch : Recomputing(b) => Recomputing(b)'
  BY DEF Recomputing
<1>2. \A b \in Batch : AsCounted(b) => AsCounted(b)'
  BY DEF AsCounted, Size, Recipients
<1>3. \A b \in Batch : Recipients(b)' = Recipients(b)
  BY DEF Recipients
<1> QED
  BY <1>1, <1>2, <1>3 DEF BatchesFit

(* At first there is no batch. *)
LEMMA BatchesInit == Init => BatchesFit
<1> SUFFICES ASSUME Init PROVE BatchesFit
  OBVIOUS
<1>1. \A w \in Waves : job[w].state = "none"
  BY DEF Init, NoJob
<1> QED
  BY <1>1 DEF Init, BatchesFit

(* A new batch has counted nothing. *)
LEMMA BatchesSend ==
  ASSUME TypeOK, HandedInv, CountersMatch, BatchesFit,
         NEW b \in Batch, NEW delay \in 0..MaxDelay, Send(b, delay)
  PROVE  BatchesFit'
<1>1. /\ batch[b] = "none" /\ Recipients(b) # {}
      /\ batch' = [batch EXCEPT ![b] = "queued"]
      /\ \A w \in Waves : job'[w] = IF w[1] = b THEN [NoJob EXCEPT !.state = "available"]
                                                ELSE job[w]
      /\ UNCHANGED <<count, closed>>
  BY DEF Send
<1>2. \A w \in Waves : w[1] = b => job'[w].state = "available"
  BY <1>1 DEF NoJob
<1>3. \A w \in Waves : w[1] # b => job'[w] = job[w]
  BY <1>1
<1>4. AsCounted(b)'
  <2>1. \A s \in Counted : count[b][s] = 0
    <3> SUFFICES ASSUME NEW s \in Counted PROVE count[b][s] = 0
      OBVIOUS
    <3>1. Tally(b, s) = {}
      BY <1>1 DEF HandedInv, Tally, InStatus, Counted
    <3>2. count[b][s] = Cardinality(Tally(b, s))
      BY CountersMatchTally
    <3> QED
      BY <3>1, <3>2, FS_EmptySet, Zenon
  <2>2. Done(count[b]) = 0 /\ Done(count[b]) + count[b]["dispatched"] = 0
    <3>1. /\ count[b]["sent"] = 0 /\ count[b]["delivered"] = 0 /\ count[b]["failed"] = 0
          /\ count[b]["unknown"] = 0 /\ count[b]["dispatched"] = 0
      BY <2>1 DEF Counted
    <3> QED
      BY <3>1 DEF Done
  <2>3. StatusFor(count[b], Size(b)) = "queued"
    BY <2>2 DEF StatusFor
  <2>4. Size(b) \in Nat /\ Size(b) # 0
    <3>1. IsFiniteSet(Recipients(b)) /\ Cardinality(Recipients(b)) \in Nat
      BY RowsAreFinite DEF Recipients
    <3>2. Cardinality(Recipients(b)) # 0
      BY <1>1, <3>1, FS_EmptySet
    <3> QED
      BY <3>1, <3>2 DEF Size
  <2>5. Size(b) - Done(count[b]) # 0
    BY <2>2, <2>4
  <2>6. batch'[b] = "queued" /\ ~closed'[b]
    BY <1>1 DEF BatchesFit, TypeOK
  <2>7. Size(b)' = Size(b)
    BY DEF Size, Recipients
  <2> QED
    BY <1>1, <2>3, <2>5, <2>6, <2>7 DEF AsCounted
<1>5. ASSUME NEW c \in Batch
      PROVE  /\ batch'[c] = "none" => ~closed'[c]
             /\ batch'[c] # "none" => Recipients(c)' # {}
             /\ batch'[c] # "none" => Recomputing(c)' \/ AsCounted(c)'
  <2>1. CASE c = b
    BY <1>1, <1>4, <2>1 DEF TypeOK, Recipients
  <2>2. CASE c # b
    <3>1. batch'[c] = batch[c] /\ closed'[c] = closed[c] /\ count'[c] = count[c]
      BY <1>1, <2>2 DEF TypeOK
    <3>2. AsCounted(c) => AsCounted(c)'
      BY <3>1 DEF AsCounted, Size, Recipients
    <3>3. Recomputing(c) => Recomputing(c)'
      BY <1>3, <2>2 DEF Recomputing
    <3>4. Recipients(c)' = Recipients(c)
      BY DEF Recipients
    <3> QED
      BY <3>1, <3>2, <3>3, <3>4 DEF BatchesFit
  <2> QED
    BY <2>1, <2>2
<1>6. \A w \in Waves : job'[w].state \in {"counting", "recomputing"} => job'[w].rows # {}
  BY <1>2, <1>3 DEF BatchesFit
<1> QED
  BY <1>5, <1>6 DEF BatchesFit

(* Rows of a wave are of one batch. *)
LEMMA WaveOfBatch ==
  ASSUME NEW w \in Waves, NEW rows, rows \subseteq InWave(w)
  PROVE  /\ \A m \in rows : BatchOf[m] = w[1]
         /\ \A b \in Batch : b # w[1] => rows \cap Recipients(b) = {}
         /\ rows # {} => BatchesOf(rows) = {w[1]}
BY DEF InWave, WaveOf, Recipients, BatchesOf

(* A job that counts its failures has yet to recompute its batch. *)
LEMMA BatchesCountFailed ==
  ASSUME TypeOK, JobsInv, BatchesFit, NEW w \in Waves, CountFailed(w)
  PROVE  BatchesFit'
<1> DEFINE rows == job[w].rows
<1>1. /\ job[w].state = "counting" /\ rows # {}
      /\ count' = Shifted(count, rows, "queued", "failed")
      /\ job' = [job EXCEPT ![w].state = "recomputing"]
      /\ UNCHANGED <<batch, closed>>
  BY DEF CountFailed, Step, BatchesFit
<1>2. /\ \A v \in Waves \ {w} : job'[v] = job[v]
      /\ job'[w].state = "recomputing" /\ job'[w].rows = rows
  BY <1>1 DEF TypeOK
<1>3. \A b \in Batch : b # w[1] => rows \cap Recipients(b) = {}
  BY WaveOfBatch DEF JobsInv, RowsOfWave
<1>4. ASSUME NEW b \in Batch
      PROVE  batch'[b] # "none" => Recomputing(b)' \/ AsCounted(b)'
  <2>1. CASE b = w[1]
    BY <1>2, <2>1 DEF Recomputing
  <2>2. CASE b # w[1]
    <3>0. count \in Counts
      BY DEF TypeOK, Counts
    <3>1. count'[b] = count[b]
      BY <1>1, <1>3, <2>2, <3>0, NothingShifts
    <3>2. AsCounted(b) => AsCounted(b)'
      BY <1>1, <3>1 DEF AsCounted, Size, Recipients
    <3>3. Recomputing(b) => Recomputing(b)'
      BY <1>2 DEF Recomputing
    <3> QED
      BY <1>1, <3>2, <3>3 DEF BatchesFit
  <2> QED
    BY <2>1, <2>2
<1>5. \A v \in Waves : job'[v].state \in {"counting", "recomputing"} => job'[v].rows # {}
  BY <1>1, <1>2 DEF BatchesFit
<1>6. \A b \in Batch : Recipients(b)' = Recipients(b)
  BY DEF Recipients
<1> HIDE DEF rows
<1> QED
  BY <1>1, <1>4, <1>5, <1>6 DEF BatchesFit

(* And then it does. *)
LEMMA BatchesRecomputeFailed ==
  ASSUME TypeOK, JobsInv, BatchesFit, NEW w \in Waves, RecomputeFailed(w)
  PROVE  BatchesFit'
<1> DEFINE rows == job[w].rows
<1>1. /\ job[w].state = "recomputing" /\ rows # {} /\ rows \subseteq InWave(w)
      /\ Recompute(count, BatchesOf(rows))
      /\ job' = [job EXCEPT ![w].state = "announcing"]
      /\ count' = count
  BY DEF RecomputeFailed, Step, BatchesFit, JobsInv, RowsOfWave
<1>2. /\ \A v \in Waves \ {w} : job'[v] = job[v]
      /\ job'[w].state = "announcing"
  BY <1>1 DEF TypeOK
<1>3. BatchesOf(rows) = {w[1]} /\ \A m \in rows : m \in Message /\ BatchOf[m] = w[1]
  BY <1>1, WaveOfBatch DEF InWave
<1>4. Recompute(count', {w[1]})
  BY <1>1, <1>3 DEF Recompute
<1>5. Recipients(w[1]) # {}
  BY <1>1, <1>3 DEF Recipients
<1>6. ASSUME NEW b \in Batch
      PROVE  /\ batch'[b] = "none" => ~closed'[b]
             /\ batch'[b] # "none" => Recipients(b)' # {}
             /\ batch'[b] # "none" => Recomputing(b)' \/ AsCounted(b)'
  <2>0. Recipients(b)' = Recipients(b)
    BY DEF Recipients
  <2>1. CASE b = w[1]
    <3>1. AsCounted(b)' /\ batch'[b] # "none"
      BY <1>4, <2>1, RecomputedIsCounted
    <3> QED
      BY <1>5, <2>0, <2>1, <3>1
  <2>2. CASE b # w[1]
    <3>1. batch'[b] = batch[b] /\ closed'[b] = closed[b] /\ count'[b] = count[b]
      BY <1>1, <1>4, <2>2 DEF Recompute
    <3>2. AsCounted(b) => AsCounted(b)'
      BY <3>1 DEF AsCounted, Size, Recipients
    <3>3. Recomputing(b) => Recomputing(b)'
      BY <1>2, <2>2 DEF Recomputing
    <3> QED
      BY <2>0, <3>1, <3>2, <3>3 DEF BatchesFit
  <2> QED
    BY <2>1, <2>2
<1>7. \A v \in Waves : job'[v].state \in {"counting", "recomputing"} => job'[v].rows # {}
  BY <1>2 DEF BatchesFit
<1> QED
  BY <1>6, <1>7 DEF BatchesFit

(* The other steps of a job. *)
LEMMA BatchesJobStep ==
  ASSUME TypeOK, JobsInv, BatchesFit, NEW w \in Waves, JobStep(w)
  PROVE  BatchesFit'
<1>0. job[w] \in [state : JobStates, attempt : Nat, rows : SUBSET Message]
  BY DEF TypeOK
<1>1. ASSUME UNCHANGED <<count, batch, closed>>, job[w].state # "recomputing",
             \A v \in Waves \ {w} : job'[v] = job[v],
             job'[w].state \notin {"counting", "recomputing"} \/ job'[w].rows # {}
      PROVE  BatchesFit'
  <2>1. \A v \in Waves : job[v].state = "recomputing" => job'[v].state = "recomputing"
    BY <1>1
  <2>2. \A v \in Waves : job'[v].state \in {"counting", "recomputing"} => job'[v].rows # {}
    BY <1>1 DEF BatchesFit
  <2> QED
    BY <1>1, <2>1, <2>2, BatchesJobMoves
<1>2. CASE LoadQueued(w)
  <2> DEFINE rows == {m \in InWave(w) : status[m] = "queued"}
             s == IF rows = {} THEN "finished" ELSE "loaded"
  <2>1. /\ job' = [job EXCEPT ![w] = [state |-> s, attempt |-> job[w].attempt + 1,
                                      rows |-> rows]]
        /\ job[w].state = "available"
        /\ UNCHANGED <<count, batch, closed>>
    BY <1>2 DEF LoadQueued, batchVars
  <2>2. job'[w].state \in {"finished", "loaded"} /\ \A v \in Waves \ {w} : job'[v] = job[v]
    BY <2>1 DEF TypeOK
  <2> QED
    BY <1>1, <2>1, <2>2
<1>3. CASE ReadDevice(w) \/ PushAccepted(w) \/ PushRejected(w) \/ AnnounceFailed(w)
  <2>1. PICK to \in {"doomed", "finished", "pushing"} : Step(w, to)
    BY <1>3 DEF ReadDevice, PushAccepted, PushRejected, AnnounceFailed
  <2>2. job'[w].state = to /\ \A v \in Waves \ {w} : job'[v] = job[v]
    BY <2>1 DEF Step, TypeOK
  <2>3. job[w].state \in {"loaded", "pushing", "announcing"} /\ UNCHANGED <<count, batch, closed>>
    BY <1>3 DEF ReadDevice, PushAccepted, PushRejected, AnnounceFailed, batchVars
  <2> QED
    BY <1>1, <2>1, <2>2, <2>3
<1>4. CASE MarkFailed(w)
  <2> DEFINE rows == Failable(w)
  <2>1. /\ job[w].state = "doomed"
        /\ job' = [job EXCEPT ![w].state = IF rows = {} THEN "finished" ELSE "counting",
                              ![w].rows = rows]
        /\ UNCHANGED <<count, batch, closed>>
    BY <1>4 DEF MarkFailed, batchVars
  <2> HIDE DEF rows
  <2>2. /\ job'[w].state = (IF rows = {} THEN "finished" ELSE "counting")
        /\ job'[w].rows = rows
        /\ \A v \in Waves \ {w} : job'[v] = job[v]
    BY <2>1 DEF TypeOK
  <2>3. job'[w].state \notin {"counting", "recomputing"} \/ job'[w].rows # {}
    <3>1. CASE rows = {}
      BY <2>2, <3>1
    <3>2. CASE rows # {}
      BY <2>2, <3>2
    <3> QED
      BY <3>1, <3>2
  <2> QED
    BY <1>1, <2>1, <2>2, <2>3
<1> QED
  BY <1>2, <1>3, <1>4, BatchesCountFailed, BatchesRecomputeFailed DEF JobStep

(* A fetch and a report recompute the batches whose counters they move. *)
LEMMA BatchesRequest ==
  ASSUME TypeOK, HandedInv, BatchesFit, NEW d \in Device, RequestStep(d)
  PROVE  BatchesFit'
<1>0. \A m \in Message : status[m] # "none" => batch[BatchOf[m]] # "none"
  BY BatchesAssumption DEF HandedInv, Recipients
<1>1. count \in Counts
  BY DEF TypeOK, Counts
<1>2. ASSUME NEW rows \in SUBSET Message, FetchOutbox(d, rows)
      PROVE  BatchesFit'
  <2> DEFINE fresh == {m \in rows : status[m] = "queued"}
  <2>1. /\ count' = Shifted(count, fresh, "queued", "dispatched")
        /\ Recompute(count', BatchesOf(fresh)) /\ job' = job
    BY <1>2 DEF FetchOutbox
  <2>2. \A b \in Batch : b \in BatchesOf(fresh) => batch[b] # "none"
    BY <1>0 DEF BatchesOf
  <2>3. \A b \in Batch : b \notin BatchesOf(fresh) => fresh \cap Recipients(b) = {}
    BY DEF BatchesOf, Recipients
  <2> HIDE DEF fresh
  <2>4. \A b \in Batch : b \notin BatchesOf(fresh) => count'[b] = count[b]
    BY <1>1, <2>1, <2>3, NothingShifts
  <2> QED
    BY <2>1, <2>2, <2>4, BatchesMoved
<1>3. ASSUME NEW m \in Message, NEW to \in {"sent", "delivered", "failed"},
             NEW why \in {"interrupted", "refused"}, ReportStatus(d, m, to, why)
      PROVE  BatchesFit'
  <2>1. /\ count' = Shifted(count, {m}, status[m], to)
        /\ Recompute(count', {BatchOf[m]}) /\ job' = job /\ Moves(m, to)
    BY <1>3 DEF ReportStatus
  <2>2. batch[BatchOf[m]] # "none"
    BY <1>0, <2>1 DEF Moves, AllowedFrom
  <2>3. \A b \in Batch : b \notin {BatchOf[m]} => {m} \cap Recipients(b) = {}
    BY DEF Recipients
  <2>4. \A b \in Batch : b \notin {BatchOf[m]} => count'[b] = count[b]
    BY <1>1, <2>1, <2>3, NothingShifts
  <2> QED
    BY <2>1, <2>2, <2>4, BatchesMoved
<1>4. CASE ReportIgnored(d)
  <2>1. UNCHANGED <<count, batch, closed, job>>
    BY <1>4 DEF ReportIgnored, batchVars
  <2> QED
    BY <2>1, BatchesJobMoves DEF BatchesFit
<1> QED
  BY <1>2, <1>3, <1>4 DEF RequestStep

(* And the sweep. *)
LEMMA BatchesSweep ==
  ASSUME TypeOK, HandedInv, BatchesFit, SweepStep
  PROVE  BatchesFit'
<1>1. CASE SweepUpdate
  <2> DEFINE Q == Swept("queued")
             D == Swept("dispatched")
             c1 == Shifted(count, Q, "queued", "unknown")
  <2>0. count \in Counts
    BY DEF TypeOK, Counts
  <2>1. /\ count' = Shifted(c1, D, "dispatched", "unknown")
        /\ Recompute(count', BatchesOf(Q \cup D)) /\ job' = job
    BY <1>1 DEF SweepUpdate
  <2>2. Q \in SUBSET Message /\ D \in SUBSET Message
    BY DEF Swept
  <2>3. \A b \in Batch : b \in BatchesOf(Q \cup D) => batch[b] # "none"
    BY BatchesAssumption DEF BatchesOf, Swept, HandedInv, Recipients
  <2>4. c1 \in Counts
    BY <2>2, ShiftedIsCounts DEF TypeOK, Counts
  <2>5. ASSUME NEW b \in Batch, b \notin BatchesOf(Q \cup D) PROVE count'[b] = count[b]
    <3> HIDE DEF Q, D
    <3>1. Q \cap Recipients(b) = {} /\ D \cap Recipients(b) = {}
      BY <2>5 DEF BatchesOf, Recipients
    <3>2. c1[b] = count[b]
      BY <2>0, <3>1, NothingShifts
    <3> HIDE DEF c1
    <3> QED
      BY <2>1, <2>4, <3>1, <3>2, NothingShifts
  <2> HIDE DEF Q, D
  <2> QED
    BY <2>1, <2>3, <2>5, BatchesMoved
<1>2. CASE SweepSnapshot \/ SweepRollsBack
  <2>1. UNCHANGED <<count, batch, closed, job>>
    BY <1>2 DEF SweepSnapshot, SweepRollsBack, batchVars
  <2> QED
    BY <2>1, BatchesJobMoves DEF BatchesFit
<1> QED
  BY <1>1, <1>2 DEF SweepStep

(* Any step of the assumptions. *)
LEMMA BatchesNext ==
    TypeOK /\ HandedInv /\ JobsInv /\ CountersMatch /\ BatchesFit /\ [SerialNext]_vars
       => BatchesFit'
<1> SUFFICES ASSUME TypeOK, HandedInv, JobsInv, CountersMatch, BatchesFit, [SerialNext]_vars
             PROVE  BatchesFit'
  OBVIOUS
<1>0. ASSUME UNCHANGED <<count, batch, closed, job>> PROVE BatchesFit'
  BY <1>0, BatchesJobMoves DEF BatchesFit
<1>1. CASE \E d \in Device : DeviceStep(d)
  BY <1>0, <1>1 DEF DeviceStep, PairDevice, UnpairDevice, UpdateDevice, RefreshPushToken,
                    batchVars
<1>2. ASSUME NEW w \in Waves, ~Recording(w), JobDies(w) PROVE BatchesFit'
  <2>1. /\ \A v \in Waves \ {w} : job'[v] = job[v]
        /\ job'[w].state \in {"available", "finished"}
        /\ UNCHANGED <<count, batch, closed>>
    BY <1>2 DEF JobDies, batchVars, TypeOK
  <2>2. job[w].state # "recomputing"
    BY <1>2 DEF Recording
  <2> QED
    BY <2>1, <2>2, BatchesJobMoves DEF BatchesFit
<1>3. CASE Tick
  BY <1>0, <1>3 DEF Tick, batchVars
<1>4. CASE UNCHANGED vars
  BY <1>0, <1>4 DEF vars, batchVars
<1> QED
  BY <1>1, <1>2, <1>3, <1>4, BatchesSend, BatchesJobStep, BatchesRequest, BatchesSweep
     DEF SerialNext, Transaction

(* A message whose outcome is new is announced with it; a job that records  *)
(* rows goes on recording them.                                             *)
LEMMA AnnouncedKept ==
  ASSUME OutcomesAnnounced,
         \A m \in Message : status'[m] \in Resolved =>
            \/ announced'[m] = status'[m]
            \/ status'[m] = status[m] /\ announced'[m] = announced[m],
         \A w \in Waves : Recording(w) /\ job[w].rows # {} =>
            Recording(w)' /\ job'[w].rows = job[w].rows
  PROVE  OutcomesAnnounced'
<1> SUFFICES ASSUME NEW m \in Message, status'[m] \in Resolved, announced'[m] # status'[m]
             PROVE  \E w \in Waves : Recording(w)' /\ m \in job'[w].rows
  BY DEF OutcomesAnnounced
<1>1. PICK w \in Waves : Recording(w) /\ m \in job[w].rows
  BY DEF OutcomesAnnounced
<1> QED
  BY <1>1

(* A job that leaves rows to record as they are. *)
LEMMA AnnouncedJobMoves ==
  ASSUME OutcomesAnnounced, UNCHANGED <<status, announced>>, NEW w \in Waves,
         \A v \in Waves \ {w} : job'[v] = job[v],
         Recording(w) => Recording(w)' /\ job'[w].rows = job[w].rows
  PROVE  OutcomesAnnounced'
<1>1. \A v \in Waves : Recording(v) => Recording(v)' /\ job'[v].rows = job[v].rows
  BY DEF Recording
<1> QED
  BY <1>1, AnnouncedKept

(* At first nothing has come of any message. *)
LEMMA AnnouncedInit == Init => OutcomesAnnounced /\ SaidUnsent
BY DEF Init, OutcomesAnnounced, SaidUnsent, Resolved

(* The rows a job fails are announced by it later. *)
LEMMA AnnouncedMarkFailed ==
  ASSUME TypeOK, OutcomesAnnounced, NEW w \in Waves, MarkFailed(w)
  PROVE  OutcomesAnnounced'
<1> DEFINE rows == Failable(w)
<1>1. /\ job[w].state = "doomed"
      /\ \A m \in Message : status'[m] = IF m \in rows THEN "failed" ELSE status[m]
      /\ job' = [job EXCEPT ![w].state = IF rows = {} THEN "finished" ELSE "counting",
                            ![w].rows = rows]
      /\ announced' = announced
  BY DEF MarkFailed
<1> HIDE DEF rows
<1>2. /\ job'[w].state = (IF rows = {} THEN "finished" ELSE "counting")
      /\ job'[w].rows = rows
      /\ \A v \in Waves \ {w} : job'[v] = job[v]
  BY <1>1 DEF TypeOK
<1>3. ~Recording(w)
  BY <1>1 DEF Recording
<1> SUFFICES ASSUME NEW m \in Message, status'[m] \in Resolved, announced'[m] # status'[m]
             PROVE  \E v \in Waves : Recording(v)' /\ m \in job'[v].rows
  BY DEF OutcomesAnnounced
<1>4. CASE m \in rows
  <2>1. job'[w].state = "counting" /\ m \in job'[w].rows
    BY <1>2, <1>4
  <2> QED
    BY <2>1 DEF Recording
<1>5. CASE m \notin rows
  <2>1. PICK v \in Waves : Recording(v) /\ m \in job[v].rows
    BY <1>1, <1>5 DEF OutcomesAnnounced
  <2>2. job'[v] = job[v]
    BY <1>2, <1>3, <2>1
  <2> QED
    BY <2>1, <2>2 DEF Recording
<1> QED
  BY <1>4, <1>5

(* And are still failed when it does. *)
LEMMA AnnouncedAnnounceFailed ==
  ASSUME TypeOK, JobsInv, OutcomesAnnounced, NEW w \in Waves, AnnounceFailed(w)
  PROVE  OutcomesAnnounced'
<1> DEFINE rows == job[w].rows
<1>1. /\ job[w].state = "announcing"
      /\ \A m \in Message : announced'[m] = IF m \in rows THEN "failed" ELSE announced[m]
      /\ job' = [job EXCEPT ![w].state = "finished"]
      /\ status' = status
  BY DEF AnnounceFailed, ToAnnounce, Step
<1>2. \A m \in rows : status[m] = "failed"
  BY <1>1 DEF JobsInv, RecordedStay, Recording
<1> HIDE DEF rows
<1>3. \A v \in Waves \ {w} : job'[v] = job[v]
  BY <1>1
<1> SUFFICES ASSUME NEW m \in Message, status'[m] \in Resolved, announced'[m] # status'[m]
             PROVE  \E v \in Waves : Recording(v)' /\ m \in job'[v].rows
  BY DEF OutcomesAnnounced
<1>4. m \notin rows
  BY <1>1, <1>2
<1>5. PICK v \in Waves : Recording(v) /\ m \in job[v].rows
  BY <1>1, <1>4 DEF OutcomesAnnounced
<1>6. v # w
  BY <1>4, <1>5 DEF rows
<1> QED
  BY <1>3, <1>5, <1>6 DEF Recording

(* The other steps of a job. *)
LEMMA AnnouncedJobStep ==
  ASSUME TypeOK, JobsInv, OutcomesAnnounced, NEW w \in Waves, JobStep(w)
  PROVE  OutcomesAnnounced'
<1>1. CASE LoadQueued(w)
  <2>1. /\ \A v \in Waves \ {w} : job'[v] = job[v]
        /\ UNCHANGED <<status, announced>>
        /\ ~Recording(w)
    BY <1>1 DEF LoadQueued, messageVars, Recording
  <2> QED
    BY <2>1, AnnouncedJobMoves
<1>2. CASE \/ ReadDevice(w) \/ PushAccepted(w) \/ PushRejected(w)
           \/ CountFailed(w) \/ RecomputeFailed(w)
  <2>1. PICK to : Step(w, to) /\ (Recording(w) => to \in {"recomputing", "announcing"})
    BY <1>2 DEF ReadDevice, PushAccepted, PushRejected, CountFailed, RecomputeFailed, Recording
  <2>2. /\ \A v \in Waves \ {w} : job'[v] = job[v]
        /\ job'[w].state = to /\ job'[w].rows = job[w].rows
    BY <2>1 DEF Step, TypeOK
  <2>3. UNCHANGED <<status, announced>>
    BY <1>2 DEF ReadDevice, PushAccepted, PushRejected, CountFailed, RecomputeFailed,
                messageVars
  <2>4. Recording(w) => Recording(w)'
    BY <2>1, <2>2 DEF Recording
  <2> QED
    BY <2>2, <2>3, <2>4, AnnouncedJobMoves
<1> QED
  BY <1>1, <1>2, AnnouncedMarkFailed, AnnouncedAnnounceFailed DEF JobStep

(* Any step of the assumptions. *)
LEMMA AnnouncedNext ==
    TypeOK /\ HandedInv /\ JobsInv /\ OutcomesAnnounced /\ [SerialNext]_vars
       => OutcomesAnnounced'
<1> SUFFICES ASSUME TypeOK, HandedInv, JobsInv, OutcomesAnnounced, [SerialNext]_vars
             PROVE  OutcomesAnnounced'
  OBVIOUS
<1>0. ASSUME job' = job,
             \A m \in Message : status'[m] \in Resolved =>
                \/ announced'[m] = status'[m]
                \/ status'[m] = status[m] /\ announced'[m] = announced[m]
      PROVE  OutcomesAnnounced'
  <2>1. \A w \in Waves : Recording(w) => Recording(w)' /\ job'[w].rows = job[w].rows
    BY <1>0 DEF Recording
  <2> QED
    BY <1>0, <2>1, AnnouncedKept
<1>1. ASSUME UNCHANGED <<status, announced, job>> PROVE OutcomesAnnounced'
  BY <1>0, <1>1
<1>2. CASE \E d \in Device : DeviceStep(d)
  BY <1>1, <1>2 DEF DeviceStep, PairDevice, UnpairDevice, UpdateDevice, RefreshPushToken,
                    messageVars
<1>3. ASSUME NEW b \in Batch, NEW delay \in 0..MaxDelay, Send(b, delay)
      PROVE  OutcomesAnnounced'
  <2>1. /\ batch[b] = "none"
        /\ \A m \in Message : status'[m] = IF m \in Recipients(b) THEN "queued" ELSE status[m]
        /\ \A w \in Waves : job'[w] = IF w[1] = b THEN [NoJob EXCEPT !.state = "available"]
                                                  ELSE job[w]
        /\ announced' = announced
    BY <1>3 DEF Send
  <2>2. \A m \in Recipients(b) : status[m] = "none"
    BY <2>1 DEF HandedInv
  <2>3. \A w \in Waves : w[1] = b => ~Recording(w) \/ job[w].rows = {}
    <3> SUFFICES ASSUME NEW w \in Waves, w[1] = b, Recording(w), NEW m \in job[w].rows
                 PROVE  FALSE
      OBVIOUS
    <3>1. m \in InWave(w) /\ status[m] = "failed"
      BY DEF JobsInv, RowsOfWave, RecordedStay
    <3>2. m \in Recipients(b)
      BY <3>1 DEF InWave, WaveOf, Recipients
    <3> QED
      BY <2>2, <3>1, <3>2
  <2>4. \A w \in Waves : Recording(w) /\ job[w].rows # {} =>
           Recording(w)' /\ job'[w].rows = job[w].rows
    BY <2>1, <2>3 DEF Recording
  <2>5. \A m \in Message : status'[m] \in Resolved => status'[m] = status[m]
    BY <2>1 DEF Resolved
  <2> QED
    BY <2>1, <2>4, <2>5, AnnouncedKept
<1>4. ASSUME NEW d \in Device, RequestStep(d) PROVE OutcomesAnnounced'
  <2>1. ASSUME NEW rows \in SUBSET Message, FetchOutbox(d, rows) PROVE OutcomesAnnounced'
    <3>1. /\ \A m \in Message : status'[m] = IF m \in rows THEN "dispatched" ELSE status[m]
          /\ UNCHANGED <<announced, job>>
      BY <2>1 DEF FetchOutbox
    <3>2. \A m \in Message : status'[m] \in Resolved => status'[m] = status[m]
      BY <3>1 DEF Resolved
    <3> QED
      BY <1>0, <3>1, <3>2
  <2>2. ASSUME NEW m \in Message, NEW to \in {"sent", "delivered", "failed"},
               NEW why \in {"interrupted", "refused"}, ReportStatus(d, m, to, why)
        PROVE  OutcomesAnnounced'
    <3>1. /\ \A n \in Message : status'[n] = IF n = m THEN to ELSE status[n]
          /\ \A n \in Message : announced'[n] = IF n = m THEN to ELSE announced[n]
          /\ job' = job
      BY <2>2 DEF ReportStatus, TypeOK
    <3> QED
      BY <1>0, <3>1
  <2>3. CASE ReportIgnored(d)
    BY <1>1, <2>3 DEF ReportIgnored, messageVars
  <2> QED
    BY <1>4, <2>1, <2>2, <2>3 DEF RequestStep
<1>5. CASE Tick
  BY <1>1, <1>5 DEF Tick
<1>6. ASSUME NEW w \in Waves, ~Recording(w), JobDies(w) PROVE OutcomesAnnounced'
  <2>1. /\ \A v \in Waves \ {w} : job'[v] = job[v]
        /\ UNCHANGED <<status, announced>>
    BY <1>6 DEF JobDies, messageVars, TypeOK
  <2> QED
    BY <1>6, <2>1, AnnouncedJobMoves
<1>7. CASE SweepUpdate
  <2> DEFINE rows == Swept("queued") \cup Swept("dispatched")
  <2>1. /\ \A m \in Message : status'[m] = IF m \in rows THEN "unknown" ELSE status[m]
        /\ \A m \in Message : announced'[m] = IF m \in rows THEN "unknown" ELSE announced[m]
        /\ job' = job
    BY <1>7 DEF SweepUpdate
  <2> HIDE DEF rows
  <2> QED
    BY <1>0, <2>1
<1>8. CASE SweepSnapshot \/ SweepRollsBack
  BY <1>1, <1>8 DEF SweepSnapshot, SweepRollsBack, messageVars
<1>9. CASE UNCHANGED vars
  BY <1>1, <1>9 DEF vars, messageVars
<1> QED
  BY <1>2, <1>3, <1>4, <1>5, <1>6, <1>7, <1>8, <1>9, AnnouncedJobStep
     DEF SerialNext, Transaction, SweepStep

(* A message said not to have been fetched was not, and is not: only the   *)
(* sweep says so, of rows that are queued, and nothing hands over a message *)
(* that has left the outbox.                                               *)
LEMMA SaidNext ==
    TypeOK /\ HandedInv /\ JobsInv /\ CodesFit /\ SaidUnsent /\ [SerialNext]_vars => SaidUnsent'
<1> SUFFICES ASSUME TypeOK, HandedInv, JobsInv, CodesFit, SaidUnsent, [SerialNext]_vars,
                    NEW m \in Message, code'[m] = "not_dispatched"
             PROVE  ~handed'[m]
  BY DEF SaidUnsent
<1>0. code'[m] = code[m] /\ handed'[m] = handed[m] => ~handed'[m]
  BY DEF SaidUnsent
<1>1. CASE \E d \in Device : DeviceStep(d)
  BY <1>0, <1>1 DEF DeviceStep, PairDevice, UnpairDevice, UpdateDevice, RefreshPushToken,
                    messageVars
<1>2. CASE \E b \in Batch, delay \in 0..MaxDelay : Send(b, delay)
  BY <1>0, <1>2 DEF Send
<1>3. ASSUME NEW w \in Waves, JobStep(w) PROVE ~handed'[m]
  <2>1. CASE MarkFailed(w)
    <3>1. code'[m] = code[m] /\ handed' = handed
      BY <2>1 DEF MarkFailed
    <3> QED
      BY <1>0, <3>1
  <2>2. CASE ~MarkFailed(w)
    BY <1>0, <1>3, <2>2 DEF JobStep, LoadQueued, ReadDevice, PushAccepted, PushRejected,
                            CountFailed, RecomputeFailed, AnnounceFailed, messageVars
  <2> QED
    BY <2>1, <2>2
<1>4. ASSUME NEW d \in Device, RequestStep(d) PROVE ~handed'[m]
  <2>1. ASSUME NEW rows \in SUBSET Message, FetchOutbox(d, rows) PROVE ~handed'[m]
    <3>1. /\ \A n \in rows : status[n] \in {"queued", "dispatched"}
          /\ handed'[m] = (handed[m] \/ m \in rows)
          /\ code' = code
      BY <2>1 DEF FetchOutbox, Offered
    <3>2. m \notin rows
      BY <3>1 DEF CodesFit, CodeFits
    <3> QED
      BY <1>0, <3>1, <3>2
  <2>2. ASSUME NEW n \in Message, NEW to \in {"sent", "delivered", "failed"},
               NEW why \in {"interrupted", "refused"}, ReportStatus(d, n, to, why)
        PROVE  ~handed'[m]
    <3>1. /\ code'[m] = IF m = n THEN CodeAfter(n, to, why) ELSE code[m]
          /\ handed' = handed
      BY <2>2 DEF ReportStatus, TypeOK
    <3> QED
      BY <1>0, <3>1 DEF CodeAfter
  <2>3. CASE ReportIgnored(d)
    BY <1>0, <2>3 DEF ReportIgnored, messageVars
  <2> QED
    BY <1>4, <2>1, <2>2, <2>3 DEF RequestStep
<1>5. CASE Tick
  BY <1>0, <1>5 DEF Tick
<1>6. CASE \E w \in Waves : JobDies(w)
  BY <1>0, <1>6 DEF JobDies, messageVars
<1>7. CASE SweepUpdate
  <2>1. /\ code'[m] = IF m \in Swept("queued") \cup Swept("dispatched")
                      THEN SweepCode(sweep[m]) ELSE code[m]
        /\ handed' = handed
    BY <1>7 DEF SweepUpdate
  <2>2. CASE m \in Swept("queued")
    <3>1. status[m] = "queued"
      BY <2>2 DEF Swept, JobsInv, SnapshotFresh
    <3> QED
      BY <2>1, <3>1 DEF HandedInv
  <2>3. CASE m \in Swept("dispatched")
    BY <2>1, <2>3 DEF Swept, SweepCode
  <2>4. CASE m \notin Swept("queued") \cup Swept("dispatched")
    BY <1>0, <2>1, <2>4
  <2> QED
    BY <2>2, <2>3, <2>4
<1>8. CASE SweepSnapshot \/ SweepRollsBack
  BY <1>0, <1>8 DEF SweepSnapshot, SweepRollsBack, messageVars
<1>9. CASE UNCHANGED vars
  BY <1>0, <1>9 DEF vars, messageVars
<1> QED
  BY <1>1, <1>2, <1>3, <1>4, <1>5, <1>6, <1>7, <1>8, <1>9 DEF SerialNext, Transaction, SweepStep

(* The recipients with an outcome. *)
Settled(b) == {m \in Recipients(b) : status[m] \in Resolved}

(* The counters of outcomes add up to the recipients with one, as long as no *)
(* failed row waits to be counted: a message is in one status at a time.     *)
LEMMA DoneCounts ==
  ASSUME TypeOK, CountersMatch, NEW b \in Batch, Uncounted(b) = {}
  PROVE  Done(count[b]) = Cardinality(Settled(b))
<1> DEFINE S == InStatus(b, "sent")
           D == InStatus(b, "delivered")
           F == InStatus(b, "failed")
           U == InStatus(b, "unknown")
<1>1. \A s \in Counted : count[b][s] = Cardinality(InStatus(b, s))
  <2>1. \A s \in Counted : Tally(b, s) = InStatus(b, s)
    BY DEF Tally
  <2> QED
    BY <2>1, CountersMatchTally
<1>2. /\ count[b]["sent"] = Cardinality(S) /\ count[b]["delivered"] = Cardinality(D)
      /\ count[b]["failed"] = Cardinality(F) /\ count[b]["unknown"] = Cardinality(U)
  BY <1>1 DEF Counted
<1>3. /\ S \in SUBSET Message /\ D \in SUBSET Message
      /\ F \in SUBSET Message /\ U \in SUBSET Message
  BY DEF InStatus, Recipients
<1>4. S \cap D = {} /\ (S \cup D) \cap F = {} /\ (S \cup D \cup F) \cap U = {}
  BY DEF InStatus
<1>5. Settled(b) = S \cup D \cup F \cup U
  BY DEF Settled, InStatus, Resolved
<1> HIDE DEF S, D, F, U
<1>6. ASSUME NEW X \in SUBSET Message, NEW Y \in SUBSET Message, X \cap Y = {}
      PROVE  Cardinality(X \cup Y) = Cardinality(X) + Cardinality(Y)
  <2>1. IsFiniteSet(X) /\ IsFiniteSet(Y) /\ Cardinality(X) \in Nat /\ Cardinality(Y) \in Nat
    BY RowsAreFinite
  <2>2. Cardinality(X \cup Y) = Cardinality(X) + Cardinality(Y) - Cardinality(X \cap Y)
    BY <2>1, FS_Union
  <2>3. Cardinality(X \cap Y) = 0
    BY <1>6, FS_EmptySet, Zenon
  <2> QED
    BY <2>1, <2>2, <2>3
<1>7. Cardinality(S \cup D) = Cardinality(S) + Cardinality(D)
  BY <1>3, <1>4, <1>6
<1>8. Cardinality(S \cup D \cup F) = Cardinality(S \cup D) + Cardinality(F)
  BY <1>3, <1>4, <1>6, S \cup D \in SUBSET Message
<1>9. Cardinality(S \cup D \cup F \cup U) = Cardinality(S \cup D \cup F) + Cardinality(U)
  BY <1>3, <1>4, <1>6, S \cup D \cup F \in SUBSET Message
<1> QED
  BY <1>2, <1>5, <1>7, <1>8, <1>9 DEF Done

(* So nothing is left to count exactly when every recipient has an outcome. *)
LEMMA NoneLeft ==
  ASSUME TypeOK, CountersMatch, NEW b \in Batch, Uncounted(b) = {}
  PROVE  /\ Size(b) - Done(count[b]) \in Nat
         /\ Size(b) - Done(count[b]) = 0 <=> \A m \in Recipients(b) : status[m] \in Resolved
<1>1. Done(count[b]) = Cardinality(Settled(b))
  BY DoneCounts
<1>2. Settled(b) \subseteq Recipients(b) /\ Recipients(b) \in SUBSET Message
  BY DEF Settled, Recipients
<1>3. /\ IsFiniteSet(Recipients(b)) /\ Cardinality(Recipients(b)) \in Nat
      /\ Cardinality(Settled(b)) \in Nat
  BY <1>2, RowsAreFinite
<1>4. /\ Cardinality(Settled(b)) <= Cardinality(Recipients(b))
      /\ Cardinality(Settled(b)) = Cardinality(Recipients(b)) => Settled(b) = Recipients(b)
  BY <1>2, <1>3, FS_Subset
<1>5. Settled(b) = Recipients(b) <=> \A m \in Recipients(b) : status[m] \in Resolved
  BY DEF Settled
<1> HIDE DEF Settled, Recipients
<1>6. Settled(b) = Recipients(b) <=> Cardinality(Settled(b)) = Cardinality(Recipients(b))
  BY <1>4
<1>7. Size(b) = Cardinality(Recipients(b))
  BY DEF Size
<1>8. Size(b) - Done(count[b]) \in Nat
  BY <1>1, <1>3, <1>4, <1>7
<1>9. Size(b) - Done(count[b]) = 0 <=> Cardinality(Settled(b)) = Cardinality(Recipients(b))
  BY <1>1, <1>3, <1>7
<1> QED
  BY <1>5, <1>6, <1>8, <1>9

(* A batch calls itself complete exactly when nothing is left. *)
LEMMA CompleteStatus ==
  ASSUME NEW c \in [Counted -> Nat], NEW n \in Nat, n # 0
  PROVE  n - Done(c) \in Nat =>
           (n - Done(c) = 0 <=> StatusFor(c, n) \in {"failed", "unknown", "partial", "completed"})
<1>1. c["dispatched"] \in Nat /\ Done(c) \in Nat
  BY DEF Counted, Done
<1> HIDE DEF Done
<1>2. ASSUME n - Done(c) \in Nat, n - Done(c) = 0
      PROVE  StatusFor(c, n) \in {"failed", "unknown", "partial", "completed"}
  <2>1. Done(c) + c["dispatched"] # 0 /\ ~(n - Done(c) > 0)
    BY <1>1, <1>2
  <2> QED
    BY <2>1 DEF StatusFor
<1>3. ASSUME n - Done(c) \in Nat, n - Done(c) # 0
      PROVE  StatusFor(c, n) \in {"queued", "processing"}
  <2>1. n - Done(c) > 0
    BY <1>3
  <2> QED
    BY <2>1 DEF StatusFor
<1> QED
  BY <1>2, <1>3

(* The invariant says what the owner is told. *)
LEMMA InvariantTells ==
  ASSUME TypeOK, HandedInv, JobsInv, CountersMatch, BatchesFit, OutcomesAnnounced, SaidUnsent
  PROVE  OutcomesAreTold
<1>1. ASSUME NEW b \in Batch, batch[b] # "none",
             \A w \in Waves : w[1] = b => ~Recording(w)
      PROVE  /\ closed[b] <=> \A m \in Recipients(b) : status[m] \in Resolved
             /\ closed[b] <=> batch[b] \in {"failed", "unknown", "partial", "completed"}
  <2>1. AsCounted(b) /\ Recipients(b) # {}
    BY <1>1 DEF BatchesFit, Recomputing, Recording
  <2>2. Uncounted(b) = {}
    <3> SUFFICES ASSUME NEW m \in Uncounted(b) PROVE FALSE
      OBVIOUS
    <3>1. PICK w \in Waves : job[w].state = "counting" /\ m \in job[w].rows
      BY DEF Uncounted
    <3>2. m \in InWave(w) /\ m \in Recipients(b)
      BY <3>1 DEF JobsInv, RowsOfWave, Uncounted
    <3>3. w[1] = b
      BY <3>2 DEF InWave, WaveOf, Recipients
    <3> QED
      BY <1>1, <3>1, <3>3 DEF Recording
  <2>3. Size(b) \in Nat /\ Size(b) # 0
    <3>1. IsFiniteSet(Recipients(b)) /\ Cardinality(Recipients(b)) \in Nat
      BY RowsAreFinite DEF Recipients
    <3>2. Cardinality(Recipients(b)) # 0
      BY <2>1, <3>1, FS_EmptySet
    <3> QED
      BY <3>1, <3>2 DEF Size
  <2>4. count[b] \in [Counted -> Nat]
    BY DEF TypeOK
  <2>5. /\ Size(b) - Done(count[b]) \in Nat
        /\ Size(b) - Done(count[b]) = 0 <=> \A m \in Recipients(b) : status[m] \in Resolved
    BY <2>2, NoneLeft
  <2>6. Size(b) - Done(count[b]) = 0
           <=> StatusFor(count[b], Size(b)) \in {"failed", "unknown", "partial", "completed"}
    BY <2>3, <2>4, <2>5, CompleteStatus
  <2>7. /\ batch[b] = StatusFor(count[b], Size(b))
        /\ closed[b] <=> Size(b) - Done(count[b]) = 0
    BY <2>1 DEF AsCounted
  <2>8. closed[b] <=> \A m \in Recipients(b) : status[m] \in Resolved
    BY <2>5, <2>7, Zenon
  <2>9. closed[b] <=> batch[b] \in {"failed", "unknown", "partial", "completed"}
    <3> HIDE DEF Done
    <3>1. closed[b] <=> StatusFor(count[b], Size(b))
                           \in {"failed", "unknown", "partial", "completed"}
      BY <2>6, <2>7, Zenon
    <3> QED
      BY <2>7, <3>1
  <2> QED
    BY <2>8, <2>9
<1>2. \A m \in Message : code[m] \in {"not_dispatched", "device_gone"} => ~handed[m]
  BY DEF SaidUnsent, HandedInv
<1> QED
  BY <1>1, <1>2 DEF OutcomesAreTold, OutcomesAnnounced

(* Once nothing is being recorded, a batch is complete exactly when every    *)
(* recipient has an outcome, and calls itself so; the last event of a message *)
(* with an outcome told it; and "never fetched" is said only of messages that *)
(* were not (ApplyBatchTransition, emitMessage, MarkStaleUnknown): whatever   *)
(* phones, jobs and requests do, when sweeps run alone and failQueued is not  *)
(* cut short.                                                                *)
THEOREM OutcomesAreToldHolds == SerialSpec => []OutcomesAreTold
<1> DEFINE Inv == /\ TypeOK /\ HandedInv /\ JobsInv /\ CountersMatch
                  /\ CodesFit /\ SentCovered
                  /\ BatchesFit /\ OutcomesAnnounced /\ SaidUnsent
<1>1. Init => Inv
  BY InitTypes, HandedInit, CountersInit, LateInit, BatchesInit, AnnouncedInit
<1>2. Inv /\ [SerialNext]_vars => Inv'
  <2> SUFFICES ASSUME Inv, [SerialNext]_vars PROVE Inv'
    OBVIOUS
  <2>1. [Next]_vars
    BY SerialIsNext
  <2>2. TypeOK' /\ HandedInv' /\ CodesFit' /\ SentCovered'
    BY <2>1, NextTypes, HandedNext, LateNext
  <2>3. JobsInv' /\ CountersMatch'
    BY CountersNext
  <2>4. BatchesFit' /\ OutcomesAnnounced' /\ SaidUnsent'
    BY BatchesNext, AnnouncedNext, SaidNext
  <2> QED
    BY <2>2, <2>3, <2>4
<1>3. Inv => OutcomesAreTold
  BY InvariantTells
<1> HIDE DEF Inv
<1> QED
  BY <1>1, <1>2, <1>3, PTL DEF SerialSpec

=============================================================================
