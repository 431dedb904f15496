---------------------------- MODULE WebhooksProofs ----------------------------
(***************************************************************************)
(* What holds of webhook deliveries for every set of events and webhooks   *)
(* and every length of the ladder.                                         *)
(***************************************************************************)
EXTENDS Webhooks, FiniteSetTheorems, TLAPS

Owed(d) == status[d] \in {"pending", "retrying"}

(* A fan-out that is under way has neither rows nor jobs for the webhooks it *)
(* has yet to come to, and a row but no job for the one it is at.            *)
Untouched(d) == status[d] = "none" /\ job[d] = NoJob

FanoutFit(e) ==
    /\ fanout[e] = New => \A h \in Hook : Untouched(<<e, h>>)
    /\ fanout[e].at = "listed" => \A h \in fanout[e].to : Untouched(<<e, h>>)
    /\ fanout[e].at = "inserted" =>
          /\ fanout[e].on \notin fanout[e].to
          /\ Owed(<<e, fanout[e].on>>) /\ job[<<e, fanout[e].on>>] = NoJob
          /\ \A h \in fanout[e].to : Untouched(<<e, h>>)

FanoutFits == \A e \in Event : FanoutFit(e)

(* A job that got past its first check works on a delivery that is owed,    *)
(* and its answer is what the endpoint said; a delivery that is owed has    *)
(* tries left; a job that was not discarded has runs left.                  *)
JobFit(d) ==
    /\ job[d] # NoJob => status[d] # "none"
    /\ job[d].at \in {"reading", "recording"} => Owed(d)
    /\ job[d] = Recording("ok") => d \in acked
    /\ status[d] \in {"none", "pending"} => attempts[d] = 0
    /\ Owed(d) => attempts[d] < MaxTries
    /\ job[d] # Discarded => errors[d] < JobAttempts

JobFits == \A d \in Delivery : JobFit(d)

Inv == TypeOK /\ FanoutFits /\ JobFits /\ GivesUpInTime /\ CallsAreLogged

(* What the sweep is at is one of Sweeps. *)
LEMMA SweepKinds ==
  ASSUME NEW hooks \in SUBSET Hook, NEW h \in Hook
  PROVE  Sweeping(hooks) \in Sweeps /\ Pausing(h, hooks) \in Sweeps
<1>1. <<h, hooks>> \in Hook \X SUBSET Hook
  OBVIOUS
<1>2. Pausing(h, hooks) = Pausing(<<h, hooks>>[1], <<h, hooks>>[2])
  OBVIOUS
<1>3. QED
  BY <1>1, <1>2 DEF Sweeps

LEMMA InitInv == Init => Inv
<1> SUFFICES ASSUME Init PROVE Inv
  OBVIOUS
<1>1. TypeOK
  <2>1. Idle = Sweeping({})
    BY DEF Sweeping
  <2>2. sweep \in Sweeps
    BY <2>1 DEF Init, Sweeps
  <2>3. QED
    BY <2>2, LimitsAssumption DEF Init, TypeOK, Fanouts, Jobs
<1>2. FanoutFits
  BY DEF Init, FanoutFits, FanoutFit, Untouched, New, Delivery
<1>3. JobFits
  BY LimitsAssumption DEF Init, JobFits, JobFit, Owed, NoJob, Recording, Discarded
<1>4. GivesUpInTime
  BY DEF Init, GivesUpInTime
<1>5. CallsAreLogged
  BY DEF Init, CallsAreLogged, NoJob
<1>6. QED
  BY <1>1, <1>2, <1>3, <1>4, <1>5 DEF Inv

(* Steps of the owner, of the sweep and of time leave deliveries alone. *)
LEMMA QuietStep ==
  ASSUME Inv, TypeOK',
         UNCHANGED <<status, attempts, answer, job, errors, fanout, calls, acked>>
  PROVE  Inv'
<1>1. FanoutFits' /\ JobFits'
  BY DEF Inv, FanoutFits, FanoutFit, JobFits, JobFit, Untouched, Owed
<1>2. GivesUpInTime' /\ CallsAreLogged'
  BY DEF Inv, GivesUpInTime, CallsAreLogged
<1>3. QED
  BY <1>1, <1>2 DEF Inv

LEMMA OwnerInv ==
  ASSUME Inv, NEW h \in Hook, OwnerStep(h) \/ DayPasses(h)
  PROVE  Inv'
<1>1. TypeOK'
  BY DEF Inv, OwnerStep, DayPasses, CheckLimit, Create, Enable, Disable, Delete, SetHook,
         Live, TypeOK, rowVars
<1>2. UNCHANGED <<status, attempts, answer, job, errors, fanout, calls, acked>>
  BY DEF OwnerStep, DayPasses, CheckLimit, Create, Enable, Disable, Delete, rowVars
<1>3. QED
  BY <1>1, <1>2, QuietStep

LEMMA SweepInv ==
  ASSUME Inv, SweepStep
  PROVE  Inv'
<1>1. UNCHANGED <<status, attempts, answer, job, errors, fanout, calls, acked>>
  BY DEF SweepStep, ReadStats, LookAt, Pause, SweepDies, rowVars
<1>2. sweep' \in Sweeps /\ hook' \in [Hook -> {"absent", "creating", "on", "off", "deleted"}]
  <2>1. CASE \E week \in SUBSET Delivery : ReadStats(week)
    <3>1. {h \in Subscribed : \E week \in SUBSET Delivery : Failing(h, week)} \in SUBSET Hook
      BY DEF Subscribed
    <3>2. QED
      BY <2>1 DEF ReadStats, Sweeps, Subscribed, hookVars, Inv, TypeOK
  <2>2. CASE \E h \in Hook : LookAt(h)
    <3> PICK h \in Hook : LookAt(h)
      BY <2>2
    <3>1. sweep.hooks \in SUBSET Hook
      BY DEF LookAt, Inv, TypeOK, Sweeps, Sweeping, Pausing, Idle
    <3>2. QED
      BY <3>1, SweepKinds DEF LookAt, hookVars, Inv, TypeOK
  <2>3. CASE \E h \in Hook : Pause(h)
    <3> PICK h \in Hook : Pause(h)
      BY <2>3
    <3>1. sweep.hooks \in SUBSET Hook
      BY DEF Pause, Inv, TypeOK, Sweeps, Sweeping, Pausing, Idle
    <3>2. QED
      BY <3>1, SweepKinds DEF Pause, Inv, TypeOK
  <2>4. CASE SweepDies
    BY <2>4 DEF SweepDies, Sweeps, Sweeping, hookVars, Inv, TypeOK
  <2>5. QED
    BY <2>1, <2>2, <2>3, <2>4 DEF SweepStep
<1>3. UNCHANGED <<recent, success, failure, fresh>>
  BY DEF SweepStep, ReadStats, LookAt, Pause, SweepDies, rowVars, hookVars
<1>4. TypeOK'
  BY <1>1, <1>2, <1>3 DEF Inv, TypeOK
<1>5. QED
  BY <1>1, <1>4, QuietStep

(* The steps of an emission. *)
LEMMA FanoutKinds ==
  ASSUME NEW f \in Fanouts
  PROVE  /\ f.at = "listed" => f.to \in SUBSET Hook /\ f = Listed(f.to)
         /\ f.at = "inserted" => f.on \in Hook /\ f.to \in SUBSET Hook
                                /\ f = Inserted(f.on, f.to)
         /\ f = New \/ f = Emitted \/ f.at = "listed" \/ f.at = "inserted"
BY DEF Fanouts, New, Emitted, Listed, Inserted

LEMMA FanoutTypes ==
  ASSUME NEW hooks \in SUBSET Hook, NEW h \in Hook
  PROVE  /\ Listed(hooks) \in Fanouts /\ Inserted(h, hooks) \in Fanouts
         /\ New \in Fanouts /\ Emitted \in Fanouts
<1>1. <<h, hooks>> \in Hook \X SUBSET Hook
  OBVIOUS
<1>2. Inserted(h, hooks) = Inserted(<<h, hooks>>[1], <<h, hooks>>[2])
  OBVIOUS
<1>3. QED
  BY <1>1, <1>2 DEF Fanouts

(* Deliveries of different events, or to different webhooks, differ. *)
LEMMA Pairs ==
  ASSUME NEW e \in Event, NEW h \in Hook
  PROVE  /\ <<e, h>> \in Delivery
         /\ \A f, k : <<e, h>> = <<f, k>> => e = f /\ h = k
BY DEF Delivery

LEMMA EmitInTxInv ==
  ASSUME Inv, NEW e \in Event, EmitInTx(e)
  PROVE  Inv'
<1> DEFINE ds == {e} \X Subscribed
<1>0. ds \subseteq Delivery /\ \A d \in ds : Untouched(d) /\ d[1] = e
  <2>1. \A h \in Hook : Untouched(<<e, h>>)
    BY DEF EmitInTx, Inv, FanoutFits, FanoutFit
  <2>2. \A d \in ds : \E h \in Hook : d = <<e, h>>
    BY DEF Subscribed
  <2>3. QED
    BY <2>1, <2>2, Pairs
<1>1. TypeOK'
  <2>1. fanout' \in [Event -> Fanouts]
    BY DEF EmitInTx, Inv, TypeOK, Fanouts
  <2>2. job' \in [Delivery -> Jobs]
    BY DEF EmitInTx, Inv, TypeOK, Jobs
  <2>3. /\ status' \in [Delivery -> {"none", "pending", "retrying", "delivered", "failed"}]
        /\ fresh' \in [Delivery -> BOOLEAN]
    BY DEF EmitInTx, Rows, Inv, TypeOK
  <2>4. UNCHANGED <<hookVars, attempts, answer, errors, sweep, calls, acked>>
    BY DEF EmitInTx, Rows
  <2>5. QED
    BY <2>1, <2>2, <2>3, <2>4 DEF Inv, TypeOK, hookVars
<1>2. FanoutFits'
  <2> SUFFICES ASSUME NEW f \in Event, f # e
               PROVE  FanoutFit(f)'
    BY DEF EmitInTx, FanoutFits, FanoutFit, Inv, TypeOK, Emitted, New
  <2>1. \A h \in Hook : <<f, h>> \in Delivery /\ <<f, h>> \notin ds
    BY DEF Delivery
  <2>2. fanout'[f] = fanout[f]
    BY DEF EmitInTx, Inv, TypeOK
  <2>3. \A h \in Hook : UNCHANGED <<status[<<f, h>>], job[<<f, h>>]>>
    BY <2>1 DEF EmitInTx, Rows
  <2>4. QED
    BY <2>2, <2>3, FanoutKinds DEF Inv, FanoutFits, FanoutFit, Untouched, Owed, TypeOK
<1>3. JobFits'
  BY <1>0, LimitsAssumption DEF EmitInTx, Rows, Inv, JobFits, JobFit, Untouched, Owed, Waiting, NoJob, Recording,
                         Discarded, TypeOK
<1>4. GivesUpInTime' /\ CallsAreLogged'
  BY <1>0 DEF EmitInTx, Rows, Inv, GivesUpInTime, CallsAreLogged, Untouched, Waiting, NoJob, TypeOK
<1>5. QED
  BY <1>1, <1>2, <1>3, <1>4 DEF Inv

(* Steps that only move a fan-out on, to a place that fits. *)
LEMMA FanoutStep ==
  ASSUME Inv, NEW e \in Event, NEW f \in Fanouts,
         fanout' = [fanout EXCEPT ![e] = f], FanoutFit(e)',
         UNCHANGED <<hookVars, rowVars, job, errors, sweep, calls, acked>>
  PROVE  Inv'
<1>1. TypeOK'
  BY DEF Inv, TypeOK, hookVars, rowVars
<1>2. FanoutFits'
  <2> SUFFICES ASSUME NEW g \in Event, g # e
               PROVE  FanoutFit(g)'
    BY DEF FanoutFits
  <2>1. fanout'[g] = fanout[g]
    BY DEF Inv, TypeOK
  <2>2. QED
    BY <2>1 DEF Inv, FanoutFits, FanoutFit, Untouched, Owed, rowVars
<1>3. JobFits' /\ GivesUpInTime' /\ CallsAreLogged'
  BY DEF Inv, JobFits, JobFit, Owed, GivesUpInTime, CallsAreLogged, rowVars
<1>4. QED
  BY <1>1, <1>2, <1>3 DEF Inv

LEMMA EmitInv ==
  ASSUME Inv, NEW e \in Event,
         Emit(e) \/ (\E h \in Hook : SendTest(e, h)) \/ EmitFails(e)
  PROVE  Inv'
<1> fanout \in [Event -> Fanouts]
  BY DEF Inv, TypeOK
<1>1. CASE Emit(e)
  <2>1. Subscribed \in SUBSET Hook
    BY DEF Subscribed
  <2>2. PICK f \in Fanouts : /\ f = Emitted \/ f = Listed(Subscribed)
                             /\ fanout' = [fanout EXCEPT ![e] = f]
    BY <1>1, <2>1 DEF Emit, Fanouts
  <2>3. FanoutFit(e)'
    <3>1. \A h \in Hook : Untouched(<<e, h>>)'
      BY <1>1 DEF Emit, Inv, FanoutFits, FanoutFit, Untouched, rowVars
    <3>2. fanout'[e] = Emitted \/ fanout'[e] = Listed(Subscribed)
      BY <2>2
    <3>3. QED
      BY <2>1, <3>1, <3>2 DEF FanoutFit, Emitted, Listed, New
  <2>4. QED
    BY <1>1, <2>2, <2>3, FanoutStep DEF Emit
<1>2. CASE \E h \in Hook : SendTest(e, h)
  <2> PICK h \in Hook : SendTest(e, h)
    BY <1>2
  <2>1. Listed({h}) \in Fanouts
    BY DEF Fanouts
  <2>2. FanoutFit(e)'
    BY DEF SendTest, Inv, FanoutFits, FanoutFit, Untouched, Listed, New, rowVars
  <2>3. QED
    BY <2>1, <2>2, FanoutStep DEF SendTest
<1>3. CASE EmitFails(e)
  <2>1. Emitted \in Fanouts /\ FanoutFit(e)'
    BY <1>3 DEF EmitFails, Fanouts, FanoutFit, Emitted, New
  <2>2. QED
    BY <1>3, <2>1, FanoutStep DEF EmitFails
<1>4. QED
  BY <1>1, <1>2, <1>3

LEMMA CreateDeliveryInv ==
  ASSUME Inv, NEW e \in Event, NEW h \in Hook, CreateDelivery(e, h)
  PROVE  Inv'
<1> DEFINE d0 == <<e, h>>
           rest == fanout[e].to \ {h}
<1>0. fanout[e] \in Fanouts /\ fanout[e].to \in SUBSET Hook /\ h \in fanout[e].to
  BY FanoutKinds DEF CreateDelivery, Inv, TypeOK
<1>1. d0 \in Delivery /\ Untouched(d0) /\ attempts[d0] = 0
  BY Pairs DEF CreateDelivery, Inv, FanoutFits, FanoutFit, JobFits, JobFit, Untouched
<1>2. Inserted(h, rest) \in Fanouts
  BY <1>0, FanoutTypes, rest \in SUBSET Hook
<1>3. /\ fanout' = [fanout EXCEPT ![e] = Inserted(h, rest)]
      /\ status' = [status EXCEPT ![d0] = "pending"]
      /\ fresh' = [fresh EXCEPT ![d0] = TRUE]
  <2>1. \A d \in Delivery : (d \in {<<e, h>>}) <=> d = d0
    OBVIOUS
  <2>2. status \in [Delivery -> {"none", "pending", "retrying", "delivered", "failed"}]
        /\ fresh \in [Delivery -> BOOLEAN]
    BY DEF Inv, TypeOK
  <2>3. QED
    BY <2>1, <2>2 DEF CreateDelivery, Rows
<1>4. UNCHANGED <<hookVars, attempts, answer, job, errors, sweep, calls, acked>>
  BY DEF CreateDelivery, Rows
<1>5. TypeOK'
  BY <1>1, <1>2, <1>3, <1>4 DEF Inv, TypeOK, hookVars
<1>6. FanoutFits'
  <2> SUFFICES ASSUME NEW f \in Event
               PROVE  FanoutFit(f)'
    BY DEF FanoutFits
  <2>1. \A k \in Hook : <<f, k>> # d0 => status'[<<f, k>>] = status[<<f, k>>]
    BY <1>3, Pairs DEF Inv, TypeOK
  <2>2. CASE f = e
    <3>1. fanout'[e] = Inserted(h, rest)
      BY <1>3 DEF Inv, TypeOK
    <3>2. status'[d0] = "pending" /\ job'[d0] = NoJob
      BY <1>1, <1>3, <1>4 DEF Inv, TypeOK, Untouched
    <3>3. \A k \in rest : Untouched(<<e, k>>)'
      <4> TAKE k \in rest
      <4>1. k \in Hook /\ <<e, k>> # d0 /\ Untouched(<<e, k>>)
        BY <1>0, Pairs DEF CreateDelivery, Inv, FanoutFits, FanoutFit
      <4>2. QED
        BY <1>4, <2>1, <2>2, <4>1 DEF Untouched
    <3>4. QED
      BY <2>2, <3>1, <3>2, <3>3 DEF FanoutFit, Inserted, New, Owed
  <2>3. CASE f # e
    <3>1. fanout'[f] = fanout[f]
      BY <1>3, <2>3 DEF Inv, TypeOK
    <3>2. \A k \in Hook : status'[<<f, k>>] = status[<<f, k>>] /\ job' = job
      BY <1>4, <2>1, <2>3
    <3>3. QED
      BY <3>1, <3>2, FanoutKinds DEF Inv, FanoutFits, FanoutFit, Untouched, Owed, TypeOK
  <2>4. QED
    BY <2>2, <2>3
<1>7. JobFits'
  BY <1>1, <1>3, <1>4, LimitsAssumption DEF Inv, JobFits, JobFit, Owed, Untouched, TypeOK, NoJob
<1>8. GivesUpInTime' /\ CallsAreLogged'
  BY <1>1, <1>3, <1>4 DEF Inv, GivesUpInTime, CallsAreLogged, Untouched, TypeOK
<1>9. QED
  BY <1>5, <1>6, <1>7, <1>8 DEF Inv

LEMMA InsertJobInv ==
  ASSUME Inv, NEW e \in Event, InsertJob(e)
  PROVE  Inv'
<1> DEFINE h == fanout[e].on
           d0 == <<e, h>>
           rest == fanout[e].to
<1>0. fanout[e] \in Fanouts /\ rest \in SUBSET Hook /\ h \in Hook /\ h \notin rest
  BY FanoutKinds DEF InsertJob, Inv, TypeOK, FanoutFits, FanoutFit
<1>1. d0 \in Delivery /\ Owed(d0) /\ job[d0] = NoJob
  BY <1>0, Pairs DEF InsertJob, Inv, FanoutFits, FanoutFit
<1>2. PICK g \in Fanouts : /\ g = Emitted \/ g = Listed(rest)
                           /\ fanout' = [fanout EXCEPT ![e] = g]
  <2>1. Emitted \in Fanouts /\ Listed(rest) \in Fanouts
    BY <1>0 DEF Fanouts
  <2>2. QED
    BY <2>1 DEF InsertJob, Inv, TypeOK
<1>3. job' = [job EXCEPT ![d0] = Waiting]
  BY DEF InsertJob
<1>4. UNCHANGED <<hookVars, rowVars, errors, sweep, calls, acked>>
  BY DEF InsertJob
<1>5. TypeOK'
  <2>1. job' \in [Delivery -> Jobs]
    BY <1>3 DEF Inv, TypeOK, Jobs
  <2>2. QED
    BY <1>2, <1>4, <2>1 DEF Inv, TypeOK, hookVars, rowVars
<1>6. FanoutFits'
  <2> SUFFICES ASSUME NEW f \in Event
               PROVE  FanoutFit(f)'
    BY DEF FanoutFits
  <2>1. \A k \in Hook : <<f, k>> # d0 => job'[<<f, k>>] = job[<<f, k>>]
    BY <1>3, Pairs DEF Inv, TypeOK
  <2>2. CASE f = e
    <3>1. fanout'[e] = Emitted \/ fanout'[e] = Listed(rest)
      BY <1>2 DEF Inv, TypeOK
    <3>2. \A k \in rest : Untouched(<<e, k>>)'
      BY <1>0, <1>4, <2>1, <2>2, Pairs DEF InsertJob, Inv, FanoutFits, FanoutFit, Untouched,
                                           rowVars
    <3>3. QED
      BY <2>2, <3>1, <3>2 DEF FanoutFit, Emitted, Listed, New
  <2>3. CASE f # e
    <3>1. fanout'[f] = fanout[f]
      BY <1>2, <2>3 DEF Inv, TypeOK
    <3>2. \A k \in Hook : job'[<<f, k>>] = job[<<f, k>>] /\ status' = status
      BY <1>4, <2>1, <2>3 DEF rowVars
    <3>3. QED
      BY <3>1, <3>2, FanoutKinds DEF Inv, FanoutFits, FanoutFit, Untouched, Owed, TypeOK
  <2>4. QED
    BY <2>2, <2>3
<1>7. JobFits'
  BY <1>1, <1>3, <1>4 DEF Inv, JobFits, JobFit, Owed, TypeOK, NoJob, Waiting, Recording,
                          Discarded, rowVars
<1>8. GivesUpInTime' /\ CallsAreLogged'
  BY <1>1, <1>3, <1>4 DEF Inv, GivesUpInTime, CallsAreLogged, TypeOK, rowVars, NoJob, Waiting
<1>9. QED
  BY <1>5, <1>6, <1>7, <1>8 DEF Inv

(* A job is no part of a fan-out any more. *)
LEMMA OthersStay ==
  ASSUME Inv, NEW d \in Delivery, job[d] # NoJob, UNCHANGED fanout,
         \A c \in Delivery \ {d} : UNCHANGED <<status[c], job[c]>>
  PROVE  FanoutFits'
<1> SUFFICES ASSUME NEW e \in Event
             PROVE  FanoutFit(e)'
  BY DEF FanoutFits
<1>1. \A h \in Hook : job[<<e, h>>] = NoJob => UNCHANGED <<status[<<e, h>>], job[<<e, h>>]>>
  BY Pairs
<1>2. fanout[e] \in Fanouts
  BY DEF Inv, TypeOK
<1>3. QED
  BY <1>1, <1>2, FanoutKinds DEF Inv, FanoutFits, FanoutFit, Untouched, Owed

(* The states of a job. *)
LEMMA JobKinds ==
  ASSUME NEW ans \in Answers
  PROVE  /\ {Waiting, Reading, Finishing, Over, Discarded, Recording(ans), Counting(ans)}
               \subseteq Jobs \ {NoJob}
         /\ \A j \in Jobs : j.at \in {"recording", "counting"} => j.answer \in Answers
         /\ \A j \in Jobs : j.at = "recording" => j = Recording(j.answer)
BY DEF Jobs, NoJob, Waiting, Reading, Finishing, Over, Discarded, Recording, Counting

LEMMA ReadDeliveryInv ==
  ASSUME Inv, NEW d \in Delivery, ReadDelivery(d)
  PROVE  Inv'
<1>0. job[d] # NoJob /\ AfterRead(d) \in Jobs
  BY JobKinds DEF ReadDelivery, AfterRead, Jobs, Waiting, NoJob
<1>1. TypeOK'
  BY <1>0 DEF ReadDelivery, SetJob, Inv, TypeOK, hookVars, rowVars
<1>2. FanoutFits'
  BY <1>0, OthersStay DEF ReadDelivery, SetJob, rowVars, Inv, TypeOK
<1>3. JobFits'
  <2>1. status[d] # "none" /\ errors[d] < JobAttempts
    BY DEF ReadDelivery, Inv, JobFits, JobFit, Waiting, NoJob, Discarded
  <2>2. AfterRead(d) = Over \/ (AfterRead(d) = Reading /\ Owed(d))
    BY <2>1 DEF AfterRead, Ended, Owed, Inv, TypeOK
  <2>3. QED
    BY <2>1, <2>2 DEF ReadDelivery, SetJob, Inv, JobFits, JobFit, Owed, TypeOK, rowVars, Over, Reading,
                      Recording, Discarded
<1>4. GivesUpInTime' /\ CallsAreLogged'
  BY DEF ReadDelivery, SetJob, AfterRead, Inv, GivesUpInTime, CallsAreLogged, TypeOK, rowVars,
         Waiting, Reading, Over
<1>5. QED
  BY <1>1, <1>2, <1>3, <1>4 DEF Inv

LEMMA AbandonInv ==
  ASSUME Inv, NEW d \in Delivery, Abandon(d)
  PROVE  Inv'
<1>0. job[d] # NoJob /\ Recording("disabled") \in Jobs
  BY JobKinds DEF Abandon, Reading, NoJob, Answers
<1>1. TypeOK'
  BY <1>0 DEF Abandon, SetJob, Inv, TypeOK, hookVars, rowVars
<1>2. FanoutFits'
  BY <1>0, OthersStay DEF Abandon, SetJob, rowVars, Inv, TypeOK
<1>3. JobFits'
  BY DEF Abandon, SetJob, Inv, JobFits, JobFit, Owed, TypeOK, rowVars, Reading, Recording,
         NoJob, Discarded
<1>4. GivesUpInTime' /\ CallsAreLogged'
  BY DEF Abandon, SetJob, Inv, GivesUpInTime, CallsAreLogged, TypeOK, rowVars, Reading, Recording
<1>5. QED
  BY <1>1, <1>2, <1>3, <1>4 DEF Inv

LEMMA CallEndpointInv ==
  ASSUME Inv, NEW d \in Delivery, NEW ans \in Answers, CallEndpoint(d, ans)
  PROVE  Inv'
<1>0. job[d] # NoJob /\ Recording(ans) \in Jobs
  BY JobKinds DEF CallEndpoint, Reading, NoJob
<1>1. TypeOK'
  BY <1>0 DEF CallEndpoint, SetJob, Inv, TypeOK, hookVars, rowVars
<1>2. FanoutFits'
  BY <1>0, OthersStay DEF CallEndpoint, SetJob, rowVars, Inv, TypeOK
<1>3. JobFits'
  BY DEF CallEndpoint, SetJob, Inv, JobFits, JobFit, Owed, TypeOK, rowVars, Reading, Recording,
         NoJob, Discarded
<1>4. GivesUpInTime' /\ CallsAreLogged'
  BY DEF CallEndpoint, SetJob, Inv, GivesUpInTime, CallsAreLogged, TypeOK, rowVars, Reading,
         Recording
<1>5. QED
  BY <1>1, <1>2, <1>3, <1>4 DEF Inv

LEMMA RecordAttemptInv ==
  ASSUME Inv, NEW d \in Delivery, RecordAttempt(d)
  PROVE  Inv'
<1> DEFINE ans == job[d].answer
<1>0. /\ job[d] \in Jobs /\ job[d] # NoJob /\ ans \in Answers
      /\ job[d] = Recording(ans) /\ Counting(ans) \in Jobs
  <2>1. job[d] \in Jobs
    BY DEF Inv, TypeOK
  <2>2. job[d].at = "recording"
    BY DEF RecordAttempt
  <2>3. PICK a \in Answers : job[d] = Recording(a)
    BY <2>1, <2>2 DEF Jobs, NoJob, Waiting, Reading, Finishing, Over, Discarded, Recording, Counting
  <2>4. ans = a
    BY <2>3 DEF Recording
  <2>5. Counting(a) \in Jobs
    BY DEF Jobs
  <2>6. job[d] # NoJob
    BY <2>2 DEF NoJob
  <2>7. QED
    BY <2>1, <2>3, <2>4, <2>5, <2>6
<1>1. /\ Owed(d) /\ attempts[d] \in Nat /\ attempts[d] < MaxTries
      /\ attempts[d] + 1 \in 0..MaxTries /\ errors[d] < JobAttempts
  BY <1>0, LimitsAssumption DEF RecordAttempt, Inv, JobFits, JobFit, TypeOK, Recording, Discarded
<1>2. Outcome(d, ans) \in {"delivered", "failed", "retrying"}
  BY DEF Outcome
<1>3. /\ status' = [status EXCEPT ![d] = Outcome(d, ans)]
      /\ attempts' = [attempts EXCEPT ![d] = attempts[d] + 1]
      /\ answer' = [answer EXCEPT ![d] = ans]
      /\ job' = [job EXCEPT ![d] = Counting(ans)]
      /\ UNCHANGED <<hookVars, fresh, errors, fanout, sweep, calls, acked>>
  BY DEF RecordAttempt, Tried, SetJob
<1>4. TypeOK'
  BY <1>0, <1>1, <1>2, <1>3 DEF Inv, TypeOK, hookVars
<1>5. FanoutFits'
  BY <1>0, <1>3, OthersStay DEF Inv, TypeOK
<1>6. Outcome(d, ans) = "retrying" =>
         attempts[d] + 1 < (IF ans = "refused" THEN MaxRefusals ELSE MaxTries)
  BY <1>0, <1>1, LimitsAssumption DEF Outcome, Spent, Answers
<1>7. Outcome(d, ans) = "failed" =>
         \/ ans = "again" /\ attempts[d] + 1 = MaxTries
         \/ ans = "refused" /\ attempts[d] + 1 >= MaxRefusals
         \/ ans = "disabled"
  BY <1>0, <1>1, LimitsAssumption DEF Outcome, Spent, Answers
<1>8. JobFits'
  <2>1. JobFit(d)'
    BY <1>1, <1>2, <1>3, <1>6, LimitsAssumption DEF Inv, JobFit, Owed, TypeOK, Counting, NoJob, Recording,
                                   Discarded
  <2>2. ASSUME NEW c \in Delivery, c # d PROVE JobFit(c)'
    BY <1>3, <2>2 DEF Inv, JobFits, JobFit, Owed, TypeOK
  <2>3. QED
    BY <2>1, <2>2 DEF JobFits
<1>9. GivesUpInTime'
  BY <1>2, <1>3, <1>6, <1>7 DEF Inv, GivesUpInTime, TypeOK
<1>10. CallsAreLogged'
  BY <1>0, <1>1, <1>3 DEF Inv, CallsAreLogged, TypeOK, Recording, Counting
<1>11. QED
  BY <1>4, <1>5, <1>8, <1>9, <1>10 DEF Inv

LEMMA CountAttemptInv ==
  ASSUME Inv, NEW d \in Delivery, CountAttempt(d)
  PROVE  Inv'
<1>0. job[d] # NoJob /\ Finishing \in Jobs
  BY DEF CountAttempt, NoJob, Jobs
<1>1. HookOf(d) \in Hook
  BY DEF HookOf, Delivery
<1>2. TypeOK'
  BY <1>0, <1>1 DEF CountAttempt, SetJob, Inv, TypeOK, rowVars
<1>3. FanoutFits'
  BY <1>0, OthersStay DEF CountAttempt, SetJob, rowVars, Inv, TypeOK
<1>4. JobFits'
  BY <1>0 DEF CountAttempt, SetJob, Inv, JobFits, JobFit, Owed, TypeOK, rowVars, Finishing, Recording,
         Discarded
<1>5. GivesUpInTime' /\ CallsAreLogged'
  BY DEF CountAttempt, SetJob, Inv, GivesUpInTime, CallsAreLogged, TypeOK, rowVars, Finishing
<1>6. QED
  BY <1>2, <1>3, <1>4, <1>5 DEF Inv

LEMMA FinishRunInv ==
  ASSUME Inv, NEW d \in Delivery, FinishRun(d)
  PROVE  Inv'
<1>0. job[d] # NoJob /\ NextRun(d) \in Jobs /\ NextRun(d) \in {Waiting, Over}
  BY DEF FinishRun, NextRun, Finishing, NoJob, Jobs
<1>1. TypeOK'
  BY <1>0 DEF FinishRun, SetJob, Inv, TypeOK, hookVars, rowVars
<1>2. FanoutFits'
  BY <1>0, OthersStay DEF FinishRun, SetJob, rowVars, Inv, TypeOK
<1>3. JobFits'
  BY <1>0 DEF FinishRun, SetJob, Inv, JobFits, JobFit, Owed, TypeOK, rowVars, Finishing, Recording,
         Waiting, Over, Discarded
<1>4. GivesUpInTime' /\ CallsAreLogged'
  BY <1>0 DEF FinishRun, SetJob, Inv, GivesUpInTime, CallsAreLogged, TypeOK, rowVars, Finishing,
              Waiting, Over
<1>5. QED
  BY <1>1, <1>2, <1>3, <1>4 DEF Inv

LEMMA JobFailsInv ==
  ASSUME Inv, NEW d \in Delivery, JobFails(d)
  PROVE  Inv'
<1> DEFINE after == IF errors[d] + 1 < JobAttempts THEN Waiting ELSE Discarded
<1>0. job[d] # NoJob /\ job[d] # Discarded /\ after \in Jobs /\ after \in {Waiting, Discarded}
  BY DEF JobFails, Working, NoJob, Jobs, Discarded
<1>1. errors[d] \in Nat /\ errors[d] + 1 \in 0..JobAttempts
  BY <1>0, LimitsAssumption DEF Inv, JobFits, JobFit, TypeOK
<1>2. /\ errors' = [errors EXCEPT ![d] = errors[d] + 1]
      /\ job' = [job EXCEPT ![d] = after]
      /\ UNCHANGED <<hookVars, rowVars, fanout, sweep, calls, acked>>
  BY DEF JobFails, SetJob
<1>3. TypeOK'
  BY <1>0, <1>1, <1>2 DEF Inv, TypeOK, hookVars, rowVars
<1>4. FanoutFits'
  BY <1>0, <1>2, OthersStay DEF rowVars, Inv, TypeOK
<1>5. JobFits'
  BY <1>0, <1>1, <1>2, LimitsAssumption DEF Inv, JobFits, JobFit, Owed, TypeOK, rowVars, Recording, Waiting,
                              Discarded
<1>6. GivesUpInTime' /\ CallsAreLogged'
  BY <1>0, <1>1, <1>2 DEF Inv, GivesUpInTime, CallsAreLogged, TypeOK, rowVars, Waiting, Discarded
<1>7. QED
  BY <1>3, <1>4, <1>5, <1>6 DEF Inv

LEMMA StutterInv ==
  ASSUME Inv, UNCHANGED vars
  PROVE  Inv'
<1>1. TypeOK'
  BY DEF Inv, TypeOK, vars, hookVars, rowVars
<1>2. QED
  BY <1>1, QuietStep DEF vars, rowVars

LEMMA StepInv == Inv /\ [Next]_vars => Inv'
<1> SUFFICES ASSUME Inv, [Next]_vars PROVE Inv'
  OBVIOUS
<1>1. ASSUME NEW h \in Hook, OwnerStep(h) \/ DayPasses(h) PROVE Inv'
  BY <1>1, OwnerInv
<1>2. ASSUME NEW e \in Event, EmitStep(e) PROVE Inv'
  BY <1>2, EmitInTxInv, EmitInv, CreateDeliveryInv, InsertJobInv DEF EmitStep
<1>3. ASSUME NEW d \in Delivery, JobStep(d) PROVE Inv'
  BY <1>3, ReadDeliveryInv, AbandonInv, CallEndpointInv, RecordAttemptInv, CountAttemptInv,
     FinishRunInv DEF JobStep
<1>4. ASSUME NEW d \in Delivery, JobFails(d) PROVE Inv'
  BY <1>4, JobFailsInv
<1>5. CASE SweepStep
  BY <1>5, SweepInv
<1>6. CASE UNCHANGED vars
  BY <1>6, StutterInv
<1>7. QED
  BY <1>1, <1>2, <1>3, <1>4, <1>5, <1>6 DEF Next

LEMMA InvHolds == Spec => []Inv
BY InitInv, StepInv, PTL DEF Spec

(* Type correctness of the webhooks, their deliveries and jobs; the number  *)
(* of attempts never leaves the ladder.                                     *)
THEOREM TypeCorrect == Spec => []TypeOK
<1>1. Inv => TypeOK
  BY DEF Inv
<1>2. QED
  BY <1>1, InvHolds, PTL

(* Deliveries are given up after the tries their answers allow, not before  *)
(* and not after (attempt: limit).                                          *)
THEOREM GivesUpInTimeHolds == Spec => []GivesUpInTime
<1>1. Inv => GivesUpInTime
  BY DEF Inv
<1>2. QED
  BY <1>1, InvHolds, PTL

(* Requests to the endpoint never outnumber the logged attempts by more     *)
(* than the failed runs of the job (RecordDeliveryAttempt).                 *)
THEOREM CallsAreLoggedHolds == Spec => []CallsAreLogged
<1>1. Inv => CallsAreLogged
  BY DEF Inv
<1>2. QED
  BY <1>1, InvHolds, PTL

-----------------------------------------------------------------------------
(***************************************************************************)
(* The webhook's counters and its log.  Beside Inv this is inductive: only *)
(* a recorded acknowledgement makes a delivery delivered, and its job then *)
(* counts it, or fails.  The log of a webhook is finite, for it grows by a *)
(* delivery at a time; the sets of events and webhooks need not be.        *)
(***************************************************************************)
DeliveredOf(h) == {d \in Delivery : HookOf(d) = h /\ status[d] = "delivered"}
UncountedOf(h) == {d \in Delivery : HookOf(d) = h /\ job[d] = Counting("ok")}
NoneFailed(h) == \A d \in Delivery : HookOf(d) = h => errors[d] = 0

Agrees(h) ==
    /\ IsFiniteSet(DeliveredOf(h)) /\ IsFiniteSet(UncountedOf(h))
    /\ success[h] + Cardinality(UncountedOf(h)) <= Cardinality(DeliveredOf(h))
    /\ NoneFailed(h) =>
          success[h] + Cardinality(UncountedOf(h)) = Cardinality(DeliveredOf(h))

CountersAgree == \A h \in Hook : Agrees(h)

(* It says what the property says. *)
LEMMA AgreeIsMatch == CountersAgree => CountersMatchLog
<1> SUFFICES ASSUME CountersAgree, NEW h \in Hook
             PROVE  LET mine == {d \in Delivery : HookOf(d) = h}
                        delivered == Cardinality({d \in mine : status[d] = "delivered"})
                        uncounted == Cardinality({d \in mine : job[d] = Counting("ok")})
                    IN  /\ success[h] + uncounted <= delivered
                        /\ (\A d \in mine : errors[d] = 0) => success[h] + uncounted = delivered
  BY DEF CountersMatchLog
<1> DEFINE mine == {d \in Delivery : HookOf(d) = h}
<1>1. /\ {d \in mine : status[d] = "delivered"} = DeliveredOf(h)
      /\ {d \in mine : job[d] = Counting("ok")} = UncountedOf(h)
      /\ (\A d \in mine : errors[d] = 0) => NoneFailed(h)
  BY DEF DeliveredOf, UncountedOf, NoneFailed
<1>2. Agrees(h)
  BY DEF CountersAgree
<1> HIDE DEF mine
<1> QED
  BY <1>1, <1>2 DEF Agrees, mine

(* A webhook whose log and counters stay agrees as before. *)
LEMMA AgreesKept ==
  ASSUME NEW h \in Hook, Agrees(h), success'[h] = success[h],
         \A d \in Delivery : HookOf(d) = h =>
            /\ status'[d] = "delivered" <=> status[d] = "delivered"
            /\ job'[d] = Counting("ok") <=> job[d] = Counting("ok")
            /\ errors'[d] = 0 => errors[d] = 0
  PROVE  Agrees(h)'
<1>1. DeliveredOf(h)' = DeliveredOf(h) /\ UncountedOf(h)' = UncountedOf(h)
  BY DEF DeliveredOf, UncountedOf
<1>2. NoneFailed(h)' => NoneFailed(h)
  BY DEF NoneFailed
<1> QED
  BY <1>1, <1>2 DEF Agrees

(* At first nothing is delivered and nothing counted. *)
LEMMA InitAgrees == Init => CountersAgree
<1> SUFFICES ASSUME Init, NEW h \in Hook PROVE Agrees(h)
  BY DEF CountersAgree
<1>1. DeliveredOf(h) = {} /\ UncountedOf(h) = {} /\ success[h] = 0
  BY DEF Init, DeliveredOf, UncountedOf, NoJob, Counting
<1>2. IsFiniteSet({}) /\ Cardinality({}) = 0
  BY FS_EmptySet
<1> QED
  BY <1>1, <1>2 DEF Agrees

(* New rows and jobs are of deliveries there were not. *)
LEMMA EmitAgrees ==
  ASSUME Inv, CountersAgree, NEW e \in Event, EmitStep(e)
  PROVE  CountersAgree'
<1> SUFFICES ASSUME NEW h \in Hook PROVE Agrees(h)'
  BY DEF CountersAgree
<1>0. Agrees(h)
  BY DEF CountersAgree
<1>1. CASE EmitInTx(e)
  <2> DEFINE ds == {e} \X Subscribed
  <2>1. \A d \in ds : status[d] = "none" /\ job[d] = NoJob
    <3>1. \A k \in Hook : Untouched(<<e, k>>)
      BY <1>1 DEF EmitInTx, Inv, FanoutFits, FanoutFit
    <3>2. \A d \in ds : \E k \in Hook : d = <<e, k>>
      BY DEF Subscribed
    <3> QED
      BY <3>1, <3>2 DEF Untouched
  <2>2. /\ \A d \in Delivery : status'[d] = IF d \in ds THEN "pending" ELSE status[d]
        /\ \A d \in Delivery : job'[d] = IF d \in ds THEN Waiting ELSE job[d]
        /\ UNCHANGED <<success, errors>>
    BY <1>1 DEF EmitInTx, Rows, hookVars
  <2> HIDE DEF ds
  <2>3. Waiting # Counting("ok") /\ NoJob # Counting("ok")
    BY DEF Waiting, NoJob, Counting
  <2> QED
    BY <1>0, <2>1, <2>2, <2>3, AgreesKept
<1>2. ASSUME NEW k \in Hook, CreateDelivery(e, k) PROVE Agrees(h)'
  <2>1. status[<<e, k>>] = "none"
    BY <1>2 DEF CreateDelivery, Inv, FanoutFits, FanoutFit, Untouched
  <2>2. /\ \A d \in Delivery : status'[d] = IF d \in {<<e, k>>} THEN "pending" ELSE status[d]
        /\ UNCHANGED <<success, errors, job>>
    BY <1>2 DEF CreateDelivery, Rows, hookVars
  <2> QED
    BY <1>0, <2>1, <2>2, AgreesKept
<1>3. CASE InsertJob(e)
  <2> DEFINE c == <<e, fanout[e].on>>
  <2>1. job[c] = NoJob
    BY <1>3 DEF InsertJob, Inv, FanoutFits, FanoutFit
  <2>2. job' = [job EXCEPT ![c] = Waiting] /\ UNCHANGED <<success, errors, status>>
    BY <1>3 DEF InsertJob, hookVars, rowVars
  <2> HIDE DEF c
  <2>3. \A d \in Delivery : job'[d] = Counting("ok") <=> job[d] = Counting("ok")
    BY <2>1, <2>2 DEF Waiting, NoJob, Counting, Inv, TypeOK
  <2> QED
    BY <1>0, <2>2, <2>3, AgreesKept
<1>4. CASE Emit(e) \/ EmitFails(e) \/ \E k \in Hook : SendTest(e, k)
  <2>1. UNCHANGED <<success, errors, status, job>>
    BY <1>4 DEF Emit, EmitFails, SendTest, hookVars, rowVars
  <2> QED
    BY <1>0, <2>1, AgreesKept
<1> QED
  BY <1>1, <1>2, <1>3, <1>4 DEF EmitStep

(* An acknowledgement that is recorded waits to be counted. *)
LEMMA RecordAgrees ==
  ASSUME Inv, CountersAgree, NEW d \in Delivery, RecordAttempt(d)
  PROVE  CountersAgree'
<1> DEFINE ans == job[d].answer
<1> SUFFICES ASSUME NEW h \in Hook PROVE Agrees(h)'
  BY DEF CountersAgree
<1>0. Agrees(h)
  BY DEF CountersAgree
<1>1. /\ status[d] \in {"pending", "retrying"} /\ job[d].at = "recording"
      /\ job[d] # Counting("ok")
  BY DEF RecordAttempt, Inv, JobFits, JobFit, Owed, Counting
<1>2. /\ status' = [status EXCEPT ![d] = Outcome(d, ans)]
      /\ job' = [job EXCEPT ![d] = Counting(ans)]
      /\ UNCHANGED <<success, errors>>
  BY DEF RecordAttempt, SetJob, hookVars
<1>3. /\ \A c \in Delivery : status'[c] = IF c = d THEN Outcome(d, ans) ELSE status[c]
      /\ \A c \in Delivery : job'[c] = IF c = d THEN Counting(ans) ELSE job[c]
  BY <1>2 DEF Inv, TypeOK
<1>4. /\ Outcome(d, ans) = "delivered" <=> ans = "ok"
      /\ Counting(ans) = Counting("ok") <=> ans = "ok"
  BY DEF Outcome, Counting
<1> HIDE DEF ans
<1>5. CASE ans = "ok" /\ HookOf(d) = h
  <2>1. /\ DeliveredOf(h)' = DeliveredOf(h) \cup {d} /\ d \notin DeliveredOf(h)
        /\ UncountedOf(h)' = UncountedOf(h) \cup {d} /\ d \notin UncountedOf(h)
    BY <1>1, <1>3, <1>4, <1>5 DEF DeliveredOf, UncountedOf
  <2>2. /\ IsFiniteSet(DeliveredOf(h)') /\ IsFiniteSet(UncountedOf(h)')
        /\ Cardinality(DeliveredOf(h)') = Cardinality(DeliveredOf(h)) + 1
        /\ Cardinality(UncountedOf(h)') = Cardinality(UncountedOf(h)) + 1
    <3>1. ASSUME NEW S, IsFiniteSet(S), d \notin S
          PROVE  IsFiniteSet(S \cup {d}) /\ Cardinality(S \cup {d}) = Cardinality(S) + 1
      BY <3>1, FS_AddElement
    <3>2. IsFiniteSet(DeliveredOf(h)) /\ IsFiniteSet(UncountedOf(h))
      BY <1>0 DEF Agrees
    <3> QED
      BY <2>1, <3>1, <3>2
  <2>3. /\ Cardinality(DeliveredOf(h)) \in Nat /\ Cardinality(UncountedOf(h)) \in Nat
        /\ success[h] \in Nat /\ success'[h] = success[h]
    BY <1>0, <1>2, FS_CardinalityType DEF Agrees, Inv, TypeOK
  <2>4. NoneFailed(h)' => NoneFailed(h)
    BY <1>2 DEF NoneFailed
  <2> QED
    BY <1>0, <2>2, <2>3, <2>4 DEF Agrees
<1>6. CASE ~(ans = "ok" /\ HookOf(d) = h)
  <2>1. \A c \in Delivery : HookOf(c) = h =>
           /\ status'[c] = "delivered" <=> status[c] = "delivered"
           /\ job'[c] = Counting("ok") <=> job[c] = Counting("ok")
    BY <1>1, <1>3, <1>4, <1>6
  <2> QED
    BY <1>0, <1>2, <2>1, AgreesKept
<1> QED
  BY <1>5, <1>6

(* And is counted once. *)
LEMMA CountAgrees ==
  ASSUME Inv, CountersAgree, NEW d \in Delivery, CountAttempt(d)
  PROVE  CountersAgree'
<1> DEFINE ok == job[d].answer = "ok"
<1> SUFFICES ASSUME NEW h \in Hook PROVE Agrees(h)'
  BY DEF CountersAgree
<1>0. Agrees(h) /\ success[h] \in Nat /\ HookOf(d) \in Hook
  BY DEF CountersAgree, Inv, TypeOK, HookOf, Delivery
<1>1. job[d].at = "counting" /\ (ok <=> job[d] = Counting("ok"))
  <2>1. job[d] \in Jobs /\ job[d].at = "counting"
    BY DEF CountAttempt, Inv, TypeOK
  <2>2. PICK a \in Answers : job[d] = Counting(a)
    BY <2>1 DEF Jobs, NoJob, Waiting, Reading, Finishing, Over, Discarded, Recording
  <2> QED
    BY <2>1, <2>2 DEF Counting
<1>2. /\ success'[h] = IF h = HookOf(d) /\ ok THEN success[h] + 1 ELSE success[h]
      /\ UNCHANGED <<status, errors>>
  BY <1>0 DEF CountAttempt, rowVars, Inv, TypeOK
<1>3. \A c \in Delivery : job'[c] = IF c = d THEN Finishing ELSE job[c]
  BY DEF CountAttempt, SetJob, Inv, TypeOK
<1>4. Finishing # Counting("ok")
  BY DEF Finishing, Counting
<1> HIDE DEF ok
<1>5. CASE ok /\ HookOf(d) = h
  <2>1. UncountedOf(h)' = UncountedOf(h) \ {d} /\ d \in UncountedOf(h)
    BY <1>1, <1>3, <1>4, <1>5 DEF UncountedOf
  <2>2. /\ IsFiniteSet(UncountedOf(h)')
        /\ Cardinality(UncountedOf(h)') = Cardinality(UncountedOf(h)) - 1
    BY <1>0, <2>1, FS_RemoveElement DEF Agrees
  <2>3. /\ Cardinality(DeliveredOf(h)) \in Nat /\ Cardinality(UncountedOf(h)) \in Nat
        /\ success'[h] = success[h] + 1
    BY <1>0, <1>2, <1>5, FS_CardinalityType DEF Agrees
  <2>4. DeliveredOf(h)' = DeliveredOf(h) /\ (NoneFailed(h)' => NoneFailed(h))
    BY <1>2 DEF DeliveredOf, NoneFailed
  <2> QED
    BY <1>0, <2>2, <2>3, <2>4 DEF Agrees
<1>6. CASE ~(ok /\ HookOf(d) = h)
  <2>1. \A c \in Delivery : HookOf(c) = h =>
           (job'[c] = Counting("ok") <=> job[c] = Counting("ok"))
    BY <1>1, <1>3, <1>4, <1>6
  <2>2. success'[h] = success[h]
    BY <1>2, <1>6
  <2> QED
    BY <1>0, <1>2, <2>1, <2>2, AgreesKept
<1> QED
  BY <1>5, <1>6

(* A job that fails may leave an acknowledgement out of the counters. *)
LEMMA FailAgrees ==
  ASSUME Inv, CountersAgree, NEW d \in Delivery, JobFails(d)
  PROVE  CountersAgree'
<1> SUFFICES ASSUME NEW h \in Hook PROVE Agrees(h)'
  BY DEF CountersAgree
<1> DEFINE after == IF errors[d] + 1 < JobAttempts THEN Waiting ELSE Discarded
<1>0. Agrees(h) /\ success[h] \in Nat
  BY DEF CountersAgree, Inv, TypeOK
<1>1. /\ \A c \in Delivery : job'[c] = IF c = d THEN after ELSE job[c]
      /\ \A c \in Delivery : errors'[c] = IF c = d THEN errors[d] + 1 ELSE errors[c]
      /\ UNCHANGED <<success, status>>
  BY DEF JobFails, SetJob, hookVars, rowVars, Inv, TypeOK
<1>2. after # Counting("ok") /\ errors[d] \in Nat
  BY DEF Waiting, Discarded, Counting, Inv, TypeOK
<1> HIDE DEF after
<1>3. CASE job[d] = Counting("ok") /\ HookOf(d) = h
  <2>1. UncountedOf(h)' = UncountedOf(h) \ {d} /\ d \in UncountedOf(h)
    BY <1>1, <1>2, <1>3 DEF UncountedOf
  <2>2. /\ IsFiniteSet(UncountedOf(h)')
        /\ Cardinality(UncountedOf(h)') = Cardinality(UncountedOf(h)) - 1
    BY <1>0, <2>1, FS_RemoveElement DEF Agrees
  <2>3. /\ Cardinality(DeliveredOf(h)) \in Nat /\ Cardinality(UncountedOf(h)) \in Nat
        /\ DeliveredOf(h)' = DeliveredOf(h) /\ success' = success
    BY <1>0, <1>1, FS_CardinalityType DEF Agrees, DeliveredOf
  <2>4. ~NoneFailed(h)'
    <3>1. errors'[d] # 0
      BY <1>1, <1>2
    <3> QED
      BY <1>3, <3>1 DEF NoneFailed
  <2> QED
    BY <1>0, <2>2, <2>3, <2>4 DEF Agrees
<1>4. CASE ~(job[d] = Counting("ok") /\ HookOf(d) = h)
  <2>1. \A c \in Delivery : HookOf(c) = h =>
           /\ job'[c] = Counting("ok") <=> job[c] = Counting("ok")
           /\ errors'[c] = 0 => errors[c] = 0
    BY <1>1, <1>2, <1>4
  <2> QED
    BY <1>0, <1>1, <2>1, AgreesKept
<1> QED
  BY <1>3, <1>4

(* The other steps of a job neither deliver nor count. *)
LEMMA JobAgrees ==
  ASSUME Inv, CountersAgree, NEW d \in Delivery, JobStep(d)
  PROVE  CountersAgree'
<1>1. ASSUME NEW to \in Jobs, SetJob(d, to), to.at # "counting", job[d].at # "counting",
             UNCHANGED <<success, status, errors>>
      PROVE  CountersAgree'
  <2>1. \A c \in Delivery : job'[c] = IF c = d THEN to ELSE job[c]
    BY <1>1 DEF SetJob, Inv, TypeOK
  <2>2. \A c \in Delivery : job'[c] = Counting("ok") <=> job[c] = Counting("ok")
    BY <1>1, <2>1 DEF Counting
  <2> QED
    BY <1>1, <2>2, AgreesKept DEF CountersAgree
<1>2. CASE ReadDelivery(d)
  <2>1. AfterRead(d) \in Jobs /\ AfterRead(d).at # "counting"
    BY DEF AfterRead, Over, Reading, Jobs
  <2> QED
    BY <1>1, <1>2, <2>1 DEF ReadDelivery, Waiting, hookVars, rowVars
<1>3. CASE Abandon(d)
  <2>1. Recording("disabled") \in Jobs /\ Recording("disabled").at # "counting"
    BY JobKinds DEF Recording, Answers
  <2> QED
    BY <1>1, <1>3, <2>1 DEF Abandon, Reading, hookVars, rowVars
<1>4. ASSUME NEW ans \in Answers, CallEndpoint(d, ans) PROVE CountersAgree'
  <2>1. Recording(ans) \in Jobs /\ Recording(ans).at # "counting"
    BY JobKinds DEF Recording
  <2> QED
    BY <1>1, <1>4, <2>1 DEF CallEndpoint, Reading, hookVars, rowVars
<1>5. CASE FinishRun(d)
  <2>1. NextRun(d) \in Jobs /\ NextRun(d).at # "counting"
    BY DEF NextRun, Waiting, Over, Jobs
  <2> QED
    BY <1>1, <1>5, <2>1 DEF FinishRun, Finishing, hookVars, rowVars
<1> QED
  BY <1>2, <1>3, <1>4, <1>5, RecordAgrees, CountAgrees DEF JobStep

LEMMA StepAgrees == Inv /\ CountersAgree /\ [Next]_vars => CountersAgree'
<1> SUFFICES ASSUME Inv, CountersAgree, [Next]_vars PROVE CountersAgree'
  OBVIOUS
<1>0. ASSUME UNCHANGED <<success, status, job, errors>> PROVE CountersAgree'
  BY <1>0, AgreesKept DEF CountersAgree
<1>1. ASSUME NEW h \in Hook, OwnerStep(h) \/ DayPasses(h) PROVE CountersAgree'
  BY <1>0, <1>1 DEF OwnerStep, DayPasses, CheckLimit, Create, Enable, Disable, Delete, rowVars
<1>2. CASE SweepStep
  BY <1>0, <1>2 DEF SweepStep, ReadStats, LookAt, Pause, SweepDies, rowVars, hookVars
<1>3. CASE UNCHANGED vars
  BY <1>0, <1>3 DEF vars, rowVars, hookVars
<1> QED
  BY <1>1, <1>2, <1>3, EmitAgrees, JobAgrees, FailAgrees DEF Next

(* A webhook's counter of successes is never ahead of the deliveries that   *)
(* succeeded, and behind only by attempts on their way and by jobs that     *)
(* failed between the two statements of RecordDeliveryAttempt.              *)
THEOREM CountersMatchLogHolds == Spec => []CountersMatchLog
<1>1. Init => CountersAgree
  BY InitAgrees
<1>2. Inv /\ CountersAgree /\ [Next]_vars => CountersAgree'
  BY StepAgrees
<1> QED
  BY <1>1, <1>2, InvHolds, AgreeIsMatch, PTL DEF Spec

-----------------------------------------------------------------------------
(* Deliveries keep the promise of EventDelivery *)

stateOf == [d \in Delivery |-> IF status[d] \in {"pending", "retrying"} THEN "owed" ELSE status[d]]

LEMMA InitPromise == Init => Promise!Init
BY DEF Init, Promise!Init

(* New rows are new debts. *)
LEMMA RowsOwe ==
  ASSUME Inv, NEW ds \in SUBSET Delivery, \A d \in ds : status[d] = "none", Rows(ds),
         UNCHANGED <<calls, acked>>
  PROVE  Promise!Owe(ds)
<1>1. \A d \in Delivery : status'[d] = IF d \in ds THEN "pending" ELSE status[d]
  BY DEF Rows, Inv, TypeOK
<1>2. stateOf' = [d \in Delivery |-> IF d \in ds THEN "owed" ELSE stateOf[d]]
  BY <1>1 DEF stateOf
<1>3. \A d \in ds : stateOf[d] = "none"
  BY DEF stateOf
<1>4. QED
  BY <1>2, <1>3 DEF Promise!Owe, stateOf

LEMMA EmitPromise ==
  ASSUME Inv, NEW e \in Event, EmitStep(e)
  PROVE  [Promise!Next]_<<stateOf, acked, calls>>
<1>1. CASE EmitInTx(e)
  <2>1. PICK ds \in SUBSET Delivery : ds = {e} \X Subscribed
    BY DEF Subscribed, Delivery
  <2>2. ASSUME NEW d \in ds PROVE status[d] = "none"
    <3>1. PICK h \in Hook : d = <<e, h>>
      BY <2>1 DEF Subscribed
    <3>2. Untouched(<<e, h>>)
      BY <1>1 DEF EmitInTx, Inv, FanoutFits, FanoutFit
    <3>3. QED
      BY <3>1, <3>2 DEF Untouched
  <2>3. Rows(ds) /\ UNCHANGED <<calls, acked>>
    BY <1>1, <2>1 DEF EmitInTx
  <2>4. Promise!Owe(ds)
    BY <2>2, <2>3, RowsOwe
  <2>5. QED
    BY <2>4 DEF Promise!Next
<1>2. ASSUME NEW h \in Hook, CreateDelivery(e, h) PROVE Promise!Next
  <2>1. {<<e, h>>} \in SUBSET Delivery
    BY DEF Delivery
  <2>2. status[<<e, h>>] = "none"
    BY <1>2 DEF CreateDelivery, Inv, FanoutFits, FanoutFit, Untouched
  <2>3. Promise!Owe({<<e, h>>})
    BY <1>2, <2>1, <2>2, RowsOwe DEF CreateDelivery
  <2>4. QED
    BY <2>1, <2>3 DEF Promise!Next
<1>3. CASE Emit(e) \/ InsertJob(e) \/ EmitFails(e) \/ \E h \in Hook : SendTest(e, h)
  BY <1>3 DEF Emit, InsertJob, EmitFails, SendTest, rowVars, stateOf
<1>4. QED
  BY <1>1, <1>2, <1>3 DEF EmitStep

LEMMA CallPromise ==
  ASSUME Inv, NEW d \in Delivery, NEW ans \in Answers, CallEndpoint(d, ans)
  PROVE  Promise!Call(d)
<1>1. stateOf[d] = "owed"
  BY DEF CallEndpoint, Reading, Inv, JobFits, JobFit, Owed, stateOf
<1>2. UNCHANGED stateOf
  BY DEF CallEndpoint, rowVars, stateOf
<1>3. QED
  BY <1>1, <1>2 DEF CallEndpoint, Promise!Call, stateOf

(* An attempt on record ends the delivery or leaves it owed. *)
LEMMA RecordPromise ==
  ASSUME Inv, NEW d \in Delivery, RecordAttempt(d)
  PROVE  [Promise!Next]_<<stateOf, acked, calls>>
<1> DEFINE ans == job[d].answer
           verdict == Outcome(d, ans)
<1>1. stateOf[d] = "owed" /\ (ans = "ok" => d \in acked)
  <2>1. job[d] \in Jobs /\ job[d].at = "recording"
    BY DEF RecordAttempt, Inv, TypeOK
  <2>2. Owed(d) /\ (job[d] = Recording("ok") => d \in acked)
    BY <2>1 DEF Inv, JobFits, JobFit
  <2>3. job[d] = Recording(ans)
    BY <2>1 DEF Jobs, NoJob, Waiting, Reading, Finishing, Over, Discarded, Recording, Counting
  <2>4. QED
    BY <2>2, <2>3 DEF Owed, stateOf
<1>2. status' = [status EXCEPT ![d] = verdict] /\ UNCHANGED <<calls, acked>>
  BY DEF RecordAttempt
<1>3. /\ verdict \in {"delivered", "failed", "retrying"}
      /\ verdict = "delivered" => ans = "ok"
  BY DEF Outcome
<1>4. CASE verdict = "retrying"
  <2>1. \A c \in Delivery : stateOf'[c] = stateOf[c]
    BY <1>1, <1>2, <1>4 DEF stateOf, Inv, TypeOK
  <2>2. UNCHANGED stateOf
    BY <2>1 DEF stateOf
  <2>3. QED
    BY <1>2, <2>2
<1>5. CASE verdict # "retrying"
  <2>1. PICK v \in {"delivered", "failed"} : v = verdict
    BY <1>3, <1>5
  <2>2. status' = [status EXCEPT ![d] = v]
    BY <1>2, <2>1
  <2>3. \A c \in Delivery : stateOf'[c] = IF c = d THEN v ELSE stateOf[c]
    BY <2>2 DEF stateOf, Inv, TypeOK
  <2>4. stateOf' = [stateOf EXCEPT ![d] = v]
    BY <2>3 DEF stateOf
  <2>5. v = "delivered" => d \in acked
    BY <1>1, <1>3, <2>1
  <2>6. Promise!End(d, v)
    BY <1>1, <1>2, <2>4, <2>5 DEF Promise!End, stateOf
  <2>7. QED
    BY <2>6 DEF Promise!Next
<1>6. QED
  BY <1>4, <1>5

LEMMA StepPromise ==
  ASSUME Inv, [Next]_vars
  PROVE  [Promise!Next]_<<stateOf, acked, calls>>
<1>1. ASSUME NEW h \in Hook, OwnerStep(h) \/ DayPasses(h) PROVE UNCHANGED <<stateOf, acked, calls>>
  BY <1>1 DEF OwnerStep, CheckLimit, Create, Enable, Disable, Delete, DayPasses, rowVars, stateOf
<1>2. ASSUME NEW e \in Event, EmitStep(e) PROVE [Promise!Next]_<<stateOf, acked, calls>>
  BY <1>2, EmitPromise
<1>3. ASSUME NEW d \in Delivery, JobStep(d) PROVE [Promise!Next]_<<stateOf, acked, calls>>
  <2>1. CASE RecordAttempt(d)
    BY <2>1, RecordPromise
  <2>2. ASSUME NEW ans \in Answers, CallEndpoint(d, ans) PROVE Promise!Next
    BY <2>2, CallPromise DEF Promise!Next
  <2>3. CASE ReadDelivery(d) \/ Abandon(d) \/ CountAttempt(d) \/ FinishRun(d)
    BY <2>3 DEF ReadDelivery, Abandon, CountAttempt, FinishRun, rowVars, stateOf
  <2>4. QED
    BY <1>3, <2>1, <2>2, <2>3 DEF JobStep
<1>4. ASSUME NEW d \in Delivery, JobFails(d) PROVE UNCHANGED <<stateOf, acked, calls>>
  BY <1>4 DEF JobFails, rowVars, stateOf
<1>5. CASE SweepStep
  BY <1>5 DEF SweepStep, ReadStats, LookAt, Pause, SweepDies, rowVars, stateOf
<1>6. CASE UNCHANGED vars
  BY <1>6 DEF vars, rowVars, stateOf
<1>7. QED
  BY <1>1, <1>2, <1>3, <1>4, <1>5, <1>6 DEF Next

(* Every behaviour of the webhooks keeps the promise: no endpoint is called  *)
(* for a delivery that is over, and none is called delivered that was not    *)
(* acknowledged, whatever jobs fail and run again.                           *)
THEOREM DeliversEventsHolds == Spec => DeliversEvents
<1>1. Inv /\ [Next]_vars => [Promise!Next]_<<stateOf, acked, calls>>
  BY StepPromise
<1>2. QED
  BY InitPromise, <1>1, InvHolds, PTL DEF Spec, DeliversEvents, Promise!Spec, stateOf

=============================================================================
