------------------------------- MODULE Webhooks -------------------------------
(***************************************************************************)
(* Webhooks: the subscriptions of one account, the fan-out of its events,  *)
(* the delivery jobs with their ladder of retries, and the sweep that      *)
(* pauses dead endpoints.  Sources: internal/webhooks/webhooks.go,         *)
(* internal/store/webhooks.go.                                             *)
(*                                                                         *)
(* A delivery is an event on its way to a webhook.  Jobs hold no           *)
(* transaction: each of their statements, and the call of the endpoint, is *)
(* a step, and between any two the job may fail or its process die.  The   *)
(* queue then runs the job again, JobAttempts times in all; the waits the  *)
(* job asks for itself (JobSnooze) do not count.  A delivery has one job,  *)
(* so nothing else writes its row.                                         *)
(*                                                                         *)
(* How long a retry waits, signatures, secrets and which events a webhook  *)
(* asks for are left out: every event here is one all webhooks asked for.  *)
(* A URL that has become invalid ends a delivery like a disabled webhook.  *)
(***************************************************************************)
EXTENDS Naturals, FiniteSets

CONSTANTS
    Event,
    Hook,
    MaxHooks,       \* WebhookMaxPerUser
    MaxTries,       \* maxAttempts, the length of the ladder
    MaxRefusals,    \* maxAttemptsNonRetryable
    JobAttempts,    \* DeliverArgs: MaxAttempts
    MinFailures,    \* autoPauseMinFailures
    MaxErrors       \* bound: failed runs of jobs in all

ASSUME LimitsAssumption ==
    /\ MaxHooks \in Nat
    /\ MaxTries \in Nat \ {0}
    /\ MaxRefusals \in 1..MaxTries
    /\ JobAttempts \in Nat \ {0}
    /\ MinFailures \in Nat \ {0}
    /\ MaxErrors \in Nat

Delivery == Event \X Hook
HookOf(d) == d[2]

VARIABLES
    hook,       \* the subscription: "creating" is past the limit's check
    recent,     \* webhooks.last_success_at lies within autoPauseRecentOK
    success,    \* webhooks.success_count
    failure,    \* webhooks.failure_count
    status,     \* webhook_deliveries.status, "none" before the row exists
    attempts,   \* webhook_deliveries.attempt_count
    answer,     \* webhook_deliveries.http_status and error: the last answer
    fresh,      \* created_at is not before the webhook's last_enabled_at
    job,        \* the delivery's job
    errors,     \* how often the queue saw the job fail
    fanout,     \* how far the emission of an event outside a transaction is
    sweep,      \* the pausing sweep
    calls,      \* ghost: requests the endpoint was sent
    acked       \* ghost: deliveries the endpoint acknowledged

hookVars == <<hook, recent, success, failure>>
rowVars == <<status, attempts, answer, fresh>>
vars == <<hookVars, rowVars, job, errors, fanout, sweep, calls, acked>>

NoJob == [at |-> "none"]
Waiting == [at |-> "waiting"]
Reading == [at |-> "reading"]
Recording(ans) == [at |-> "recording", answer |-> ans]
Counting(ans) == [at |-> "counting", answer |-> ans]
Finishing == [at |-> "finishing"]
Over == [at |-> "over"]
Discarded == [at |-> "discarded"]

(* What an attempt comes to: 2xx; no answer, 408, 425, 429 or 5xx; another  *)
(* status; no call at all.                                                  *)
Answers == {"ok", "again", "refused", "disabled"}

New == [at |-> "new"]
Listed(hooks) == [at |-> "listed", to |-> hooks]
Inserted(h, hooks) == [at |-> "inserted", on |-> h, to |-> hooks]
Emitted == [at |-> "emitted"]

Idle == [at |-> "idle"]
Sweeping(hooks) == IF hooks = {} THEN Idle ELSE [at |-> "sweeping", hooks |-> hooks]
Pausing(h, hooks) == [at |-> "pausing", on |-> h, hooks |-> hooks]

-----------------------------------------------------------------------------
(* The owner *)

Live(h) == hook[h] \in {"on", "off"}

SetHook(h, to) == hook' = [hook EXCEPT ![h] = to]

(* Create counts the webhooks... *)
CheckLimit(h) ==
    /\ hook[h] = "absent"
    /\ Cardinality({k \in Hook : Live(k)}) < MaxHooks
    /\ SetHook(h, "creating")
    /\ UNCHANGED <<recent, success, failure, rowVars, job, errors, fanout, sweep, calls, acked>>

(* ...and inserts one. *)
Create(h) ==
    /\ hook[h] = "creating"
    /\ SetHook(h, "on")
    /\ UNCHANGED <<recent, success, failure, rowVars, job, errors, fanout, sweep, calls, acked>>

(* Update: last_enabled_at moves only when the webhook was off. *)
Enable(h) ==
    /\ hook[h] = "off"
    /\ SetHook(h, "on")
    /\ fresh' = [d \in Delivery |-> fresh[d] /\ HookOf(d) # h]
    /\ UNCHANGED <<recent, success, failure, status, attempts, answer, job, errors,
                   fanout, sweep, calls, acked>>

Disable(h) ==
    /\ hook[h] = "on"
    /\ SetHook(h, "off")
    /\ UNCHANGED <<recent, success, failure, rowVars, job, errors, fanout, sweep, calls, acked>>

Delete(h) ==
    /\ Live(h)
    /\ SetHook(h, "deleted")
    /\ UNCHANGED <<recent, success, failure, rowVars, job, errors, fanout, sweep, calls, acked>>

-----------------------------------------------------------------------------
(* Emitting an event *)

Subscribed == {h \in Hook : hook[h] = "on"}

Rows(ds) ==
    /\ status' = [d \in Delivery |-> IF d \in ds THEN "pending" ELSE status[d]]
    /\ fresh' = [d \in Delivery |-> d \in ds \/ fresh[d]]
    /\ UNCHANGED <<attempts, answer>>

(* Inside the transaction that made the event: rows and jobs together. *)
EmitInTx(e) ==
    /\ fanout[e] = New
    /\ fanout' = [fanout EXCEPT ![e] = Emitted]
    /\ Rows({e} \X Subscribed)
    /\ job' = [d \in Delivery |-> IF d \in {e} \X Subscribed THEN Waiting ELSE job[d]]
    /\ UNCHANGED <<hookVars, errors, sweep, calls, acked>>

(* Outside one: the webhooks are listed, then each gets its row and its job. *)
Emit(e) ==
    /\ fanout[e] = New
    /\ fanout' = [fanout EXCEPT ![e] = IF Subscribed = {} THEN Emitted ELSE Listed(Subscribed)]
    /\ UNCHANGED <<hookVars, rowVars, job, errors, sweep, calls, acked>>

(* A ping to one webhook, be it on or off. *)
SendTest(e, h) ==
    /\ fanout[e] = New /\ Live(h)
    /\ fanout' = [fanout EXCEPT ![e] = Listed({h})]
    /\ UNCHANGED <<hookVars, rowVars, job, errors, sweep, calls, acked>>

CreateDelivery(e, h) ==
    /\ fanout[e].at = "listed"
    /\ h \in fanout[e].to
    /\ Rows({<<e, h>>})
    /\ fanout' = [fanout EXCEPT ![e] = Inserted(h, fanout[e].to \ {h})]
    /\ UNCHANGED <<hookVars, job, errors, sweep, calls, acked>>

InsertJob(e) ==
    /\ fanout[e].at = "inserted"
    /\ job' = [job EXCEPT ![<<e, fanout[e].on>>] = Waiting]
    /\ fanout' = [fanout EXCEPT ![e] = IF @.to = {} THEN Emitted ELSE Listed(@.to)]
    /\ UNCHANGED <<hookVars, rowVars, errors, sweep, calls, acked>>

(* An error is logged and the rest dropped; so it is when the process dies. *)
EmitFails(e) ==
    /\ fanout[e].at \in {"listed", "inserted"}
    /\ fanout' = [fanout EXCEPT ![e] = Emitted]
    /\ UNCHANGED <<hookVars, rowVars, job, errors, sweep, calls, acked>>

-----------------------------------------------------------------------------
(* The delivery job *)

SetJob(d, to) == job' = [job EXCEPT ![d] = to]

Ended(d) == status[d] \in {"delivered", "failed"}

(* A bug to catch: a job that is run again does not look at the row. *)
AfterReadAnyway(d) == Reading

AfterRead(d) == IF Ended(d) THEN Over ELSE Reading

(* GetDelivery.  A delivery that is over stays as it is. *)
ReadDelivery(d) ==
    /\ job[d] = Waiting
    /\ SetJob(d, AfterRead(d))
    /\ UNCHANGED <<hookVars, rowVars, errors, fanout, sweep, calls, acked>>

(* GetWebhook finds the webhook off or gone: no call is made. *)
Abandon(d) ==
    /\ job[d] = Reading
    /\ hook[HookOf(d)] # "on"
    /\ SetJob(d, Recording("disabled"))
    /\ UNCHANGED <<hookVars, rowVars, errors, fanout, sweep, calls, acked>>

(* It is on: the request, and what comes back.  The webhook may be turned   *)
(* off while the request is under way, but not within this step: nothing    *)
(* that follows in the job looks at the webhook again.                      *)
CallEndpoint(d, ans) ==
    /\ job[d] = Reading
    /\ hook[HookOf(d)] = "on"
    /\ calls' = [calls EXCEPT ![d] = @ + 1]
    /\ acked' = IF ans = "ok" THEN acked \cup {d} ELSE acked
    /\ SetJob(d, Recording(ans))
    /\ UNCHANGED <<hookVars, rowVars, errors, fanout, sweep>>

(* A bug to catch: a refusal is tried again like any failure. *)
SpentAlike(d, ans) == ans # "ok" /\ (ans = "disabled" \/ attempts[d] + 1 >= MaxTries)

(* A bug to catch: the tries are counted before this one. *)
SpentLate(d, ans) ==
    \/ ans = "disabled"
    \/ ans = "again" /\ attempts[d] >= MaxTries
    \/ ans = "refused" /\ attempts[d] >= MaxRefusals

(* Which outcomes are the last, this attempt being one more. *)
Spent(d, ans) ==
    \/ ans = "disabled"
    \/ ans = "again" /\ attempts[d] + 1 >= MaxTries
    \/ ans = "refused" /\ attempts[d] + 1 >= MaxRefusals

(* A bug to catch: every answer is taken for an acknowledgement. *)
OutcomeOfAnswer(d, ans) ==
    IF ans \in {"ok", "refused"} THEN "delivered" ELSE IF Spent(d, ans) THEN "failed" ELSE "retrying"

Outcome(d, ans) ==
    IF ans = "ok" THEN "delivered" ELSE IF Spent(d, ans) THEN "failed" ELSE "retrying"

(* A bug to catch: the attempt is counted when the delivery is over. *)
TriedAtEnd(d, ans) == IF Outcome(d, ans) = "retrying" THEN attempts[d] ELSE attempts[d] + 1

Tried(d, ans) == attempts[d] + 1

(* RecordDeliveryAttempt updates the delivery... *)
RecordAttempt(d) ==
    /\ job[d].at = "recording"
    /\ LET ans == job[d].answer IN
          /\ status' = [status EXCEPT ![d] = Outcome(d, ans)]
          /\ attempts' = [attempts EXCEPT ![d] = Tried(d, ans)]
          /\ answer' = [answer EXCEPT ![d] = ans]
          /\ SetJob(d, Counting(ans))
    /\ UNCHANGED <<hookVars, fresh, errors, fanout, sweep, calls, acked>>

(* ...and the webhook's counters. *)
CountAttempt(d) ==
    /\ job[d].at = "counting"
    /\ LET h == HookOf(d)  ok == job[d].answer = "ok" IN
          /\ success' = [success EXCEPT ![h] = IF ok THEN @ + 1 ELSE @]
          /\ failure' = [failure EXCEPT ![h] = IF ok THEN @ ELSE @ + 1]
          /\ recent' = [recent EXCEPT ![h] = ok \/ @]
    /\ SetJob(d, Finishing)
    /\ UNCHANGED <<hook, rowVars, errors, fanout, sweep, calls, acked>>

(* A bug to catch: a job that was refused is not put off but done. *)
NextRunIfRetryable(d) ==
    IF status[d] = "retrying" /\ answer[d] = "again" THEN Waiting ELSE Over

NextRun(d) == IF status[d] = "retrying" THEN Waiting ELSE Over

(* JobSnooze, or the end of the job. *)
FinishRun(d) ==
    /\ job[d] = Finishing
    /\ SetJob(d, NextRun(d))
    /\ UNCHANGED <<hookVars, rowVars, errors, fanout, sweep, calls, acked>>

Working(d) == job[d].at \in {"reading", "recording", "counting", "finishing"}

(* A statement fails or the process dies: the queue runs the job again. *)
JobFails(d) ==
    /\ Working(d)
    /\ Cardinality({p \in Delivery \X (1..JobAttempts) : p[2] <= errors[p[1]]}) < MaxErrors
    /\ errors' = [errors EXCEPT ![d] = @ + 1]
    /\ SetJob(d, IF errors[d] + 1 < JobAttempts THEN Waiting ELSE Discarded)
    /\ UNCHANGED <<hookVars, rowVars, fanout, sweep, calls, acked>>

-----------------------------------------------------------------------------
(* The sweep that pauses dead endpoints *)

Failing(h, ds) ==
    LET failed == Cardinality({d \in ds : HookOf(d) = h /\ status[d] = "failed"})
        delivered == Cardinality({d \in ds : HookOf(d) = h /\ status[d] = "delivered"})
    IN failed >= MinFailures /\ failed * 2 >= failed + delivered

(* The statistics of the last week, of deliveries since the webhook was last *)
(* enabled; which of those are a week old is a choice.                       *)
ReadStats(week) ==
    /\ sweep = Idle
    /\ week \subseteq {d \in Delivery : fresh[d]}
    /\ \E h \in Subscribed : Failing(h, week)
    /\ sweep' = Sweeping({h \in Subscribed : Failing(h, week)})
    /\ UNCHANGED <<hookVars, rowVars, job, errors, fanout, calls, acked>>

(* GetWebhook: one that has succeeded lately is left alone. *)
LookAt(h) ==
    /\ sweep.at = "sweeping"
    /\ h \in sweep.hooks
    /\ sweep' = IF recent[h] THEN Sweeping(sweep.hooks \ {h}) ELSE Pausing(h, sweep.hooks \ {h})
    /\ UNCHANGED <<hookVars, rowVars, job, errors, fanout, calls, acked>>

(* DisableWebhook. *)
Pause(h) ==
    /\ sweep.at = "pausing" /\ sweep.on = h
    /\ hook' = [hook EXCEPT ![h] = IF @ = "on" THEN "off" ELSE @]
    /\ sweep' = Sweeping(sweep.hooks)
    /\ UNCHANGED <<recent, success, failure, rowVars, job, errors, fanout, calls, acked>>

(* Its process dies. *)
SweepDies ==
    /\ sweep # Idle
    /\ sweep' = Idle
    /\ UNCHANGED <<hookVars, rowVars, job, errors, fanout, calls, acked>>

DayPasses(h) ==
    /\ recent[h]
    /\ recent' = [recent EXCEPT ![h] = FALSE]
    /\ UNCHANGED <<hook, success, failure, rowVars, job, errors, fanout, sweep, calls, acked>>

-----------------------------------------------------------------------------
Init ==
    /\ hook = [h \in Hook |-> "absent"]
    /\ recent = [h \in Hook |-> FALSE]
    /\ success = [h \in Hook |-> 0]
    /\ failure = [h \in Hook |-> 0]
    /\ status = [d \in Delivery |-> "none"]
    /\ attempts = [d \in Delivery |-> 0]
    /\ answer = [d \in Delivery |-> "none"]
    /\ fresh = [d \in Delivery |-> FALSE]
    /\ job = [d \in Delivery |-> NoJob]
    /\ errors = [d \in Delivery |-> 0]
    /\ fanout = [e \in Event |-> New]
    /\ sweep = Idle
    /\ calls = [d \in Delivery |-> 0]
    /\ acked = {}

OwnerStep(h) == CheckLimit(h) \/ Create(h) \/ Enable(h) \/ Disable(h) \/ Delete(h)

EmitStep(e) ==
    \/ EmitInTx(e)
    \/ Emit(e)
    \/ InsertJob(e)
    \/ EmitFails(e)
    \/ \E h \in Hook : SendTest(e, h) \/ CreateDelivery(e, h)

JobStep(d) ==
    \/ ReadDelivery(d)
    \/ Abandon(d)
    \/ \E ans \in Answers \ {"disabled"} : CallEndpoint(d, ans)
    \/ RecordAttempt(d)
    \/ CountAttempt(d)
    \/ FinishRun(d)

SweepStep ==
    \/ \E week \in SUBSET Delivery : ReadStats(week)
    \/ \E h \in Hook : LookAt(h) \/ Pause(h)
    \/ SweepDies

Next ==
    \/ \E h \in Hook : OwnerStep(h) \/ DayPasses(h)
    \/ \E e \in Event : EmitStep(e)
    \/ \E d \in Delivery : JobStep(d) \/ JobFails(d)
    \/ SweepStep

(* The queue runs a job that is due, and a job that runs takes its steps. *)
Fairness == \A d \in Delivery : WF_vars(JobStep(d))

Spec == Init /\ [][Next]_vars /\ Fairness

-----------------------------------------------------------------------------
(* Properties *)

Fanouts == {New, Emitted} \cup {Listed(hooks) : hooks \in SUBSET Hook}
             \cup {Inserted(p[1], p[2]) : p \in Hook \X SUBSET Hook}
Sweeps == {Sweeping(hooks) : hooks \in SUBSET Hook}
            \cup {Pausing(p[1], p[2]) : p \in Hook \X SUBSET Hook}
Jobs == {NoJob, Waiting, Reading, Finishing, Over, Discarded}
          \cup {Recording(ans) : ans \in Answers} \cup {Counting(ans) : ans \in Answers}

(* Type correctness; the ladder is no longer than its delays (retryDelays   *)
(* is indexed by the attempts).                                             *)
TypeOK ==
    /\ hook \in [Hook -> {"absent", "creating", "on", "off", "deleted"}]
    /\ recent \in [Hook -> BOOLEAN]
    /\ success \in [Hook -> Nat]
    /\ failure \in [Hook -> Nat]
    /\ status \in [Delivery -> {"none", "pending", "retrying", "delivered", "failed"}]
    /\ attempts \in [Delivery -> 0..MaxTries]
    /\ answer \in [Delivery -> Answers \cup {"none"}]
    /\ fresh \in [Delivery -> BOOLEAN]
    /\ job \in [Delivery -> Jobs]
    /\ errors \in [Delivery -> 0..JobAttempts]
    /\ fanout \in [Event -> Fanouts]
    /\ sweep \in Sweeps
    /\ calls \in [Delivery -> Nat]
    /\ acked \subseteq Delivery

(* A delivery is called delivered only if its endpoint acknowledged it, and *)
(* once it is over the endpoint is not called and the verdict does not      *)
(* change, whatever job is run again (attempt's first check).               *)
Promise == INSTANCE EventDelivery WITH
    state <- [d \in Delivery |-> IF status[d] \in {"pending", "retrying"} THEN "owed" ELSE status[d]],
    heard <- acked

DeliversEvents == Promise!Spec

(* A failed delivery spent its tries, was refused once too often, or met a  *)
(* webhook that was off; a delivery that is to be tried again has tries     *)
(* left for the answer it got (attempt: limit, retryDelays).                *)
GivesUpInTime ==
    \A d \in Delivery :
       /\ status[d] = "failed" =>
             \/ answer[d] = "again" /\ attempts[d] = MaxTries
             \/ answer[d] = "refused" /\ attempts[d] >= MaxRefusals
             \/ answer[d] = "disabled"
       /\ status[d] = "retrying" =>
             attempts[d] < (IF answer[d] = "refused" THEN MaxRefusals ELSE MaxTries)

(* The endpoint is called no more often than the log says, but for calls    *)
(* whose job failed before it recorded them (RecordDeliveryAttempt).        *)
CallsAreLogged ==
    \A d \in Delivery :
       calls[d] <= attempts[d] + errors[d] + (IF job[d].at = "recording" THEN 1 ELSE 0)

(* The webhook's counters agree with its deliveries: never ahead of them,   *)
(* and behind only by attempts on their way and by jobs that failed between *)
(* the two statements of RecordDeliveryAttempt.                             *)
CountersMatchLog ==
    \A h \in Hook :
       LET mine == {d \in Delivery : HookOf(d) = h}
           delivered == Cardinality({d \in mine : status[d] = "delivered"})
           uncounted == Cardinality({d \in mine : job[d] = Counting("ok")})
       IN /\ success[h] + uncounted <= delivered
          /\ (\A d \in mine : errors[d] = 0) => success[h] + uncounted = delivered

(* A delivery in the queue is settled, unless its job fails too often: the  *)
(* ladder ends, and no webhook that is off keeps it (attempt).              *)
EveryDeliverySettles ==
    \A d \in Delivery : job[d] = Waiting ~> (Ended(d) \/ job[d] = Discarded)

=============================================================================
