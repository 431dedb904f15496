------------------------------ MODULE SdkHttp ------------------------------
(***************************************************************************)
(* HttpClient.request of the TypeScript SDK: one call, made as one or more *)
(* attempts, each under a timer and under the caller's AbortSignal.        *)
(* Sources: packages/sdk/src/http.ts and the methods of resources.ts that  *)
(* are one request each.                                                   *)
(*                                                                         *)
(* Time is a clock of small steps: a timer that is due goes off before the *)
(* clock moves on.  The network may answer at any moment, break off or say *)
(* nothing; an attempt the client gave up may still reach the API.         *)
(***************************************************************************)
EXTENDS Integers

CONSTANTS
    TimeoutMs,      \* HttpConfig.timeoutMs
    MaxRetries,     \* HttpConfig.maxRetries
    Pauses,         \* how long a backoff or a Retry-After may last
    Horizon         \* bound: the clock stops here

ASSUME TimesAssumption ==
    /\ TimeoutMs \in Nat \ {0} /\ MaxRetries \in Nat /\ Horizon \in Nat
    /\ Pauses \subseteq Nat \ {0} /\ Pauses # {}

(* A backoff and a Retry-After are both capped. *)
ASSUME PausesAssumption == \E p \in Pauses : \A q \in Pauses : q <= p

VARIABLES
    clock,
    call,       \* the request in progress: where it stands, and its timer
    answer,     \* what the promise settled with, until the caller goes on
    signal,     \* the caller's AbortSignal: none, armed, aborted
    stray,      \* writes given up on that may still reach the API
    accepted,   \* writes the API has taken
    left        \* ghost: attempts handed to the network

httpVars == <<clock, call, answer, signal, stray, accepted, left>>

Nothing == [is |-> "none", seen |-> FALSE]
Idle == [at |-> "idle", write |-> FALSE, retries |-> 0, attempt |-> 0,
         due |-> 0, got |-> "nothing", seen |-> FALSE]

Call == [at : {"idle", "fetch", "body", "pause"}, write : BOOLEAN,
         retries : 0 .. MaxRetries, attempt : 0 .. MaxRetries, due : Nat,
         got : {"nothing", "ok", "refused", "overloaded"}, seen : BOOLEAN]
Answer == [is : {"none", "value", "error", "reason"}, seen : BOOLEAN]

HttpTypeOK ==
    /\ clock \in 0 .. Horizon
    /\ call \in Call /\ answer \in Answer
    /\ signal \in {"none", "armed", "aborted"}
    /\ stray \in Nat /\ accepted \in Nat /\ left \in Nat

HttpInit ==
    /\ clock = 0 /\ call = Idle /\ answer = Nothing
    /\ stray = 0 /\ accepted = 0 /\ left = 0

-----------------------------------------------------------------------------
(* A bug to catch: the configured retries apply to every method. *)
RetriesForAll(write) == MaxRetries

RetriesFor(write) == IF write THEN 0 ELSE MaxRetries

(* A bug to catch: a signal that went off before the attempt is not looked at. *)
CancelledNever == FALSE

Cancelled == signal = "aborted"

Settle(is, seen) == call' = Idle /\ answer' = [is |-> is, seen |-> seen]

(* The top of the loop: withTimeout and fetch. *)
Attempt(c) ==
    IF Cancelled
    THEN Settle("reason", FALSE) /\ UNCHANGED left
    ELSE /\ call' = [c EXCEPT !.at = "fetch", !.due = clock + TimeoutMs, !.got = "nothing"]
         /\ answer' = Nothing
         /\ left' = left + 1

(* request(): the caller's part of it happens in the caller's own step. *)
Request(write, retries) ==
    /\ call.at = "idle"
    /\ Attempt([Idle EXCEPT !.write = write, !.retries = retries])
    /\ UNCHANGED <<signal, stray, accepted>>

Pause == \E p \in Pauses :
    /\ call' = [call EXCEPT !.at = "pause", !.due = clock + p, !.attempt = @ + 1]
    /\ UNCHANGED answer

(* A bug to catch: one attempt too many. *)
RepeatOnceMore(fails) == IF call.attempt <= call.retries THEN Pause ELSE fails

(* A failed attempt is repeated while retries are left, else the call fails. *)
RepeatOr(fails) == IF call.attempt < call.retries THEN Pause ELSE fails

(* The answer was on its way, or the write may still get there. *)
GiveUp == stray' = IF call.write /\ call.got = "nothing" THEN stray + 1 ELSE stray

-----------------------------------------------------------------------------
(* The API takes an attempt and answers; a gateway in front of it may say   *)
(* that it failed when it did not.  seen: what a read would find just now.  *)
Serve(seen) ==
    /\ call.at = "fetch" /\ call.got = "nothing"
    /\ \E got \in {"ok", "refused", "overloaded"} :
        /\ call' = [call EXCEPT !.got = got, !.seen = seen]
        /\ accepted' \in IF ~call.write \/ got = "refused" THEN {accepted}
                         ELSE IF got = "ok" THEN {accepted + 1}
                         ELSE {accepted, accepted + 1}
    /\ UNCHANGED <<clock, answer, signal, stray, left>>

StrayArrives ==
    /\ stray > 0
    /\ stray' = stray - 1 /\ accepted' = accepted + 1
    /\ UNCHANGED <<clock, call, answer, signal, left>>

HeadersArrive ==
    /\ call.at = "fetch" /\ call.got # "nothing"
    /\ call' = [call EXCEPT !.at = "body"]
    /\ UNCHANGED <<clock, answer, signal, stray, accepted, left>>

(* An error status is repeated where that may help; its body may be missing. *)
ErrorStatus ==
    IF call.got = "overloaded" THEN RepeatOr(Settle("error", FALSE)) ELSE Settle("error", FALSE)

BodyArrives ==
    /\ call.at = "body"
    /\ IF call.got = "ok" THEN Settle("value", call.seen) ELSE ErrorStatus
    /\ UNCHANGED <<clock, signal, stray, accepted, left>>

(* A body that breaks off after a good status is "not JSON". *)
BodyBreaks == IF call.got = "ok" THEN Settle("error", FALSE) ELSE ErrorStatus

FetchFails == RepeatOr(Settle("error", FALSE)) /\ GiveUp

ConnectionFails ==
    /\ \/ call.at = "fetch" /\ FetchFails
       \/ call.at = "body" /\ BodyBreaks /\ UNCHANGED stray
    /\ UNCHANGED <<clock, signal, accepted, left>>

-----------------------------------------------------------------------------
(* A bug to catch: the timer is released as soon as the headers are there. *)
TimedFetch == call.at = "fetch"

Timed == call.at \in {"fetch", "body"}

TimerFires ==
    /\ Timed /\ clock = call.due
    /\ \/ call.at = "fetch" /\ FetchFails
       \/ call.at = "body" /\ BodyBreaks /\ UNCHANGED stray
    /\ UNCHANGED <<clock, signal, accepted, left>>

(* The pause between attempts: neither the signal nor the timer ends it. *)
PauseEnds ==
    /\ call.at = "pause" /\ clock = call.due
    /\ Attempt(call)
    /\ UNCHANGED <<clock, signal, stray, accepted>>

Abort ==
    /\ signal = "armed" /\ signal' = "aborted"
    /\ \/ call.at = "fetch" /\ Settle("reason", FALSE) /\ GiveUp
       \/ call.at = "body" /\ BodyBreaks /\ UNCHANGED stray
       \/ call.at \in {"idle", "pause"} /\ UNCHANGED <<call, answer, stray>>
    /\ UNCHANGED <<clock, accepted, left>>

(* The clock waits for a timer that is due and for code that is ready to run. *)
ClockMayTick ==
    /\ clock < Horizon /\ answer.is = "none"
    /\ Timed \/ call.at = "pause" => clock < call.due

Network(seen) == Serve(seen) \/ StrayArrives \/ HeadersArrive \/ BodyArrives \/ ConnectionFails
Timers == TimerFires \/ PauseEnds

=============================================================================
