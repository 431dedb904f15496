----------------------------- MODULE McpServer -----------------------------
(***************************************************************************)
(* A tool call of the MCP server, or a call of an SDK method of more than  *)
(* one request, on top of SdkHttp.  Sources: packages/mcp/src/server.ts    *)
(* and packages/sdk/src/resources.ts (waitUntilDone, delay).               *)
(*                                                                         *)
(*   send_sms      posts the message, then waits for the batch to end      *)
(*   send_now      the same with wait_seconds 0 or a scheduled_at          *)
(*   wait_for_sms  polls the inbound messages for one that matches         *)
(*   look          a tool of one read                                      *)
(*   sdk_wait      waitUntilDone called by a program, with a signal        *)
(*   sdk_write     a write called by a program, with a signal              *)
(*   sdk_retried   a write whose caller asks for retries                   *)
(*                                                                         *)
(* What a wait is for (the batch ends, a matching text arrives) is one     *)
(* event, `came` the time of it.                                           *)
(***************************************************************************)
EXTENDS SdkHttp

CONSTANTS
    Wait,       \* wait_seconds, timeout_seconds, timeoutMs of waitUntilDone
    Interval    \* intervalMs

ASSUME WaitAssumption == Wait \in Nat /\ Interval \in Nat \ {0}

VARIABLES
    tool,       \* the call: which, where it stands, its deadline and its delay
    reply,      \* what it returned
    came,       \* when the awaited outcome came about, Never if it has not
    crowded     \* a full page of other texts precedes the one waited for

vars == <<httpVars, tool, reply, came, crowded>>

Never == Horizon + 1

Tools == {"send_sms", "send_now", "wait_for_sms", "look",
          "sdk_wait", "sdk_write", "sdk_retried"}
Posting == {"send_sms", "send_now", "sdk_write", "sdk_retried"}
Signalled == {"sdk_wait", "sdk_write", "sdk_retried"}

Tool == [name : Tools, at : {"called", "post", "poll", "look", "delay", "done"},
         deadline : Nat, due : Nat, asked : Nat, told : Nat, known : BOOLEAN]

(* The type of every variable. *)
TypeOK ==
    /\ HttpTypeOK
    /\ tool \in Tool
    /\ reply \in {"none", "outcome", "pending", "value", "error", "reason"}
    /\ came \in 0 .. Never
    /\ crowded \in BOOLEAN

Init ==
    /\ HttpInit
    /\ \E t \in Tools :
        tool = [name |-> t, at |-> "called", deadline |-> 0, due |-> 0,
                asked |-> 0, told |-> 0, known |-> FALSE]
    /\ signal = IF tool.name \in Signalled THEN "armed" ELSE "none"
    /\ reply = "none"
    /\ came = Never
    /\ crowded \in BOOLEAN

-----------------------------------------------------------------------------
Shortest(a, b) == IF a < b THEN a ELSE b

Reply(what) == reply' = what /\ tool' = [tool EXCEPT !.at = "done"]

Taken == answer' = Nothing /\ UNCHANGED <<call, left, signal, stray, accepted>>

Read(t, at) ==
    /\ Request(FALSE, RetriesFor(FALSE))
    /\ tool' = [t EXCEPT !.at = at, !.asked = clock]

(* What the read finds at the API: of the inbound texts only the first page. *)
Visible == came # Never /\ ~(tool.name = "wait_for_sms" /\ crowded)

Start ==
    /\ tool.at = "called"
    /\ \/ /\ tool.name \in Posting
          /\ Request(TRUE, IF tool.name = "sdk_retried" THEN MaxRetries ELSE RetriesFor(TRUE))
          /\ tool' = [tool EXCEPT !.at = "post"]
       \/ tool.name \in {"wait_for_sms", "sdk_wait"}
          /\ Read([tool EXCEPT !.deadline = clock + Wait], "poll")
       \/ tool.name = "look" /\ Read(tool, "look")
    /\ UNCHANGED <<clock, reply, came, crowded>>

(* The write came back: a program has its value, send_sms goes on to look. *)
Posted ==
    /\ tool.at = "post" /\ answer.is = "value"
    /\ \/ tool.name \in {"sdk_write", "sdk_retried"} /\ Reply("value") /\ Taken
       \/ /\ tool.name = "send_sms" /\ UNCHANGED reply
          /\ Read([tool EXCEPT !.known = TRUE, !.deadline = clock + Wait], "poll")
       \/ /\ tool.name = "send_now" /\ UNCHANGED reply
          /\ Read([tool EXCEPT !.known = TRUE], "look")
    /\ UNCHANGED <<clock, came, crowded>>

(* The catch around a whole tool: whatever was thrown is the reply. *)
Throws ==
    /\ answer.is \in {"error", "reason"}
    /\ Reply(answer.is) /\ Taken
    /\ UNCHANGED <<clock, came, crowded>>

Looked ==
    /\ tool.at = "look" /\ answer.is = "value"
    /\ Reply("value") /\ Taken
    /\ UNCHANGED <<clock, came, crowded>>

(* A bug to catch: the last delay runs past the deadline. *)
NextDelayWhole(remaining) == Interval

NextDelay(remaining) == Shortest(Interval, remaining)

(* One turn of the loop, with the answer in hand. *)
Polled ==
    /\ tool.at = "poll" /\ answer.is = "value"
    /\ LET remaining == tool.deadline - clock IN
        \/ answer.seen /\ Reply("outcome")
        \/ /\ ~answer.seen /\ remaining <= 0
           /\ reply' = "pending"
           /\ tool' = [tool EXCEPT !.at = "done", !.told = clock]
        \/ /\ ~answer.seen /\ remaining > 0
           /\ tool' = [tool EXCEPT !.at = "delay", !.told = clock,
                                   !.due = clock + NextDelay(remaining)]
           /\ UNCHANGED reply
    /\ Taken
    /\ UNCHANGED <<clock, came, crowded>>

(* A bug to catch: at the deadline the loop ends without a last look. *)
AskAgainInTime ==
    IF clock >= tool.deadline
    THEN Reply("pending") /\ Taken
    ELSE Read(tool, "poll") /\ UNCHANGED reply

AskAgain == Read(tool, "poll") /\ UNCHANGED reply

DelayEnds ==
    /\ tool.at = "delay" /\ clock = tool.due
    /\ AskAgain
    /\ UNCHANGED <<clock, came, crowded>>

(* delay() rejects with the signal's reason. *)
DelayAborted ==
    /\ tool.at = "delay" /\ signal = "aborted"
    /\ Reply("reason")
    /\ UNCHANGED <<clock, call, answer, signal, stray, accepted, left, came, crowded>>

-----------------------------------------------------------------------------
(* A batch ends, or a text arrives.  A batch that was never taken does not. *)
OutcomeComes ==
    /\ came = Never
    /\ tool.name \in Posting => accepted > 0
    /\ came' = clock
    /\ UNCHANGED <<httpVars, tool, reply, crowded>>

Tick ==
    /\ ClockMayTick
    /\ tool.at \notin {"called", "done"}
    /\ tool.at = "delay" => clock < tool.due /\ signal # "aborted"
    /\ clock' = clock + 1
    /\ UNCHANGED <<call, answer, signal, stray, accepted, left, tool, reply, came, crowded>>

AbortCall == tool.at # "done" /\ Abort

Program == Start \/ Posted \/ Throws \/ Looked \/ Polled \/ DelayEnds \/ DelayAborted
Http == (Network(Visible) \/ Timers \/ AbortCall) /\ UNCHANGED <<tool, reply, came, crowded>>

Next == Program \/ Http \/ OutcomeComes \/ Tick

(* Timers go off and code that is ready runs; the network owes nothing. *)
Fairness ==
    /\ WF_vars(Program) /\ WF_vars(Tick)
    /\ WF_vars(Timers /\ UNCHANGED <<tool, reply, came, crowded>>)

Spec == Init /\ [][Next]_vars
FairSpec == Spec /\ Fairness

-----------------------------------------------------------------------------
(* A write reaches the API at most once, however its attempts were lost,    *)
(* timed out or answered with an error, unless its caller asked for retries. *)
WriteOnce == tool.name # "sdk_retried" => accepted <= 1

(* A wait that says "nothing yet" had an answer at or after its deadline    *)
(* (send_sms and wait_for_incoming_sms look once more when time is up), and *)
(* nothing had come about when that answer was asked for.                   *)
PendingIsTrue ==
    reply = "pending" =>
        /\ tool.told >= tool.deadline
        /\ crowded \/ came >= tool.asked

(* How long one read may take, with every attempt timing out. *)
LongestPause == CHOOSE p \in Pauses : \A q \in Pauses : q <= p
LongestRead == (MaxRetries + 1) * TimeoutMs + MaxRetries * LongestPause
LongestPost ==
    IF tool.name = "sdk_retried" THEN LongestRead
    ELSE IF tool.name \in Posting THEN TimeoutMs ELSE 0

(* No call outlasts its post, its wait and one read begun at the deadline.  *)
(* (A wait of 55 seconds can thus last longer than 55 seconds.)             *)
EndsInTime ==
    tool.at # "done" => clock <= LongestPost + Wait + LongestRead

(* Once the caller has cancelled, no further attempt leaves the client,     *)
(* also when the signal goes off between two attempts.                      *)
CancelIsFinal == [][signal = "aborted" => left' = left]_vars

(* What send_sms tells an agent: the outcome, or that it is pending.  A     *)
(* send the API has confirmed is not reported as an error.                  *)
ConfirmedSendIsReported ==
    tool.known => reply \notin {"error", "reason"}

=============================================================================
