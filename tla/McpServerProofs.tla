-------------------------- MODULE McpServerProofs --------------------------
(***************************************************************************)
(* What holds of one tool call over the SDK for every timeout, number of   *)
(* retries, pauses, wait and interval: its types, that a write is made     *)
(* once, that "pending" was true when it was asked, that cancelling is     *)
(* final, and that a call ends in time.                                    *)
(***************************************************************************)
EXTENDS McpServer, TLAPS

(* An attempt of a write that the API may still take. *)
Owed == IF call.at = "fetch" /\ call.write /\ call.got = "nothing" THEN 1 ELSE 0

(* A write whose caller asked for no retries is tried once, first of all. *)
OneTry ==
    tool.name # "sdk_retried" =>
        /\ accepted + stray + Owed <= 1
        /\ call.write => call.retries = 0 /\ call.at # "pause"
        /\ tool.at = "called" => accepted = 0 /\ stray = 0 /\ call.at = "idle"

(* An answer that holds nothing was given after it was asked for, and what *)
(* is awaited came later, if ever.                                         *)
EmptyAnswer ==
    \/ call.at \in {"fetch", "body"} /\ call.got # "nothing" /\ ~call.seen
    \/ answer.is = "value" /\ ~answer.seen

FreshLook ==
    /\ tool.asked <= clock
    /\ tool.at = "poll" /\ EmptyAnswer => crowded \/ came >= tool.asked
    /\ reply = "pending" => tool.at = "done"

-----------------------------------------------------------------------------
(* One field of a record changes. *)

(* A client at rest is a state of the client.                              *)
LEMMA IdleType == Idle \in Call
BY TimesAssumption DEF Idle, Call

(* What the fields of a call hold.                                         *)
LEMMA CallFields ==
    ASSUME NEW c \in Call
    PROVE  /\ c.at \in {"idle", "fetch", "body", "pause"}
           /\ c.write \in BOOLEAN /\ c.seen \in BOOLEAN
           /\ c.retries \in 0 .. MaxRetries /\ c.attempt \in 0 .. MaxRetries
           /\ c.due \in Nat
           /\ c.got \in {"nothing", "ok", "refused", "overloaded"}
BY DEF Call

(* A call with one field changed within its type is a call.                *)
LEMMA CallUpdate ==
    ASSUME NEW c \in Call
    PROVE  /\ \A x \in {"idle", "fetch", "body", "pause"} : [c EXCEPT !.at = x] \in Call
           /\ \A x \in BOOLEAN : [c EXCEPT !.write = x] \in Call
           /\ \A x \in BOOLEAN : [c EXCEPT !.seen = x] \in Call
           /\ \A x \in 0 .. MaxRetries : [c EXCEPT !.retries = x] \in Call
           /\ \A x \in 0 .. MaxRetries : [c EXCEPT !.attempt = x] \in Call
           /\ \A x \in Nat : [c EXCEPT !.due = x] \in Call
           /\ \A x \in {"nothing", "ok", "refused", "overloaded"} : [c EXCEPT !.got = x] \in Call
<1>1. \A x \in {"idle", "fetch", "body", "pause"} : [c EXCEPT !.at = x] \in Call
  BY DEF Call
<1>2. \A x \in BOOLEAN : [c EXCEPT !.write = x] \in Call
  BY DEF Call
<1>3. \A x \in BOOLEAN : [c EXCEPT !.seen = x] \in Call
  BY DEF Call
<1>4. \A x \in 0 .. MaxRetries : [c EXCEPT !.retries = x] \in Call
  BY DEF Call
<1>5. \A x \in 0 .. MaxRetries : [c EXCEPT !.attempt = x] \in Call
  BY DEF Call
<1>6. \A x \in Nat : [c EXCEPT !.due = x] \in Call
  BY DEF Call
<1>7. \A x \in {"nothing", "ok", "refused", "overloaded"} : [c EXCEPT !.got = x] \in Call
  BY DEF Call
<1> QED
  BY <1>1, <1>2, <1>3, <1>4, <1>5, <1>6, <1>7

(* What the fields of a tool call hold.                                    *)
LEMMA ToolFields ==
    ASSUME NEW t \in Tool
    PROVE  /\ t.name \in Tools
           /\ t.at \in {"called", "post", "poll", "look", "delay", "done"}
           /\ t.deadline \in Nat /\ t.due \in Nat /\ t.asked \in Nat /\ t.told \in Nat
           /\ t.known \in BOOLEAN
BY DEF Tool

(* A tool call with one field changed within its type is a tool call.      *)
LEMMA ToolUpdate ==
    ASSUME NEW t \in Tool
    PROVE  /\ \A x \in {"called", "post", "poll", "look", "delay", "done"} :
                [t EXCEPT !.at = x] \in Tool
           /\ \A x \in Nat : [t EXCEPT !.deadline = x] \in Tool
           /\ \A x \in Nat : [t EXCEPT !.due = x] \in Tool
           /\ \A x \in Nat : [t EXCEPT !.asked = x] \in Tool
           /\ \A x \in Nat : [t EXCEPT !.told = x] \in Tool
           /\ \A x \in BOOLEAN : [t EXCEPT !.known = x] \in Tool
<1>1. \A x \in {"called", "post", "poll", "look", "delay", "done"} : [t EXCEPT !.at = x] \in Tool
  BY DEF Tool
<1>2. \A x \in Nat : [t EXCEPT !.deadline = x] \in Tool
  BY DEF Tool
<1>3. \A x \in Nat : [t EXCEPT !.due = x] \in Tool
  BY DEF Tool
<1>4. \A x \in Nat : [t EXCEPT !.asked = x] \in Tool
  BY DEF Tool
<1>5. \A x \in Nat : [t EXCEPT !.told = x] \in Tool
  BY DEF Tool
<1>6. \A x \in BOOLEAN : [t EXCEPT !.known = x] \in Tool
  BY DEF Tool
<1> QED
  BY <1>1, <1>2, <1>3, <1>4, <1>5, <1>6

(* The answers a request can end with.                                     *)
LEMMA AnswerType ==
    ASSUME NEW is \in {"none", "value", "error", "reason"}, NEW seen \in BOOLEAN
    PROVE  [is |-> is, seen |-> seen] \in Answer
BY DEF Answer

-----------------------------------------------------------------------------
(* What the parts of a request do. *)

(* A request that ends leaves the client at rest and an answer behind.     *)
LEMMA SettleDoes ==
    ASSUME NEW is \in {"value", "error", "reason"}, NEW seen \in BOOLEAN, Settle(is, seen)
    PROVE  /\ call' = Idle /\ call' \in Call
           /\ answer' \in Answer /\ answer'.is = is /\ answer'.seen = seen
BY IdleType, AnswerType DEF Settle

(* An attempt does not start, as the call was cancelled, or goes out. *)
LEMMA AttemptDoes ==
    ASSUME HttpTypeOK, NEW c \in Call, Attempt(c)
    PROVE  /\ call' \in Call /\ answer' \in Answer /\ left' \in Nat
           /\ answer'.is # "value"
           /\ signal = "aborted" => left' = left
           /\ \/ call' = Idle
              \/ /\ call'.at = "fetch" /\ call'.got = "nothing"
                 /\ call'.write = c.write /\ call'.retries = c.retries
<1>1. CASE Cancelled
  <2>1. Settle("reason", FALSE) /\ left' = left
    BY <1>1 DEF Attempt
  <2> QED
    BY <2>1, SettleDoes DEF HttpTypeOK
<1>2. CASE ~Cancelled
  <2> DEFINE c1 == [c EXCEPT !.at = "fetch"]
  <2> DEFINE c2 == [c1 EXCEPT !.due = clock + TimeoutMs]
  <2> DEFINE c3 == [c2 EXCEPT !.got = "nothing"]
  <2>1. call' = c3 /\ answer' = Nothing /\ left' = left + 1
    BY <1>2 DEF Attempt
  <2>2. c1 \in Call
    BY CallUpdate
  <2>3. clock + TimeoutMs \in Nat
    BY TimesAssumption DEF HttpTypeOK
  <2>4. c2 \in Call
    <3> HIDE DEF c1
    <3> QED
      BY <2>2, <2>3, CallUpdate
  <2>5. c3 \in Call
    <3> HIDE DEF c2
    <3> QED
      BY <2>4, CallUpdate
  <2>6. c3.at = "fetch" /\ c3.got = "nothing" /\ c3.write = c.write /\ c3.retries = c.retries
    BY DEF Call
  <2>7. Nothing \in Answer /\ Nothing.is = "none"
    BY AnswerType DEF Nothing
  <2> HIDE DEF c3
  <2> QED
    BY <1>2, <2>1, <2>5, <2>6, <2>7 DEF HttpTypeOK, Cancelled
<1> QED
  BY <1>1, <1>2

(* A request ends at once, as it was cancelled, or its first attempt leaves *)
(* the client.                                                             *)
LEMMA RequestDoes ==
    ASSUME HttpTypeOK, NEW write \in BOOLEAN, NEW retries \in 0 .. MaxRetries,
           Request(write, retries)
    PROVE  /\ call.at = "idle"
           /\ call' \in Call /\ answer' \in Answer /\ left' \in Nat
           /\ answer'.is # "value"
           /\ signal = "aborted" => left' = left
           /\ UNCHANGED <<signal, stray, accepted>>
           /\ \/ call' = Idle
              \/ /\ call'.at = "fetch" /\ call'.got = "nothing"
                 /\ call'.write = write /\ call'.retries = retries
<1> DEFINE c1 == [Idle EXCEPT !.write = write]
<1> DEFINE c2 == [c1 EXCEPT !.retries = retries]
<1>1. c1 \in Call
  BY IdleType, CallUpdate
<1>2. c2 \in Call
  <2> HIDE DEF c1
  <2> QED
    BY <1>1, CallUpdate
<1>3. c2.write = write /\ c2.retries = retries
  BY IdleType DEF Call
<1>4. call.at = "idle" /\ Attempt(c2) /\ UNCHANGED <<signal, stray, accepted>>
  BY DEF Request
<1> HIDE DEF c2
<1> QED
  BY <1>2, <1>3, <1>4, AttemptDoes

(* A failed attempt ends the call, or is followed by a pause if it may be *)
(* repeated.                                                              *)
LEMMA RepeatDoes ==
    ASSUME HttpTypeOK, RepeatOr(Settle("error", FALSE))
    PROVE  /\ call' \in Call /\ answer' \in Answer
           /\ \/ call' = Idle /\ answer'.is = "error"
              \/ /\ call.retries # 0 /\ call'.at = "pause"
                 /\ call'.write = call.write /\ call'.retries = call.retries
                 /\ answer' = answer
<1>1. CASE call.attempt < call.retries
  <2>1. PICK p \in Pauses :
          /\ call' = [call EXCEPT !.at = "pause", !.due = clock + p, !.attempt = @ + 1]
          /\ UNCHANGED answer
    BY <1>1 DEF RepeatOr, Pause
  <2> DEFINE c1 == [call EXCEPT !.at = "pause"]
  <2> DEFINE c2 == [c1 EXCEPT !.due = clock + p]
  <2> DEFINE c3 == [c2 EXCEPT !.attempt = call.attempt + 1]
  <2>2. c1 \in Call
    BY CallUpdate DEF HttpTypeOK
  <2>3. clock + p \in Nat
    BY TimesAssumption DEF HttpTypeOK
  <2>4. c2 \in Call
    <3> HIDE DEF c1
    <3> QED
      BY <2>2, <2>3, CallUpdate
  <2>5. call.attempt + 1 \in 0 .. MaxRetries /\ call.retries # 0
    BY <1>1, CallFields, TimesAssumption DEF HttpTypeOK
  <2>6. c3 \in Call
    <3> HIDE DEF c2
    <3> QED
      BY <2>4, <2>5, CallUpdate
  <2>7. c2.attempt = call.attempt
    BY DEF HttpTypeOK, Call
  <2>8. call' = c3
    BY <2>1, <2>7
  <2>9. c3.at = "pause" /\ c3.write = call.write /\ c3.retries = call.retries
    BY DEF HttpTypeOK, Call
  <2> HIDE DEF c3
  <2> QED
    BY <2>1, <2>5, <2>6, <2>8, <2>9 DEF HttpTypeOK
<1>2. CASE ~(call.attempt < call.retries)
  <2>1. Settle("error", FALSE)
    BY <1>2 DEF RepeatOr
  <2> QED
    BY <2>1, SettleDoes
<1> QED
  BY <1>1, <1>2

(* An attempt that failed, or whose answer broke off, gives no value. *)
Failing ==
    /\ call' \in Call /\ answer' \in Answer
    /\ \/ call' = Idle /\ answer'.is # "value"
       \/ /\ call.retries # 0 /\ call'.at = "pause"
          /\ call'.write = call.write /\ call'.retries = call.retries
          /\ answer' = answer

(* An error status repeats the request or ends it.                         *)
LEMMA ErrorStatusDoes ==
    ASSUME HttpTypeOK, ErrorStatus
    PROVE  Failing
<1>1. CASE call.got = "overloaded"
  BY <1>1, RepeatDoes DEF ErrorStatus, Failing
<1>2. CASE call.got # "overloaded"
  BY <1>2, SettleDoes DEF ErrorStatus, Failing
<1> QED
  BY <1>1, <1>2

(* A body that breaks off repeats the request or ends it.                  *)
LEMMA BodyBreaksDoes ==
    ASSUME HttpTypeOK, BodyBreaks
    PROVE  Failing
<1>1. CASE call.got = "ok"
  BY <1>1, SettleDoes DEF BodyBreaks, Failing
<1>2. CASE call.got # "ok"
  BY <1>2, ErrorStatusDoes DEF BodyBreaks
<1> QED
  BY <1>1, <1>2

(* What becomes of a write that was given up. *)
LEMMA GiveUpDoes ==
    ASSUME HttpTypeOK, GiveUp
    PROVE  stray' \in Nat /\ (call.at = "fetch" => stray' = stray + Owed)
BY CallFields DEF HttpTypeOK, GiveUp, Owed

-----------------------------------------------------------------------------
(* A step of the network, of a timer or of the signal is one of these: the *)
(* API takes an attempt; a stray write arrives; the headers arrive; an     *)
(* answer comes whole; an attempt fails; the next attempt is made; the     *)
(* caller cancels between attempts.                                        *)

Taking ==
    /\ call.at = "fetch" /\ call.got = "nothing"
    /\ call' \in Call /\ call'.at = "fetch" /\ call'.got # "nothing"
    /\ call'.seen = Visible /\ call'.write = call.write /\ call'.retries = call.retries
    /\ accepted' \in {accepted, accepted + 1} /\ (~call.write => accepted' = accepted)
    /\ UNCHANGED <<answer, signal, stray, left>>

Straying ==
    /\ stray > 0 /\ stray' = stray - 1 /\ accepted' = accepted + 1
    /\ UNCHANGED <<call, answer, signal, left>>

Heading ==
    /\ call.at = "fetch" /\ call.got # "nothing"
    /\ call' \in Call /\ call'.at = "body" /\ call'.got = call.got
    /\ call'.seen = call.seen /\ call'.write = call.write /\ call'.retries = call.retries
    /\ UNCHANGED <<answer, signal, stray, accepted, left>>

Valued ==
    /\ call.at = "body" /\ call.got = "ok"
    /\ call' = Idle /\ answer' \in Answer
    /\ answer'.is = "value" /\ answer'.seen = call.seen
    /\ UNCHANGED <<signal, stray, accepted, left>>

FailingHere ==
    /\ Failing
    /\ signal' \in {signal, "aborted"}
    /\ \/ call.at = "fetch" /\ stray' = stray + Owed /\ stray' \in Nat
       \/ call.at = "body" /\ stray' = stray
    /\ UNCHANGED <<accepted, left>>

Again ==
    /\ call.at = "pause"
    /\ call' \in Call /\ answer' \in Answer /\ left' \in Nat /\ answer'.is # "value"
    /\ signal = "aborted" => left' = left
    /\ \/ call' = Idle
       \/ /\ call'.at = "fetch" /\ call'.got = "nothing"
          /\ call'.write = call.write /\ call'.retries = call.retries
    /\ UNCHANGED <<signal, stray, accepted>>

Cancelling ==
    /\ signal' = "aborted"
    /\ UNCHANGED <<call, answer, stray, accepted, left>>

(* Every step of the network, the timers and the signal is of one of seven *)
(* kinds.                                                                  *)
LEMMA HttpDoes ==
    ASSUME TypeOK, Http
    PROVE  /\ UNCHANGED <<clock, tool, reply, came, crowded>>
           /\ Taking \/ Straying \/ Heading \/ Valued \/ FailingHere \/ Again \/ Cancelling
<1> HttpTypeOK
  BY DEF TypeOK
<1>0. UNCHANGED <<clock, tool, reply, came, crowded>>
  BY DEF Http, Network, Timers, AbortCall, Serve, StrayArrives, HeadersArrive, BodyArrives,
         ConnectionFails, TimerFires, PauseEnds, Abort
<1>1. CASE Serve(Visible)
  <2>1. PICK got \in {"ok", "refused", "overloaded"} :
          /\ call' = [call EXCEPT !.got = got, !.seen = Visible]
          /\ accepted' \in IF ~call.write \/ got = "refused" THEN {accepted}
                           ELSE IF got = "ok" THEN {accepted + 1}
                           ELSE {accepted, accepted + 1}
    BY <1>1 DEF Serve
  <2> DEFINE c1 == [call EXCEPT !.got = got]
  <2> DEFINE c2 == [c1 EXCEPT !.seen = Visible]
  <2>2. c1 \in Call
    BY CallUpdate DEF HttpTypeOK
  <2>3. Visible \in BOOLEAN
    BY DEF Visible
  <2>4. c2 \in Call
    <3> HIDE DEF c1
    <3> QED
      BY <2>2, <2>3, CallUpdate
  <2>5. /\ c2.at = call.at /\ c2.got = got /\ c2.seen = Visible
        /\ c2.write = call.write /\ c2.retries = call.retries
    BY DEF HttpTypeOK, Call
  <2>6. call' = c2
    BY <2>1
  <2> HIDE DEF c2
  <2>7. got # "nothing"
    OBVIOUS
  <2> QED
    BY <1>0, <1>1, <2>1, <2>4, <2>5, <2>6, <2>7 DEF Serve, Taking
<1>2. CASE StrayArrives
  BY <1>0, <1>2 DEF StrayArrives, Straying
<1>3. CASE HeadersArrive
  <2>1. call' = [call EXCEPT !.at = "body"] /\ call \in Call
    BY <1>3 DEF HeadersArrive, HttpTypeOK
  <2>2. call' \in Call
    BY <2>1, CallUpdate
  <2>3. /\ call'.at = "body" /\ call'.got = call.got /\ call'.seen = call.seen
        /\ call'.write = call.write /\ call'.retries = call.retries
    BY <2>1 DEF Call
  <2> QED
    BY <1>0, <1>3, <2>2, <2>3 DEF HeadersArrive, Heading
<1>4. CASE BodyArrives
  <2>1. CASE call.got = "ok"
    BY <1>0, <1>4, <2>1, SettleDoes, CallFields DEF BodyArrives, Valued, HttpTypeOK
  <2>2. CASE call.got # "ok"
    BY <1>0, <1>4, <2>2, ErrorStatusDoes DEF BodyArrives, FailingHere
  <2> QED
    BY <2>1, <2>2
<1>5. ASSUME call.at = "fetch", FetchFails, UNCHANGED <<signal, accepted, left>>
      PROVE  FailingHere
  BY <1>5, RepeatDoes, GiveUpDoes DEF FetchFails, FailingHere, Failing
<1>6. ASSUME call.at = "body", BodyBreaks, UNCHANGED <<signal, stray, accepted, left>>
      PROVE  FailingHere
  BY <1>6, BodyBreaksDoes DEF FailingHere
<1>7. CASE ConnectionFails \/ TimerFires
  BY <1>0, <1>5, <1>6, <1>7 DEF ConnectionFails, TimerFires
<1>8. CASE PauseEnds
  BY <1>0, <1>8, AttemptDoes DEF PauseEnds, Again, HttpTypeOK
<1>9. CASE AbortCall
  <2>1. CASE call.at = "fetch"
    BY <1>0, <1>9, <2>1, SettleDoes, GiveUpDoes DEF AbortCall, Abort, FailingHere, Failing
  <2>2. CASE call.at = "body"
    BY <1>0, <1>9, <2>2, BodyBreaksDoes DEF AbortCall, Abort, FailingHere
  <2>3. CASE call.at \notin {"fetch", "body"}
    BY <1>0, <1>9, <2>3 DEF AbortCall, Abort, Cancelling
  <2> QED
    BY <2>1, <2>2, <2>3
<1> QED
  BY <1>0, <1>1, <1>2, <1>3, <1>4, <1>7, <1>8, <1>9 DEF Http, Network, Timers

-----------------------------------------------------------------------------
(* The steps of the program. *)

(* Going on with a read. *)
LEMMA ReadDoes ==
    ASSUME TypeOK, NEW t \in Tool, NEW at \in {"poll", "look"}, Read(t, at)
    PROVE  /\ tool' \in Tool /\ tool'.name = t.name /\ tool'.at = at /\ tool'.asked = clock
           /\ tool'.known = t.known
           /\ call.at = "idle"
           /\ call' \in Call /\ answer' \in Answer /\ left' \in Nat
           /\ answer'.is # "value"
           /\ signal = "aborted" => left' = left
           /\ UNCHANGED <<signal, stray, accepted>>
           /\ \/ call' = Idle
              \/ call'.at = "fetch" /\ call'.got = "nothing" /\ call'.write = FALSE
<1> DEFINE t1 == [t EXCEPT !.at = at]
<1> DEFINE t2 == [t1 EXCEPT !.asked = clock]
<1>1. t1 \in Tool
  BY ToolUpdate
<1>2. clock \in Nat
  BY TimesAssumption DEF TypeOK, HttpTypeOK
<1>3. t2 \in Tool
  <2> HIDE DEF t1
  <2> QED
    BY <1>1, <1>2, ToolUpdate
<1>4. t2.name = t.name /\ t2.at = at /\ t2.asked = clock /\ t2.known = t.known
  BY DEF Tool
<1>5. tool' = t2 /\ Request(FALSE, RetriesFor(FALSE))
  BY DEF Read
<1>6. RetriesFor(FALSE) \in 0 .. MaxRetries
  BY TimesAssumption DEF RetriesFor
<1> HIDE DEF t2
<1> QED
  BY <1>3, <1>4, <1>5, <1>6, RequestDoes DEF TypeOK

(* The call is over. *)
LEMMA ReplyDoes ==
    ASSUME TypeOK, NEW what, Reply(what)
    PROVE  tool' \in Tool /\ tool'.at = "done" /\ tool'.name = tool.name /\ reply' = what
           /\ tool'.asked = tool.asked /\ tool'.known = tool.known
<1>1. tool \in Tool /\ tool' = [tool EXCEPT !.at = "done"] /\ reply' = what
  BY DEF Reply, TypeOK
<1>2. tool' \in Tool
  BY <1>1, ToolUpdate
<1>3. tool'.at = "done" /\ tool'.name = tool.name /\ tool'.asked = tool.asked /\ tool'.known = tool.known
  BY <1>1 DEF Tool
<1> QED
  BY <1>1, <1>2, <1>3

(* The program waits no longer for a request, and sends none. *)
Rests == answer' = Nothing /\ UNCHANGED <<call, left, signal, stray, accepted>>

(* The program reads. *)
Reads(at) ==
    /\ tool' \in Tool /\ tool'.name = tool.name /\ tool'.at = at /\ tool'.asked = clock
    /\ call.at = "idle" /\ tool.at # "done"
    /\ call' \in Call /\ answer' \in Answer /\ left' \in Nat /\ answer'.is # "value"
    /\ signal = "aborted" => left' = left
    /\ UNCHANGED <<signal, stray, accepted, reply>>
    /\ call' = Idle \/ (call'.at = "fetch" /\ call'.got = "nothing" /\ call'.write = FALSE)

(* The call ends. *)
Ends ==
    /\ tool' \in Tool /\ tool'.name = tool.name /\ tool'.at = "done"
    /\ tool'.asked = tool.asked
    /\ UNCHANGED <<call, left, signal, stray, accepted>>
    /\ answer' \in {answer, Nothing}
    /\ reply' \in {"outcome", "value", "error", "reason"}

(* The answer of no request.                                               *)
LEMMA NothingType == Nothing \in Answer /\ Nothing.is = "none"
BY AnswerType DEF Nothing

(* The tool starts with a read, or with the one request that writes.       *)
LEMMA StartDoes ==
    ASSUME TypeOK, Start
    PROVE  /\ tool.at = "called" /\ UNCHANGED <<clock, came, crowded, reply>>
           /\ \/ Reads("poll") \/ Reads("look")
              \/ /\ tool' \in Tool /\ tool'.name = tool.name /\ tool'.at = "post"
                 /\ tool'.asked = tool.asked
                 /\ \E retries \in 0 .. MaxRetries :
                      /\ tool.name # "sdk_retried" => retries = 0
                      /\ Request(TRUE, retries)
<1>1. tool.at = "called" /\ UNCHANGED <<clock, came, crowded, reply>>
  BY DEF Start
<1>2. CASE /\ tool.name \in Posting
           /\ Request(TRUE, IF tool.name = "sdk_retried" THEN MaxRetries ELSE RetriesFor(TRUE))
           /\ tool' = [tool EXCEPT !.at = "post"]
  <2>1. tool' \in Tool
    BY <1>2, ToolUpdate DEF TypeOK
  <2>2. tool'.name = tool.name /\ tool'.at = "post" /\ tool'.asked = tool.asked
    BY <1>2 DEF TypeOK, Tool
  <2>3. \E retries \in 0 .. MaxRetries :
          (tool.name # "sdk_retried" => retries = 0) /\ Request(TRUE, retries)
    <3> DEFINE n == IF tool.name = "sdk_retried" THEN MaxRetries ELSE RetriesFor(TRUE)
    <3>1. n \in 0 .. MaxRetries /\ (tool.name # "sdk_retried" => n = 0)
      BY TimesAssumption DEF RetriesFor
    <3>2. Request(TRUE, n)
      BY <1>2
    <3> HIDE DEF n
    <3> QED
      BY <3>1, <3>2
  <2> QED
    BY <1>1, <2>1, <2>2, <2>3
<1>3. CASE Read([tool EXCEPT !.deadline = clock + Wait], "poll")
  <2> DEFINE t == [tool EXCEPT !.deadline = clock + Wait]
  <2>0. clock + Wait \in Nat
    BY TimesAssumption, WaitAssumption DEF TypeOK, HttpTypeOK
  <2>1. t \in Tool
    BY <2>0, ToolUpdate DEF TypeOK
  <2>2. t.name = tool.name
    BY DEF TypeOK, Tool
  <2>3. Read(t, "poll")
    BY <1>3
  <2> HIDE DEF t
  <2> QED
    BY <1>1, <2>1, <2>2, <2>3, ReadDoes DEF Reads
<1>4. CASE Read(tool, "look")
  BY <1>1, <1>4, ReadDoes DEF Reads, TypeOK
<1> QED
  BY <1>2, <1>3, <1>4 DEF Start

(* After the write the tool asks what became of it, or ends.               *)
LEMMA PostedDoes ==
    ASSUME TypeOK, Posted
    PROVE  /\ tool.at = "post" /\ UNCHANGED <<clock, came, crowded>>
           /\ Reads("poll") \/ Reads("look") \/ Ends
<1>1. tool.at = "post" /\ UNCHANGED <<clock, came, crowded>>
  BY DEF Posted
<1>2. CASE Reply("value") /\ Taken
  BY <1>1, <1>2, ReplyDoes DEF Taken, Ends
<1>3. CASE /\ UNCHANGED reply
           /\ Read([tool EXCEPT !.known = TRUE, !.deadline = clock + Wait], "poll")
  <2> DEFINE t1 == [tool EXCEPT !.known = TRUE]
  <2> DEFINE t == [t1 EXCEPT !.deadline = clock + Wait]
  <2>1. t1 \in Tool
    BY ToolUpdate DEF TypeOK
  <2>2. clock + Wait \in Nat
    BY TimesAssumption, WaitAssumption DEF TypeOK, HttpTypeOK
  <2>3. t \in Tool
    <3> HIDE DEF t1
    <3> QED
      BY <2>1, <2>2, ToolUpdate
  <2>4. t.name = tool.name
    BY DEF TypeOK, Tool
  <2>5. Read(t, "poll")
    BY <1>3
  <2> HIDE DEF t
  <2> QED
    BY <1>1, <1>3, <2>3, <2>4, <2>5, ReadDoes DEF Reads
<1>4. CASE UNCHANGED reply /\ Read([tool EXCEPT !.known = TRUE], "look")
  <2> DEFINE t == [tool EXCEPT !.known = TRUE]
  <2>1. t \in Tool
    BY ToolUpdate DEF TypeOK
  <2>2. t.name = tool.name
    BY DEF TypeOK, Tool
  <2>3. Read(t, "look")
    BY <1>4
  <2> HIDE DEF t
  <2> QED
    BY <1>1, <1>4, <2>1, <2>2, <2>3, ReadDoes DEF Reads
<1> QED
  BY <1>2, <1>3, <1>4 DEF Posted

(* After a poll the tool ends, or rests before the next.                   *)
LEMMA PolledDoes ==
    ASSUME TypeOK, Polled
    PROVE  /\ tool.at = "poll" /\ answer.is = "value" /\ Rests
           /\ UNCHANGED <<clock, came, crowded>>
           /\ tool' \in Tool /\ tool'.name = tool.name /\ tool'.asked = tool.asked
           /\ \/ tool'.at = "done" /\ reply' = "outcome"
              \/ /\ tool'.at = "done" /\ reply' = "pending" /\ ~answer.seen
                 /\ tool'.told = clock /\ clock >= tool'.deadline
              \/ tool'.at = "delay" /\ reply' = reply
<1>0. /\ tool.at = "poll" /\ answer.is = "value" /\ Rests
      /\ UNCHANGED <<clock, came, crowded>>
  BY DEF Polled, Taken, Rests
<1>t. tool \in Tool /\ clock \in Nat /\ tool.deadline \in Nat
  BY ToolFields, TimesAssumption DEF TypeOK, HttpTypeOK
<1>1. CASE answer.seen /\ Reply("outcome")
  BY <1>0, <1>1, ReplyDoes
<1>2. CASE /\ ~answer.seen /\ tool.deadline - clock <= 0
           /\ reply' = "pending"
           /\ tool' = [tool EXCEPT !.at = "done", !.told = clock]
  <2> DEFINE t1 == [tool EXCEPT !.at = "done"]
  <2> DEFINE t2 == [t1 EXCEPT !.told = clock]
  <2>1. t1 \in Tool
    BY <1>t, ToolUpdate
  <2>2. t2 \in Tool
    <3> HIDE DEF t1
    <3> QED
      BY <1>t, <2>1, ToolUpdate
  <2>3. /\ t2.at = "done" /\ t2.told = clock /\ t2.name = tool.name
        /\ t2.asked = tool.asked /\ t2.deadline = tool.deadline
    BY <1>t DEF Tool
  <2>4. tool' = t2
    BY <1>2
  <2> HIDE DEF t2
  <2> QED
    BY <1>0, <1>t, <1>2, <2>2, <2>3, <2>4
<1>3. CASE /\ ~answer.seen /\ tool.deadline - clock > 0
           /\ tool' = [tool EXCEPT !.at = "delay", !.told = clock,
                                   !.due = clock + NextDelay(tool.deadline - clock)]
           /\ UNCHANGED reply
  <2> DEFINE t1 == [tool EXCEPT !.at = "delay"]
  <2> DEFINE t2 == [t1 EXCEPT !.told = clock]
  <2> DEFINE t3 == [t2 EXCEPT !.due = clock + NextDelay(tool.deadline - clock)]
  <2>1. t1 \in Tool
    BY <1>t, ToolUpdate
  <2>2. t2 \in Tool
    <3> HIDE DEF t1
    <3> QED
      BY <1>t, <2>1, ToolUpdate
  <2>3. clock + NextDelay(tool.deadline - clock) \in Nat
    BY <1>t, <1>3, WaitAssumption DEF NextDelay, Shortest
  <2>4. t3 \in Tool
    <3> HIDE DEF t2
    <3> QED
      BY <2>2, <2>3, ToolUpdate
  <2>5. t3.at = "delay" /\ t3.name = tool.name /\ t3.asked = tool.asked
    BY <1>t DEF Tool
  <2>6. tool' = t3
    BY <1>3
  <2> HIDE DEF t3
  <2> QED
    BY <1>0, <1>3, <2>4, <2>5, <2>6
<1> QED
  BY <1>1, <1>2, <1>3 DEF Polled

(* An error, a last look and a rest that is over or cut short end the tool *)
(* or start the next poll.                                                 *)
LEMMA OthersDo ==
    ASSUME TypeOK, Throws \/ Looked \/ DelayEnds \/ DelayAborted
    PROVE  /\ tool.at = "called" => answer.is # "none"
           /\ UNCHANGED <<clock, came, crowded>>
           /\ Reads("poll") \/ Ends
<1>1. CASE Throws
  BY <1>1, ReplyDoes DEF Throws, Taken, Ends
<1>2. CASE Looked
  BY <1>2, ReplyDoes DEF Looked, Taken, Ends
<1>3. CASE DelayEnds
  <2>1. Read(tool, "poll") /\ UNCHANGED <<reply, clock, came, crowded>> /\ tool.at = "delay"
    BY <1>3 DEF DelayEnds, AskAgain
  <2> QED
    BY <2>1, ReadDoes DEF Reads, TypeOK
<1>4. CASE DelayAborted
  BY <1>4, ReplyDoes DEF DelayAborted, Ends
<1> QED
  BY <1>1, <1>2, <1>3, <1>4

-----------------------------------------------------------------------------
(* The types. *)

(* A step keeps the types.                                                 *)
LEMMA TypeStep ==
    ASSUME TypeOK, [Next]_vars
    PROVE  TypeOK'
<1> USE TimesAssumption DEF Never
<1>0. TypeOK /\ HttpTypeOK
  BY DEF TypeOK
<1>1. CASE Http
  <2>1. UNCHANGED <<clock, tool, reply, came, crowded>>
    BY <1>1, HttpDoes
  <2>2. call' \in Call /\ answer' \in Answer /\ left' \in Nat
    BY <1>0, <1>1, HttpDoes, IdleType
    DEF HttpTypeOK, Taking, Straying, Heading, Valued, FailingHere, Failing, Again, Cancelling
  <2>3. signal' \in {"none", "armed", "aborted"} /\ stray' \in Nat /\ accepted' \in Nat
    BY <1>0, <1>1, HttpDoes
    DEF HttpTypeOK, Taking, Straying, Heading, Valued, FailingHere, Again, Cancelling
  <2> QED
    BY <1>0, <2>1, <2>2, <2>3 DEF TypeOK, HttpTypeOK
<1>2. CASE Start
  <2>1. UNCHANGED <<clock, came, crowded, reply>> /\ tool' \in Tool
    BY <1>2, StartDoes DEF Reads
  <2>2. /\ call' \in Call /\ answer' \in Answer /\ left' \in Nat
        /\ UNCHANGED <<signal, stray, accepted>>
    BY <1>0, <1>2, StartDoes, RequestDoes DEF Reads
  <2> QED
    BY <1>0, <2>1, <2>2 DEF TypeOK, HttpTypeOK
<1>3. CASE Posted \/ Throws \/ Looked \/ DelayEnds \/ DelayAborted
  <2>1. UNCHANGED <<clock, came, crowded>> /\ (Reads("poll") \/ Reads("look") \/ Ends)
    BY <1>3, PostedDoes, OthersDo
  <2>2. CASE Reads("poll") \/ Reads("look")
    BY <1>0, <2>1, <2>2 DEF Reads, TypeOK, HttpTypeOK
  <2>3. CASE Ends
    BY <1>0, <2>1, <2>3, NothingType DEF Ends, TypeOK, HttpTypeOK
  <2> QED
    BY <2>1, <2>2, <2>3
<1>4. CASE Polled
  BY <1>0, <1>4, PolledDoes, NothingType DEF Rests, TypeOK, HttpTypeOK
<1>5. CASE OutcomeComes
  BY <1>0, <1>5 DEF OutcomeComes, httpVars, TypeOK, HttpTypeOK
<1>6. CASE Tick
  BY <1>0, <1>6 DEF Tick, ClockMayTick, TypeOK, HttpTypeOK
<1>7. CASE UNCHANGED vars
  BY <1>0, <1>7 DEF vars, httpVars, TypeOK, HttpTypeOK
<1> QED
  BY <1>1, <1>2, <1>3, <1>4, <1>5, <1>6, <1>7 DEF Next, Program

(* The types at the start.                                                 *)
LEMMA TypeInit == Init => TypeOK
<1> SUFFICES ASSUME Init PROVE TypeOK
  OBVIOUS
<1>1. tool \in Tool
  BY DEF Init, Tool
<1> QED
  BY <1>1, IdleType, NothingType, TimesAssumption DEF Init, HttpInit, TypeOK, HttpTypeOK, Never

(* Every variable keeps its type, whatever the timeout, the retries, the   *)
(* pauses and the wait.                                                    *)
THEOREM TypeCorrect == Spec => []TypeOK
<1>1. Init => TypeOK
  BY TypeInit
<1>2. TypeOK /\ [Next]_vars => TypeOK'
  BY TypeStep
<1> QED
  BY <1>1, <1>2, PTL DEF Spec

-----------------------------------------------------------------------------
(* A write is made once. *)

(* What an answer or an abandoned attempt adds, in bare numbers.           *)
LEMMA Sums ==
    ASSUME NEW a \in Nat, NEW s \in Nat, NEW o \in {0, 1}, a + s + o <= 1,
           NEW a2 \in Nat, NEW s2 \in Nat, NEW o2, o2 = 0, a2 + s2 <= a + s + o
    PROVE  a2 + s2 + o2 <= 1
OBVIOUS

(* An answer turns an attempt still owed into one taken.                   *)
LEMMA Shifted ==
    ASSUME NEW a \in Nat, NEW s \in Nat, NEW o \in {0, 1},
           NEW a2 \in Nat, a2 <= a + o, NEW s2, s2 = s
    PROVE  a2 + s2 <= a + s + o
OBVIOUS

(* A step neither repeats such a write nor starts a second one.            *)
LEMMA OneTryStep ==
    ASSUME TypeOK, OneTry, [Next]_vars
    PROVE  OneTry'
<1> SUFFICES ASSUME tool'.name # "sdk_retried"
             PROVE  /\ accepted' + stray' + Owed' <= 1
                    /\ call'.write => call'.retries = 0 /\ call'.at # "pause"
                    /\ tool'.at = "called" => accepted' = 0 /\ stray' = 0 /\ call'.at = "idle"
  BY DEF OneTry
<1>0. /\ accepted \in Nat /\ stray \in Nat /\ Owed \in {0, 1} /\ HttpTypeOK
      /\ Idle.at = "idle" /\ Idle.write = FALSE
  BY DEF TypeOK, HttpTypeOK, Owed, Idle
<1>1. ASSUME tool.name # "sdk_retried"
      PROVE  /\ accepted + stray + Owed <= 1
             /\ call.write => call.retries = 0 /\ call.at # "pause"
             /\ tool.at = "called" => accepted = 0 /\ stray = 0 /\ call.at = "idle"
  BY <1>1 DEF OneTry
<1>2. CASE Http
  <2>0. UNCHANGED <<clock, tool, reply, came, crowded>>
    BY <1>2, HttpDoes
  <2>r. /\ accepted + stray + Owed <= 1
        /\ call.write => call.retries = 0 /\ call.at # "pause"
        /\ tool.at = "called" => accepted = 0 /\ stray = 0 /\ call.at = "idle"
    BY <1>1, <2>0
  <2>1. CASE Taking
    <3>1. Owed' = 0 /\ tool.at # "called"
      BY <2>r, <2>1 DEF Taking, Owed
    <3>2. accepted' \in Nat /\ accepted' <= accepted + Owed /\ stray' = stray
      <4>1. CASE call.write
        BY <1>0, <2>1, <4>1 DEF Taking, Owed
      <4>2. CASE ~call.write
        BY <1>0, <2>1, <4>2 DEF Taking, Owed
      <4> QED
        BY <4>1, <4>2
    <3>3. call'.write => call'.retries = 0 /\ call'.at # "pause"
      BY <2>r, <2>1 DEF Taking
    <3>s. accepted' + stray' <= accepted + stray + Owed
      <4>1. accepted \in Nat /\ stray \in Nat /\ Owed \in {0, 1}
        BY <1>0
      <4>2. accepted' \in Nat /\ accepted' <= accepted + Owed
        BY <3>2
      <4>3. stray' = stray
        BY <3>2
      <4> QED
        BY <4>1, <4>2, <4>3, Shifted
    <3>4. accepted' + stray' + Owed' <= 1
      <4>1. stray' \in Nat /\ accepted \in Nat /\ stray \in Nat /\ Owed \in {0, 1}
        BY <1>0, <3>2
      <4>2. accepted + stray + Owed <= 1 /\ Owed' = 0 /\ accepted' \in Nat
        BY <2>r, <3>1, <3>2
      <4> QED
        BY <3>s, <4>1, <4>2, Sums
    <3> QED
      BY <2>0, <3>1, <3>3, <3>4
  <2>2. CASE Straying
    BY <1>0, <1>1, <2>0, <2>2 DEF Straying, Owed
  <2>3. CASE Heading
    BY <1>0, <1>1, <2>0, <2>3 DEF Heading, Owed
  <2>4. CASE Valued
    BY <1>0, <1>1, <2>0, <2>4 DEF Valued, Owed
  <2>5. CASE FailingHere
    <3>1. ~call'.write /\ Owed' = 0
      BY <1>0, <1>1, <2>0, <2>5, CallFields DEF FailingHere, Failing, Owed, HttpTypeOK
    <3>2. accepted' + stray' <= accepted + stray + Owed
      BY <1>0, <2>5 DEF FailingHere
    <3>3. accepted' \in Nat /\ stray' \in Nat /\ tool.at # "called"
      BY <1>0, <1>1, <2>0, <2>5 DEF FailingHere
    <3>4. accepted' + stray' + Owed' <= 1
      <4>1. accepted \in Nat /\ stray \in Nat /\ Owed \in {0, 1}
        BY <1>0
      <4>2. accepted + stray + Owed <= 1 /\ Owed' = 0
        BY <2>r, <3>1
      <4>3. accepted' \in Nat /\ stray' \in Nat
        BY <3>3
      <4> QED
        BY <3>2, <4>1, <4>2, <4>3, Sums
    <3> QED
      BY <2>0, <3>1, <3>3, <3>4
  <2>6. CASE Again
    BY <1>0, <1>1, <2>0, <2>6 DEF Again, Owed
  <2>7. CASE Cancelling
    BY <1>0, <1>1, <2>0, <2>7 DEF Cancelling, Owed
  <2> QED
    BY <1>2, <2>1, <2>2, <2>3, <2>4, <2>5, <2>6, <2>7, HttpDoes
<1>3. ASSUME NEW at \in {"poll", "look"}, Reads(at) PROVE OneTry'
  BY <1>0, <1>1, <1>3 DEF Reads, Owed, OneTry
<1>4. CASE Start
  <2>1. CASE Reads("poll") \/ Reads("look")
    BY <1>3, <2>1 DEF OneTry
  <2>2. CASE /\ tool'.name = tool.name /\ tool'.at = "post"
             /\ \E retries \in 0 .. MaxRetries :
                  (tool.name # "sdk_retried" => retries = 0) /\ Request(TRUE, retries)
    <3>1. Request(TRUE, 0) /\ 0 \in 0 .. MaxRetries
      BY <2>2, TimesAssumption
    <3>2. /\ UNCHANGED <<stray, accepted>>
          /\ call' = Idle \/ (call'.at = "fetch" /\ call'.retries = 0)
      BY <1>0, <3>1, RequestDoes
    <3>3. accepted = 0 /\ stray = 0
      BY <1>1, <1>4, <2>2, StartDoes
    <3> QED
      BY <1>0, <2>2, <3>2, <3>3 DEF Owed
  <2> QED
    BY <1>4, <2>1, <2>2, StartDoes
<1>5. CASE Posted \/ Throws \/ Looked \/ DelayEnds \/ DelayAborted
  <2>1. CASE Reads("poll") \/ Reads("look")
    BY <1>3, <2>1 DEF OneTry
  <2>2. CASE Ends
    BY <1>0, <1>1, <2>2 DEF Ends, Owed
  <2> QED
    BY <1>5, <2>1, <2>2, PostedDoes, OthersDo
<1>6. CASE Polled
  BY <1>0, <1>1, <1>6, PolledDoes DEF Rests, Owed
<1>7. CASE OutcomeComes \/ Tick \/ UNCHANGED vars
  BY <1>0, <1>1, <1>7 DEF OutcomeComes, Tick, vars, httpVars, Owed
<1> QED
  BY <1>2, <1>4, <1>5, <1>6, <1>7 DEF Next, Program

(* A write reaches the API at most once, unless its caller asked for       *)
(* retries: however the network loses, delays and refuses attempts.        *)
THEOREM WriteOnceHolds == Spec => []WriteOnce
<1>1. Init => TypeOK /\ OneTry
  <2>1. Init => TypeOK
    BY TypeInit
  <2>2. Init => OneTry
    BY DEF Init, HttpInit, OneTry, Owed, Idle
  <2> QED
    BY <2>1, <2>2
<1>2. TypeOK /\ OneTry /\ [Next]_vars => (TypeOK /\ OneTry)'
  BY TypeStep, OneTryStep
<1>3. TypeOK /\ OneTry => WriteOnce
  BY DEF TypeOK, HttpTypeOK, OneTry, WriteOnce, Owed
<1> QED
  BY <1>1, <1>2, <1>3, PTL DEF Spec

-----------------------------------------------------------------------------
(* "Pending" is true. *)

(* A step leaves empty answers and "pending" true.                         *)
LEMMA FreshStep ==
    ASSUME TypeOK, FreshLook, PendingIsTrue, [Next]_vars
    PROVE  FreshLook' /\ PendingIsTrue'
<1>0. /\ HttpTypeOK /\ clock \in Nat /\ clock <= Horizon /\ Horizon \in Nat
      /\ tool.asked \in Nat /\ tool.deadline \in Nat /\ tool.told \in Nat
      /\ came \in 0 .. Horizon + 1
  BY ToolFields, TimesAssumption DEF TypeOK, HttpTypeOK, Never
<1>i. Idle.at = "idle" /\ Nothing.is = "none"
  BY DEF Idle, Nothing
<1>1. CASE Http
  <2>0. UNCHANGED <<clock, tool, reply, came, crowded>>
    BY <1>1, HttpDoes
  <2>1. tool.at = "poll" /\ EmptyAnswer' => crowded \/ came >= tool.asked
    <3>1. CASE Taking
      <4>1. CASE Visible
        <5>1. call'.seen /\ answer' = answer
          BY <3>1, <4>1 DEF Taking
        <5> QED
          BY <5>1 DEF FreshLook, EmptyAnswer
      <4>2. CASE ~Visible
        BY <1>0, <4>2 DEF Visible, Never, FreshLook
      <4> QED
        BY <4>1, <4>2
    <3>2. CASE ~Taking
      <4>1. EmptyAnswer' => EmptyAnswer
        BY <1>1, <1>i, <3>2, HttpDoes
        DEF Straying, Heading, Valued, FailingHere, Failing, Again, Cancelling, EmptyAnswer
      <4> QED
        BY <4>1 DEF FreshLook
    <3> QED
      BY <3>1, <3>2
  <2> QED
    BY <2>0, <2>1 DEF FreshLook, PendingIsTrue
<1>2. ASSUME NEW at \in {"poll", "look"}, Reads(at), UNCHANGED <<clock, came, crowded>>
      PROVE  FreshLook' /\ PendingIsTrue'
  <2>1. ~EmptyAnswer'
    BY <1>2, <1>i DEF Reads, EmptyAnswer
  <2>2. reply' # "pending"
    BY <1>2 DEF Reads, FreshLook
  <2>3. tool'.asked <= clock'
    BY <1>0, <1>2 DEF Reads
  <2> QED
    BY <2>1, <2>2, <2>3 DEF FreshLook, PendingIsTrue
<1>3. CASE Start
  <2>1. UNCHANGED <<clock, came, crowded, reply>> /\ tool.at = "called"
    BY <1>3, StartDoes
  <2>2. CASE tool'.at = "post" /\ tool'.asked = tool.asked
    BY <2>1, <2>2 DEF FreshLook, PendingIsTrue
  <2> QED
    BY <1>2, <1>3, <2>1, <2>2, StartDoes
<1>4. CASE Posted \/ Throws \/ Looked \/ DelayEnds \/ DelayAborted
  <2>1. UNCHANGED <<clock, came, crowded>> /\ (Reads("poll") \/ Reads("look") \/ Ends)
    BY <1>4, PostedDoes, OthersDo
  <2>2. CASE Ends
    BY <2>1, <2>2 DEF Ends, FreshLook, PendingIsTrue
  <2> QED
    BY <1>2, <2>1, <2>2
<1>5. CASE Polled
  <2>1. /\ tool.at = "poll" /\ UNCHANGED <<clock, came, crowded>>
        /\ tool'.asked = tool.asked /\ tool'.at # "poll"
    BY <1>5, PolledDoes
  <2>2. FreshLook'
    BY <1>5, <2>1, PolledDoes DEF FreshLook
  <2>3. PendingIsTrue'
    BY <1>5, <2>1, PolledDoes DEF FreshLook, PendingIsTrue, EmptyAnswer
  <2> QED
    BY <2>2, <2>3
<1>6. CASE OutcomeComes
  BY <1>0, <1>6 DEF OutcomeComes, httpVars, FreshLook, PendingIsTrue, EmptyAnswer
<1>7. CASE Tick
  BY <1>0, <1>7 DEF Tick, FreshLook, PendingIsTrue, EmptyAnswer
<1>8. CASE UNCHANGED vars
  BY <1>8 DEF vars, httpVars, FreshLook, PendingIsTrue, EmptyAnswer
<1> QED
  BY <1>1, <1>3, <1>4, <1>5, <1>6, <1>7, <1>8 DEF Next, Program

(* A wait that returns "pending" looked when its time was up, and what it  *)
(* waits for had not come when it asked: for every wait and interval.      *)
THEOREM PendingIsTrueHolds == Spec => []PendingIsTrue
<1> DEFINE I == TypeOK /\ FreshLook /\ PendingIsTrue
<1>1. Init => I
  <2>1. Init => TypeOK
    BY TypeInit
  <2>2. Init => FreshLook /\ PendingIsTrue
    BY DEF Init, HttpInit, FreshLook, PendingIsTrue, EmptyAnswer, Idle, Nothing
  <2> QED
    BY <2>1, <2>2
<1>2. I /\ [Next]_vars => I'
  BY TypeStep, FreshStep
<1>3. I => PendingIsTrue
  OBVIOUS
<1> QED
  BY <1>1, <1>2, <1>3, PTL DEF Spec

-----------------------------------------------------------------------------
(* Cancelling is final. *)

(* After the signal no step sends an attempt.                              *)
LEMMA NoneLeaves ==
    ASSUME TypeOK, [Next]_vars, signal = "aborted"
    PROVE  left' = left
<1>0. HttpTypeOK
  BY DEF TypeOK
<1>1. CASE Http
  BY <1>1, HttpDoes
  DEF Taking, Straying, Heading, Valued, FailingHere, Again, Cancelling
<1>2. CASE Start
  BY <1>0, <1>2, StartDoes, RequestDoes DEF Reads
<1>3. CASE Posted \/ Throws \/ Looked \/ DelayEnds \/ DelayAborted
  BY <1>3, PostedDoes, OthersDo DEF Reads, Ends
<1>4. CASE Polled
  BY <1>4, PolledDoes DEF Rests
<1>5. CASE OutcomeComes \/ Tick \/ UNCHANGED vars
  BY <1>5 DEF OutcomeComes, Tick, vars, httpVars
<1> QED
  BY <1>1, <1>2, <1>3, <1>4, <1>5 DEF Next, Program

(* Once the caller's signal has gone off no attempt leaves the client, in  *)
(* the middle of a wait, of a pause, or between two requests.              *)
THEOREM CancelIsFinalHolds == Spec => CancelIsFinal
<1>1. TypeOK /\ [Next]_vars => [signal = "aborted" => left' = left]_vars
  BY NoneLeaves
<1> QED
  BY <1>1, TypeCorrect, PTL DEF Spec, CancelIsFinal

-----------------------------------------------------------------------------
(***************************************************************************)
(* A call ends in time.  While a request is out, what is left of it fits   *)
(* before the time by which it must be over: the timer that runs, and for  *)
(* each retry left a pause and a timer.  The clock does not move while an  *)
(* answer waits, and a delay ends by the deadline at the latest.           *)
(***************************************************************************)

(* What the retries left may take, k of them. *)
Rest(k) == k * (TimeoutMs + LongestPause)

(* The request c, at the time now, is over at the time end. *)
Fits(c, now, end) ==
    /\ c.at \in {"fetch", "body"} =>
         /\ now <= c.due /\ c.attempt <= c.retries
         /\ c.due + Rest(c.retries - c.attempt) <= end
    /\ c.at = "pause" =>
         /\ now <= c.due /\ c.attempt <= c.retries
         /\ c.due + TimeoutMs + Rest(c.retries - c.attempt) <= end
    /\ c.at = "idle" => now <= end

(* How long a tool may wait for its write. *)
PostOf(name) ==
    IF name = "sdk_retried" THEN LongestRead
    ELSE IF name \in Posting THEN TimeoutMs ELSE 0

(* When the request a tool is waiting for must be over. *)
EndOf(t) ==
    IF t.at = "post" THEN PostOf(t.name)
    ELSE IF t.at = "poll" THEN t.deadline + LongestRead
    ELSE PostOf(t.name) + LongestRead

InTime ==
    /\ tool.at = "called" => clock = 0
    /\ tool.at = "delay" => clock <= tool.due /\ tool.due <= tool.deadline
    /\ tool.at \in {"poll", "delay"} => tool.deadline <= PostOf(tool.name) + Wait
    /\ tool.at \in {"post", "poll", "look"} =>
         /\ Fits(call, clock, EndOf(tool))
         /\ call.at = "idle" => answer.is # "none"

(* The longest pause is one of them.                                       *)
LEMMA LongestPauseIs ==
    LongestPause \in Nat /\ \A p \in Pauses : p \in Nat /\ p <= LongestPause
<1>1. LongestPause \in Pauses /\ \A q \in Pauses : q <= LongestPause
  BY PausesAssumption DEF LongestPause
<1> QED
  BY <1>1, TimesAssumption

(* One retry more is one pause and one timer more.                         *)
LEMMA RestAdds ==
    /\ Rest(0) = 0
    /\ \A k \in Nat : Rest(k) \in Nat
    /\ \A k \in Nat : k > 0 => Rest(k) = Rest(k - 1) + TimeoutMs + LongestPause
<1> DEFINE c == TimeoutMs + LongestPause
<1>1. c \in Nat
  BY LongestPauseIs, TimesAssumption
<1> HIDE DEF c
<1>2. 0 * c = 0 /\ \A k \in Nat : k * c \in Nat
  BY <1>1
<1>3. \A k \in Nat : k > 0 => k * c = (k - 1) * c + c
  BY <1>1
<1>4. \A x \in Nat : x + c = x + TimeoutMs + LongestPause
  BY LongestPauseIs, TimesAssumption DEF c
<1> QED
  BY <1>2, <1>3, <1>4 DEF Rest, c

(* The longest read is its first timer and all the retries.                *)
LEMMA LongestReadIs ==
    LongestRead \in Nat /\ LongestRead = TimeoutMs + Rest(MaxRetries)
<1>1. LongestPause \in Nat /\ TimeoutMs \in Nat /\ MaxRetries \in Nat
  BY LongestPauseIs, TimesAssumption
<1>2. \A t, l, r \in Nat :
        (r + 1) * t + r * l = t + r * (t + l) /\ (r + 1) * t + r * l \in Nat
  OBVIOUS
<1> QED
  BY <1>1, <1>2 DEF LongestRead, Rest

LEMMA PostIs ==
    /\ LongestPost = PostOf(tool.name)
    /\ \A name : PostOf(name) \in Nat
BY LongestReadIs, TimesAssumption DEF LongestPost, PostOf

(* An attempt that goes out with its retries before it ends in time.       *)
LEMMA AttemptFits ==
    ASSUME HttpTypeOK, NEW c \in Call, Attempt(c), NEW end \in Nat,
           c.attempt <= c.retries,
           clock + TimeoutMs + Rest(c.retries - c.attempt) <= end
    PROVE  Fits(call', clock, end) /\ (call'.at = "idle" => answer'.is # "none")
<1>0. /\ clock \in Nat /\ TimeoutMs \in Nat /\ c.retries - c.attempt \in Nat
      /\ Rest(c.retries - c.attempt) \in Nat
  <2>1. c.retries \in Nat /\ c.attempt \in Nat /\ MaxRetries \in Nat
    BY TimesAssumption, CallFields
  <2>2. c.retries - c.attempt \in Nat
    BY <2>1
  <2> QED
    BY <2>2, RestAdds, TimesAssumption DEF HttpTypeOK
<1>1. CASE Cancelled
  <2>1. call' = Idle /\ answer'.is = "reason"
    BY <1>1, SettleDoes DEF Attempt
  <2> QED
    BY <1>0, <2>1 DEF Fits, Idle
<1>2. CASE ~Cancelled
  <2>1. call' = [c EXCEPT !.at = "fetch", !.due = clock + TimeoutMs, !.got = "nothing"]
    BY <1>2 DEF Attempt
  <2>2. /\ call'.at = "fetch" /\ call'.due = clock + TimeoutMs
        /\ call'.attempt = c.attempt /\ call'.retries = c.retries
    BY <2>1 DEF Call
  <2> QED
    BY <1>0, <2>2 DEF Fits
<1> QED
  BY <1>1, <1>2

(* So does a request.                                                      *)
LEMMA RequestFits ==
    ASSUME HttpTypeOK, NEW write \in BOOLEAN, NEW retries \in 0 .. MaxRetries,
           Request(write, retries), NEW end \in Nat,
           clock + TimeoutMs + Rest(retries) <= end
    PROVE  Fits(call', clock, end) /\ (call'.at = "idle" => answer'.is # "none")
<1> DEFINE c1 == [Idle EXCEPT !.write = write]
<1> DEFINE c2 == [c1 EXCEPT !.retries = retries]
<1>1. c1 \in Call
  BY IdleType, CallUpdate
<1>2. c2 \in Call
  <2> HIDE DEF c1
  <2> QED
    BY <1>1, CallUpdate
<1>3. c2.retries = retries /\ c2.attempt = 0
  BY DEF Idle
<1>4. Attempt(c2)
  BY DEF Request
<1> HIDE DEF c2
<1>5. c2.attempt <= c2.retries /\ c2.retries - c2.attempt = retries
  BY <1>3, TimesAssumption
<1> QED
  BY <1>2, <1>4, <1>5, AttemptFits

(* A pause spends one of the retries left.                                 *)
LEMMA RepeatFits ==
    ASSUME HttpTypeOK, NEW end \in Nat, Fits(call, clock, end), call.at \in {"fetch", "body"},
           RepeatOr(Settle("error", FALSE))
    PROVE  Fits(call', clock, end) /\ (call'.at = "idle" => answer'.is # "none")
<1>0. /\ clock \in Nat /\ TimeoutMs \in Nat /\ LongestPause \in Nat
      /\ call.due \in Nat /\ call.attempt \in Nat /\ call.retries \in Nat
      /\ clock <= call.due /\ call.attempt <= call.retries
      /\ call.due + Rest(call.retries - call.attempt) <= end
  BY TimesAssumption, LongestPauseIs, CallFields DEF HttpTypeOK, Fits
<1>1. call.retries - call.attempt \in Nat /\ Rest(call.retries - call.attempt) \in Nat
  BY <1>0, RestAdds
<1>2. CASE call.attempt < call.retries
  <2>1. PICK p \in Pauses :
          call' = [call EXCEPT !.at = "pause", !.due = clock + p, !.attempt = @ + 1]
    BY <1>2 DEF RepeatOr, Pause
  <2>2. p \in Nat /\ p <= LongestPause
    BY LongestPauseIs
  <2>3. /\ call'.at = "pause" /\ call'.due = clock + p
        /\ call'.attempt = call.attempt + 1 /\ call'.retries = call.retries
    BY <2>1 DEF HttpTypeOK, Call
  <2> DEFINE k == call.retries - call.attempt
  <2>4. k - 1 \in Nat /\ k > 0 /\ k \in Nat /\ call'.retries - call'.attempt = k - 1
    BY <1>0, <1>2, <2>3
  <2>5. Rest(k) = Rest(k - 1) + TimeoutMs + LongestPause /\ Rest(k - 1) \in Nat
    BY <2>4, RestAdds
  <2> HIDE DEF k
  <2>6. call.due + Rest(k) <= end
    BY <1>0 DEF k
  <2>7. clock + p + TimeoutMs + Rest(k - 1) <= end
    BY <1>0, <2>2, <2>5, <2>6
  <2>8. /\ clock <= call'.due /\ call'.attempt <= call'.retries
        /\ call'.due + TimeoutMs + Rest(call'.retries - call'.attempt) <= end
    BY <1>0, <1>2, <2>2, <2>3, <2>4, <2>7
  <2> QED
    BY <2>3, <2>8 DEF Fits
<1>3. CASE ~(call.attempt < call.retries)
  <2>1. call' = Idle /\ answer'.is = "error"
    BY <1>3, SettleDoes DEF RepeatOr
  <2> QED
    BY <1>0, <1>1, <2>1 DEF Fits, Idle
<1> QED
  BY <1>2, <1>3

(* A request that ends leaves its answer, and has ended in time.           *)
LEMMA SettleFits ==
    ASSUME HttpTypeOK, NEW end \in Nat, Fits(call, clock, end),
           call.at \in {"fetch", "body", "idle"},
           NEW is \in {"value", "error", "reason"}, NEW seen \in BOOLEAN, Settle(is, seen)
    PROVE  Fits(call', clock, end) /\ (call'.at = "idle" => answer'.is # "none")
<1>1. call' = Idle /\ answer'.is = is
  BY SettleDoes
<1>2. clock <= end
  <2>1. CASE call.at = "idle"
    BY <2>1 DEF Fits
  <2>2. CASE call.at \in {"fetch", "body"}
    <3>1. /\ clock \in Nat /\ call.due \in Nat /\ call.attempt \in Nat /\ call.retries \in Nat
          /\ clock <= call.due /\ call.attempt <= call.retries
          /\ call.due + Rest(call.retries - call.attempt) <= end
      BY <2>2, TimesAssumption, CallFields DEF HttpTypeOK, Fits
    <3>2. Rest(call.retries - call.attempt) \in Nat
      <4>1. call.retries - call.attempt \in Nat
        BY <3>1
      <4> QED
        BY <4>1, RestAdds
    <3> QED
      BY <3>1, <3>2
  <2> QED
    BY <2>1, <2>2
<1> QED
  BY <1>1, <1>2 DEF Fits, Idle

(* A step of the network, of a timer or of the signal keeps the request in *)
(* its time.                                                               *)
LEMMA HttpFits ==
    ASSUME TypeOK, Http, NEW end \in Nat, Fits(call, clock, end),
           call.at = "idle" => answer.is # "none"
    PROVE  Fits(call', clock, end) /\ (call'.at = "idle" => answer'.is # "none")
<1>0. HttpTypeOK
  BY DEF TypeOK
<1>1. ASSUME call'.at = call.at \/ (call.at = "fetch" /\ call'.at = "body"),
             call'.due = call.due, call'.attempt = call.attempt, call'.retries = call.retries,
             answer' = answer
      PROVE  Fits(call', clock, end) /\ (call'.at = "idle" => answer'.is # "none")
  BY <1>1 DEF Fits
<1>2. CASE Serve(Visible)
  <2>1. PICK got \in {"ok", "refused", "overloaded"} :
          call' = [call EXCEPT !.got = got, !.seen = Visible]
    BY <1>2 DEF Serve
  <2>2. /\ call'.at = call.at /\ call'.due = call.due
        /\ call'.attempt = call.attempt /\ call'.retries = call.retries
    BY <1>0, <2>1 DEF HttpTypeOK, Call
  <2> QED
    BY <1>1, <1>2, <2>2 DEF Serve
<1>3. CASE StrayArrives
  BY <1>1, <1>3 DEF StrayArrives
<1>4. CASE HeadersArrive
  <2>1. call' = [call EXCEPT !.at = "body"] /\ call.at = "fetch" /\ answer' = answer
    BY <1>4 DEF HeadersArrive
  <2>2. /\ call'.at = "body" /\ call'.due = call.due
        /\ call'.attempt = call.attempt /\ call'.retries = call.retries
    BY <1>0, <2>1 DEF HttpTypeOK, Call
  <2> QED
    BY <1>1, <2>1, <2>2
<1>5. ASSUME call.at \in {"fetch", "body"}, ErrorStatus
      PROVE  Fits(call', clock, end) /\ (call'.at = "idle" => answer'.is # "none")
  BY <1>0, <1>5, RepeatFits, SettleFits DEF ErrorStatus
<1>6. ASSUME call.at = "body", BodyBreaks
      PROVE  Fits(call', clock, end) /\ (call'.at = "idle" => answer'.is # "none")
  BY <1>0, <1>5, <1>6, SettleFits DEF BodyBreaks
<1>7. CASE BodyArrives
  <2>1. call.seen \in BOOLEAN
    BY <1>0, CallFields DEF HttpTypeOK
  <2> QED
    BY <1>0, <1>5, <1>7, <2>1, SettleFits DEF BodyArrives
<1>8. CASE ConnectionFails \/ TimerFires
  BY <1>0, <1>6, <1>8, RepeatFits DEF ConnectionFails, TimerFires, FetchFails
<1>9. CASE PauseEnds
  <2>1. /\ call.at = "pause" /\ clock = call.due /\ Attempt(call)
        /\ call \in Call /\ call.attempt <= call.retries
        /\ call.due + TimeoutMs + Rest(call.retries - call.attempt) <= end
    BY <1>0, <1>9 DEF PauseEnds, Fits, HttpTypeOK
  <2> QED
    BY <1>0, <2>1, AttemptFits
<1>10. CASE AbortCall
  <2>1. CASE call.at = "fetch"
    BY <1>0, <1>10, <2>1, SettleFits DEF AbortCall, Abort
  <2>2. CASE call.at = "body"
    BY <1>6, <1>10, <2>2 DEF AbortCall, Abort
  <2>3. CASE call.at \notin {"fetch", "body"}
    BY <1>1, <1>10, <2>3 DEF AbortCall, Abort
  <2> QED
    BY <2>1, <2>2, <2>3
<1> QED
  BY <1>2, <1>3, <1>4, <1>7, <1>8, <1>9, <1>10 DEF Http, Network, Timers

(* A tool that reads from its deadline on at the latest ends in time.      *)
LEMMA ReadInTime ==
    ASSUME TypeOK, NEW t \in Tool, t.name = tool.name, UNCHANGED clock,
           \/ /\ Read(t, "poll")
              /\ clock <= t.deadline /\ t.deadline <= PostOf(t.name) + Wait
           \/ Read(t, "look") /\ clock <= PostOf(t.name)
    PROVE  InTime'
<1> PICK at \in {"poll", "look"} :
          /\ Read(t, at)
          /\ at = "poll" => clock <= t.deadline /\ t.deadline <= PostOf(t.name) + Wait
          /\ at = "look" => clock <= PostOf(t.name)
  OBVIOUS
<1>0. clock \in Nat /\ t.deadline \in Nat /\ HttpTypeOK
  BY ToolFields, TimesAssumption DEF TypeOK, HttpTypeOK
<1>1. tool' = [t EXCEPT !.at = at, !.asked = clock] /\ Request(FALSE, RetriesFor(FALSE))
  BY DEF Read
<1>2. tool'.at = at /\ tool'.name = t.name /\ tool'.deadline = t.deadline
  BY <1>1 DEF Tool
<1> DEFINE end == IF at = "poll" THEN t.deadline + LongestRead ELSE PostOf(t.name) + LongestRead
<1>3. end \in Nat /\ clock + LongestRead <= end
  BY <1>0, LongestReadIs, PostIs
<1>4. MaxRetries \in 0 .. MaxRetries /\ RetriesFor(FALSE) = MaxRetries
  BY TimesAssumption DEF RetriesFor
<1>5. clock + TimeoutMs + Rest(MaxRetries) <= end
  <2>1. TimeoutMs \in Nat /\ Rest(MaxRetries) \in Nat
    BY RestAdds, TimesAssumption
  <2> HIDE DEF end
  <2> QED
    BY <1>0, <1>3, <2>1, LongestReadIs
<1>6. EndOf(tool') = end
  BY <1>2 DEF EndOf
<1> HIDE DEF end
<1>7. Fits(call', clock, end) /\ (call'.at = "idle" => answer'.is # "none")
  BY <1>0, <1>1, <1>3, <1>4, <1>5, RequestFits
<1> QED
  BY <1>2, <1>6, <1>7 DEF InTime

(* Every step keeps to the time.                                           *)
LEMMA InTimeStep ==
    ASSUME TypeOK, InTime, [Next]_vars
    PROVE  InTime'
<1>0. /\ HttpTypeOK /\ tool \in Tool /\ clock \in Nat
      /\ tool.deadline \in Nat /\ tool.due \in Nat /\ Wait \in Nat /\ Interval \in Nat
      /\ PostOf(tool.name) \in Nat /\ LongestRead \in Nat
  BY ToolFields, PostIs, LongestReadIs, TimesAssumption, WaitAssumption DEF TypeOK, HttpTypeOK
<1>e. EndOf(tool) \in Nat
  BY <1>0 DEF EndOf
<1>d. ASSUME tool'.at = "done" PROVE InTime'
  BY <1>d DEF InTime
<1>1. CASE Http
  <2>1. UNCHANGED <<clock, tool>>
    BY <1>1, HttpDoes
  <2>2. CASE tool.at \in {"post", "poll", "look"}
    <3>1. Fits(call, clock, EndOf(tool)) /\ (call.at = "idle" => answer.is # "none")
      BY <2>2 DEF InTime
    <3>2. Fits(call', clock, EndOf(tool)) /\ (call'.at = "idle" => answer'.is # "none")
      BY <1>1, <1>e, <3>1, HttpFits
    <3> QED
      BY <2>1, <3>2 DEF InTime
  <2>3. CASE tool.at \notin {"post", "poll", "look"}
    BY <2>1, <2>3 DEF InTime
  <2> QED
    BY <2>2, <2>3
<1>2. CASE Start
  <2>0. clock = 0 /\ UNCHANGED clock
    BY <1>2 DEF Start, InTime
  <2>1. CASE /\ tool.name \in Posting
             /\ Request(TRUE, IF tool.name = "sdk_retried" THEN MaxRetries ELSE RetriesFor(TRUE))
             /\ tool' = [tool EXCEPT !.at = "post"]
    <3> DEFINE n == IF tool.name = "sdk_retried" THEN MaxRetries ELSE RetriesFor(TRUE)
    <3>1. n \in 0 .. MaxRetries /\ Request(TRUE, n)
      <4>1. n \in 0 .. MaxRetries
        BY TimesAssumption DEF RetriesFor
      <4>2. Request(TRUE, n)
        BY <2>1
      <4> QED
        BY <4>1, <4>2
    <3>2. TimeoutMs \in Nat /\ clock + TimeoutMs + Rest(n) <= PostOf(tool.name)
      <4>1. CASE tool.name = "sdk_retried"
        BY <2>0, <4>1, LongestReadIs, RestAdds, TimesAssumption DEF PostOf
      <4>2. CASE tool.name # "sdk_retried"
        BY <2>0, <2>1, <4>2, RestAdds, TimesAssumption DEF PostOf, RetriesFor
      <4> QED
        BY <4>1, <4>2
    <3>3. tool'.at = "post" /\ tool'.name = tool.name
      BY <1>0, <2>1 DEF Tool
    <3> HIDE DEF n
    <3>4. Fits(call', clock, PostOf(tool.name)) /\ (call'.at = "idle" => answer'.is # "none")
      BY <1>0, <3>1, <3>2, RequestFits
    <3>5. EndOf(tool') = PostOf(tool.name)
      BY <3>3 DEF EndOf
    <3> QED
      BY <2>0, <3>3, <3>4, <3>5 DEF InTime
  <2>2. CASE Read([tool EXCEPT !.deadline = clock + Wait], "poll")
    <3> DEFINE t == [tool EXCEPT !.deadline = clock + Wait]
    <3>1. t \in Tool /\ t.name = tool.name /\ t.deadline = clock + Wait
      <4>1. clock + Wait \in Nat
        BY <1>0
      <4>2. t \in Tool
        BY <1>0, <4>1, ToolUpdate
      <4> QED
        BY <1>0, <4>2 DEF Tool
    <3>2. Read(t, "poll")
      BY <2>2
    <3> HIDE DEF t
    <3>3. clock <= t.deadline /\ t.deadline <= PostOf(t.name) + Wait
      BY <1>0, <2>0, <3>1
    <3> QED
      BY <2>0, <3>1, <3>2, <3>3, ReadInTime
  <2>3. CASE Read(tool, "look")
    BY <1>0, <2>0, <2>3, ReadInTime
  <2> QED
    BY <1>2, <2>1, <2>2, <2>3 DEF Start
<1>3. CASE Posted
  <2>1. tool.at = "post" /\ UNCHANGED clock
    BY <1>3 DEF Posted
  <2>2. ASSUME call.at = "idle" PROVE clock <= PostOf(tool.name)
    BY <2>1, <2>2 DEF InTime, Fits, EndOf
  <2>3. CASE Reply("value")
    BY <1>d, <2>3, ReplyDoes
  <2>4. CASE Read([tool EXCEPT !.known = TRUE, !.deadline = clock + Wait], "poll")
    <3> DEFINE t1 == [tool EXCEPT !.known = TRUE]
    <3> DEFINE t == [t1 EXCEPT !.deadline = clock + Wait]
    <3>1. t1 \in Tool
      BY <1>0, ToolUpdate
    <3>2. t \in Tool
      <4>1. clock + Wait \in Nat
        BY <1>0
      <4> HIDE DEF t1
      <4> QED
        BY <3>1, <4>1, ToolUpdate
    <3>3. t.name = tool.name /\ t.deadline = clock + Wait
      BY <1>0 DEF Tool
    <3>4. Read(t, "poll")
      BY <2>4
    <3> HIDE DEF t
    <3>5. call.at = "idle"
      BY <3>4 DEF Read, Request
    <3>6. clock <= t.deadline /\ t.deadline <= PostOf(t.name) + Wait
      BY <1>0, <2>2, <3>3, <3>5
    <3> QED
      BY <2>1, <3>2, <3>3, <3>4, <3>6, ReadInTime
  <2>5. CASE Read([tool EXCEPT !.known = TRUE], "look")
    <3> DEFINE t == [tool EXCEPT !.known = TRUE]
    <3>1. t \in Tool
      BY <1>0, ToolUpdate
    <3>2. t.name = tool.name
      BY <1>0 DEF Tool
    <3>3. Read(t, "look") /\ call.at = "idle"
      BY <2>5 DEF Read, Request
    <3> HIDE DEF t
    <3> QED
      BY <2>1, <2>2, <3>1, <3>2, <3>3, ReadInTime
  <2> QED
    BY <1>3, <2>3, <2>4, <2>5 DEF Posted
<1>4. CASE Throws \/ Looked \/ DelayAborted
  BY <1>d, <1>4, ReplyDoes DEF Throws, Looked, DelayAborted
<1>5. CASE Polled
  <2> DEFINE left1 == tool.deadline - clock
  <2>1. tool.at = "poll" /\ UNCHANGED clock
    BY <1>5 DEF Polled
  <2>2. CASE Reply("outcome")
    BY <1>d, <2>2, ReplyDoes
  <2>3. CASE tool' = [tool EXCEPT !.at = "done", !.told = clock]
    <3>1. tool'.at = "done"
      BY <1>0, <2>3 DEF Tool
    <3> QED
      BY <1>d, <3>1
  <2>4. CASE /\ left1 > 0
             /\ tool' = [tool EXCEPT !.at = "delay", !.told = clock,
                                     !.due = clock + NextDelay(left1)]
    <3>1. /\ tool'.at = "delay" /\ tool'.due = clock + NextDelay(left1)
          /\ tool'.deadline = tool.deadline /\ tool'.name = tool.name
      BY <1>0, <2>4 DEF Tool
    <3>2. NextDelay(left1) \in Nat /\ NextDelay(left1) <= left1
      BY <1>0, <2>4 DEF NextDelay, Shortest
    <3>3. clock <= tool'.due /\ tool'.due <= tool'.deadline
      BY <1>0, <3>1, <3>2
    <3>4. tool.deadline <= PostOf(tool.name) + Wait
      BY <2>1 DEF InTime
    <3> QED
      BY <2>1, <3>1, <3>3, <3>4 DEF InTime
  <2> QED
    BY <1>5, <2>2, <2>3, <2>4 DEF Polled
<1>6. CASE DelayEnds
  <2>1. tool.at = "delay" /\ clock = tool.due /\ Read(tool, "poll") /\ UNCHANGED clock
    BY <1>6 DEF DelayEnds, AskAgain
  <2>2. clock <= tool.deadline /\ tool.deadline <= PostOf(tool.name) + Wait
    BY <2>1 DEF InTime
  <2> QED
    BY <1>0, <2>1, <2>2, ReadInTime
<1>7. CASE Tick
  <2>1. /\ clock' = clock + 1 /\ UNCHANGED <<call, answer, tool>>
        /\ tool.at \notin {"called", "done"} /\ answer.is = "none"
        /\ tool.at = "delay" => clock < tool.due
        /\ call.at \in {"fetch", "body", "pause"} => clock < call.due
    BY <1>7 DEF Tick, ClockMayTick, Timed
  <2>2. CASE tool.at = "delay"
    BY <1>0, <2>1, <2>2 DEF InTime
  <2>3. CASE tool.at \in {"post", "poll", "look"}
    <3>1. call.at \in {"fetch", "body", "pause"} /\ call.due \in Nat
      BY <1>0, <2>1, <2>3, CallFields DEF InTime, HttpTypeOK
    <3>2. clock + 1 <= call.due
      BY <1>0, <2>1, <3>1
    <3>3. Fits(call, clock, EndOf(tool))
      BY <2>3 DEF InTime
    <3>4. Fits(call, clock + 1, EndOf(tool))
      BY <3>1, <3>2, <3>3 DEF Fits
    <3> QED
      BY <2>1, <2>3, <3>1, <3>4 DEF InTime
  <2> QED
    BY <1>0, <2>1, <2>2, <2>3, ToolFields
<1>8. CASE OutcomeComes \/ UNCHANGED vars
  BY <1>8 DEF OutcomeComes, vars, httpVars, InTime
<1> QED
  BY <1>1, <1>2, <1>3, <1>4, <1>5, <1>6, <1>7, <1>8 DEF Next, Program

(* What is in time ends in time.                                           *)
LEMMA InTimeEnds ==
    ASSUME TypeOK, InTime
    PROVE  EndsInTime
<1> SUFFICES ASSUME tool.at # "done"
             PROVE  clock <= LongestPost + Wait + LongestRead
  BY DEF EndsInTime
<1>0. /\ HttpTypeOK /\ tool \in Tool /\ clock \in Nat
      /\ tool.deadline \in Nat /\ tool.due \in Nat /\ Wait \in Nat
      /\ LongestPost = PostOf(tool.name) /\ PostOf(tool.name) \in Nat /\ LongestRead \in Nat
  BY ToolFields, PostIs, LongestReadIs, TimesAssumption, WaitAssumption DEF TypeOK, HttpTypeOK
<1>1. CASE tool.at = "called"
  BY <1>0, <1>1 DEF InTime
<1>2. CASE tool.at = "delay"
  BY <1>0, <1>2 DEF InTime
<1>3. CASE tool.at \in {"post", "poll", "look"}
  <2>1. /\ Fits(call, clock, EndOf(tool))
        /\ tool.at = "poll" => tool.deadline <= PostOf(tool.name) + Wait
    BY <1>3 DEF InTime
  <2>2. EndOf(tool) \in Nat /\ EndOf(tool) <= PostOf(tool.name) + Wait + LongestRead
    BY <1>0, <1>3, <2>1 DEF EndOf
  <2>3. clock <= EndOf(tool)
    <3>1. /\ call.at \in {"idle", "fetch", "body", "pause"} /\ call.due \in Nat
          /\ call.retries \in Nat /\ call.attempt \in Nat
      BY <1>0, CallFields, TimesAssumption DEF HttpTypeOK
    <3>2. CASE call.at = "idle"
      BY <2>1, <3>2 DEF Fits
    <3>3. CASE call.at \in {"fetch", "body", "pause"}
      <4>1. clock <= call.due /\ call.attempt <= call.retries
        BY <2>1, <3>3 DEF Fits
      <4>2. Rest(call.retries - call.attempt) \in Nat /\ TimeoutMs \in Nat
        <5>1. call.retries - call.attempt \in Nat
          BY <3>1, <4>1
        <5> QED
          BY <5>1, RestAdds, TimesAssumption
      <4>3. \/ call.due + Rest(call.retries - call.attempt) <= EndOf(tool)
            \/ call.due + TimeoutMs + Rest(call.retries - call.attempt) <= EndOf(tool)
        BY <2>1, <3>3 DEF Fits
      <4> QED
        BY <1>0, <2>2, <3>1, <4>1, <4>2, <4>3
    <3> QED
      BY <3>1, <3>2, <3>3
  <2> QED
    BY <1>0, <2>2, <2>3
<1> QED
  BY <1>0, <1>1, <1>2, <1>3, ToolFields

(* No call outlasts its post, its wait and one read begun at the deadline: *)
(* for every timeout, number of retries, wait and interval, and every cap  *)
(* on the pauses.                                                          *)
THEOREM EndsInTimeHolds == Spec => []EndsInTime
<1>1. Init => TypeOK /\ InTime
  <2>1. Init => InTime
    <3> SUFFICES ASSUME Init PROVE InTime
      OBVIOUS
    <3>1. clock = 0 /\ tool.at = "called"
      BY DEF Init, HttpInit
    <3> QED
      BY <3>1 DEF InTime
  <2> QED
    BY <2>1, TypeInit
<1>2. TypeOK /\ InTime /\ [Next]_vars => (TypeOK /\ InTime)'
  BY TypeStep, InTimeStep
<1>3. TypeOK /\ InTime => EndsInTime
  BY InTimeEnds
<1> QED
  BY <1>1, <1>2, <1>3, PTL DEF Spec

=============================================================================
