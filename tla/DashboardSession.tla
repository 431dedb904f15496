-------------------------- MODULE DashboardSession --------------------------
(***************************************************************************)
(* Who is signed in, for one tab of the dashboard: the gate in front of    *)
(* the pages, the account query, the effects that send a visitor from page *)
(* to page, signing in and out, and the cookies only the API writes.       *)
(* Sources: src/web: proxy.ts, lib/session-cookie.ts, lib/queries.ts,      *)
(* components/session-provider.tsx, providers.tsx, signed-in-redirect.tsx, *)
(* app-shell.tsx, the sign-in, verify-email and settings pages.            *)
(*                                                                         *)
(* The pages are three: "app", "verify" and "signin" (which also stands    *)
(* for registering and resetting a password).  A request carries the       *)
(* cookies the browser holds when it leaves; an answer changes them when   *)
(* it arrives, also when the cache no longer waits for it: such requests   *)
(* are `strays`.  Every page's own request is one request, `req`.          *)
(***************************************************************************)
EXTENDS Naturals, FiniteSets, QueryClient

CONSTANTS
    Account,
    Returning,      \* bound: accounts whose session the browser may hold from before
    Nobody,         \* what /me says, and the cache holds, when no one is signed in
    Scenes          \* bound: what is looked at together

(* SIMHOOK_SESSION_FLAG is "off", or "on", or on where the flag does not    *)
(* reach, "apart".  `verified` are accounts whose address is verified from  *)
(* the start, `asks` what the pages ask for, `sessions` those the API ever  *)
(* makes, `visits` the pages loaded afresh or gone back to, `strays` the    *)
(* dropped requests under way at once: one more is never answered.          *)
Scene == [setup : {"off", "on", "apart"}, verified : SUBSET Account,
          asks : SUBSET {"rows", "password"}, sessions : Nat \ {0}, visits : Nat, strays : Nat]

ASSUME VisitorAssumption ==
    /\ Returning \subseteq Account /\ Nobody \notin Account
    /\ Scenes \subseteq Scene

VARIABLES
    scene,      \* the setup, which stays as it is, and its bounds
    owner,      \* the API: whose each session is, in the order they were made
    live,       \* the API: sessions that are still good
    verified,   \* the API: accounts with a verified address
    cookie,     \* the browser: the session cookie, 0 for none
    flag,       \* the browser: the readable flag cookie
    path,       \* the page the tab shows
    bounced,    \* gate=1 in its address
    read,       \* with gate=1: SignedInRedirect saw the flag when it last rendered
    me,         \* the account query
    deliberate, \* SessionProvider's ref
    leaving,    \* a signOut() between its two halves, with the session it posted
    login,      \* the sign-in or sign-up form
    req,        \* the request of the page
    rows,       \* whose data the pages have cached
    strays,     \* requests under way, or answered, whose answers the cache dropped
    visits, followed,
    hops,       \* ghost: redirects since the visitor did something, or an answer
                \* changed the account or the cookies
    abrupt      \* ghost: the last session here was lost, or replaced, without a sign-out

api == <<owner, live, verified>>
cookies == <<cookie, flag>>
place == <<path, bounced, read>>
page == <<req, rows>>
bounds == <<visits, followed>>
vars == <<scene, api, cookies, place, me, deliberate, leaving, login, page, strays, bounds,
          hops, abrupt>>

InApp == {"app", "verify"}
NoReq == [at |-> "none", by |-> 0, what |-> "rows", cookies |-> "keep"]

(* What an answer does to the cookies, what it says of the visitor, and what *)
(* a request carries when n sessions were ever made.                        *)
Cookies == {"keep", "flag", "clear", "renew"}
Said == {Nobody} \cup (Account \X BOOLEAN)
Jars(n) == (0 .. n) \X BOOLEAN

Answers(n) == [says : Said, cookies : Cookies, by : 0 .. n]
Datas == {<<>>} \cup {<<x>> : x \in Said}
Wires(n) == {Quiet} \cup {<<"asked", jar>> : jar \in Jars(n)}
                    \cup {<<"answered", x>> : x \in Answers(n)}

MeStates(n) == [data : Datas, wire : Wires(n), failed : BOOLEAN]

LoginStates(n) ==
    {<<"idle">>, <<"success">>} \cup {<<"posted", a>> : a \in Account}
                                \cup {<<"made", s>> : s \in 1 .. n}

LeavingStates(n) == {<<"no">>, <<"taken">>} \cup {<<"posted", s>> : s \in 0 .. n}

Reqs(n) == [at : {"none", "asked", "served", "refused", "wrong"}, by : 0 .. n,
            what : {"rows", "password"}, cookies : Cookies]

Strays(n) == [at : {"asked", "answered"}, by : 0 .. n, cookies : Cookies]

(* The type of every variable. *)
TypeOK ==
    /\ scene \in Scenes
    /\ owner \in Seq(Account) /\ Len(owner) <= scene.sessions
    /\ live \subseteq 1 .. Len(owner)
    /\ verified \subseteq Account
    /\ cookie \in 0 .. Len(owner) /\ flag \in BOOLEAN
    /\ path \in InApp \cup {"signin"} /\ bounced \in BOOLEAN /\ (bounced => path = "signin")
    /\ read \in BOOLEAN /\ (~bounced => read)
    /\ me \in MeStates(Len(owner))
    /\ deliberate \in BOOLEAN
    /\ leaving \in LeavingStates(Len(owner))
    /\ login \in LoginStates(Len(owner))
    /\ req \in Reqs(Len(owner))
    /\ rows \in {Nobody} \cup Account
    /\ strays \subseteq Strays(Len(owner))
    /\ visits \in 0 .. scene.visits /\ followed \in BOOLEAN
    /\ hops \in Nat /\ abrupt \in {"no", "lost", "replaced"}

-----------------------------------------------------------------------------
(* What the components read. *)

SignedIn == HasData(me) /\ me.data # <<Nobody>>
Authenticated == SignedIn /\ ~me.failed

(* The flag as this site's address can see it. *)
FlagSeen == flag /\ scene.setup # "apart"

(* A bug to catch: the gate marks the request and lets it through. *)
GateMarksOnly(p, seen) ==
    path' = p /\ bounced' = (p \in InApp /\ scene.setup # "off" /\ ~seen) /\ read' = ~bounced'

(* The page a request for p ends on.  Where the gate bounces it to, the      *)
(* flag is as unseen as it was here.                                        *)
Gate(p, seen) ==
    /\ bounced' = (p \in InApp /\ scene.setup # "off" /\ ~seen)
    /\ path' = IF bounced' THEN "signin" ELSE p
    /\ read' = ~bounced'

(* SignedInRedirect reads the flag as it renders, and nothing tells it of   *)
(* a flag that comes or goes in between.                                    *)
Renders == read' = (bounced' => FlagSeen')

Jar == <<cookie, flag>>

(* What the API may do to the cookies of a request that carried `jar`,      *)
(* outside signing in and out.  Whether a session's expiry is due to be     *)
(* moved, and both cookies to be issued anew, is left open.                 *)
Truthful(jar) ==
    IF jar[1] \in live THEN {"renew", IF jar[2] THEN "keep" ELSE "flag"}
    ELSE IF jar = <<0, FALSE>> THEN {"keep"} ELSE {"clear"}

(* An answer's cookies, for a request that carried session s. *)
TakeCookies(how, s) ==
    /\ cookie' = CASE how = "clear" -> 0 [] how = "renew" -> s [] OTHER -> cookie
    /\ flag' = IF how = "keep" THEN flag ELSE how # "clear"

(* A bug to catch: the bounce alone is taken for a browser without the flag. *)
StuckByBounce == Authenticated /\ bounced

(* A bug to catch: the redirect does not look at the flag at all. *)
StuckNever == FALSE

Stuck == Authenticated /\ bounced /\ ~read

(* A bug to catch: any 401 ends the session. *)
LostByStatus(r) == r.at \in {"refused", "wrong"}

IsSessionLost(r) == r.at = "refused"

(* Nothing aborts a request whose answer the cache drops: it still reaches  *)
(* the API, and its cookies, if it brings any, the browser.  Two alike are  *)
(* one.                                                                     *)
Drop(dropped) ==
    LET kept == strays \cup {r \in dropped : r.at = "asked" \/ r.cookies # "keep"}
    IN strays' = IF Cardinality(kept) <= scene.strays THEN kept ELSE strays

(* invalidateQueries on /me drops the answer under way, unless it is the first. *)
DropMe ==
    Drop(IF ~HasData(me) THEN {}
         ELSE IF IsAsked(me)
         THEN {[at |-> "asked", by |-> me.wire[2][1],
                cookies |-> IF me.wire[2][2] THEN "keep" ELSE "flag"]}
         ELSE IF IsAnswered(me)
         THEN {[at |-> "answered", by |-> me.wire[2].by, cookies |-> me.wire[2].cookies]}
         ELSE {})

(* A bug to catch: a sign-in does not end an earlier deliberate sign-out. *)
RememberAlways(runs) == deliberate' = deliberate

(* The provider's effect, if it runs: an account on the screen ends what a  *)
(* deliberate sign-out began.                                               *)
Remember(runs) == deliberate' = (deliberate /\ ~(runs /\ SignedIn'))

(* It runs on another page, and links may also lead to the page they are on. *)
Moves == \E runs \in BOOLEAN : (path' # path => runs) /\ Remember(runs)

(* Rows of a session are cached here, or still to come. *)
RowsAwaited == req.what = "rows" /\ req.at \in {"asked", "served"} /\ req.by # 0
Left == rows # Nobody \/ RowsAwaited

(* What the ghosts make of an answer. *)
Recount == hops' = IF me'.data # me.data \/ cookies' # cookies THEN 0 ELSE hops
Mark ==
    abrupt' = IF (SignedIn /\ ~SignedIn') \/ (cookie # 0 /\ cookie' = 0 /\ Left) THEN "lost"
              ELSE IF cookie # 0 /\ cookie' # cookie /\ Left THEN "replaced"
              ELSE abrupt

Init ==
    /\ scene \in Scenes
    /\ \E a \in Returning : owner = <<a>>
    /\ live \in {{}, {1}} /\ verified = scene.verified
    /\ cookie \in {0, 1} /\ flag \in BOOLEAN
    /\ \E p \in InApp \cup {"signin"} :
        LET out == p \in InApp /\ scene.setup # "off" /\ ~(flag /\ scene.setup # "apart") IN
        path = (IF out THEN "signin" ELSE p) /\ bounced = out /\ read = ~out
    /\ me = Ask(Empty, Jar)
    /\ deliberate = FALSE /\ leaving = <<"no">> /\ login = <<"idle">>
    /\ req = NoReq /\ rows = Nobody /\ strays = {}
    /\ visits = 0 /\ followed = FALSE /\ hops = 0 /\ abrupt = "no"

-----------------------------------------------------------------------------
(* The visitor. *)

(* An address typed or reloaded: everything the tab held is gone, the       *)
(* requests it had under way too.                                           *)
Load(p) ==
    /\ visits < scene.visits /\ visits' = visits + 1
    /\ Gate(p, FlagSeen)
    /\ me' = Ask(Empty, Jar)
    /\ deliberate' = FALSE /\ leaving' = <<"no">> /\ login' = <<"idle">>
    /\ req' = NoReq /\ rows' = Nobody /\ strays' = {} /\ followed' = FALSE /\ hops' = 0
    /\ UNCHANGED <<scene, api, cookies, abrupt>>

(* A link inside the app, which leaves the page it was on in the history. *)
Follow ==
    /\ path \in InApp /\ Authenticated /\ Gate("app", FlagSeen)
    /\ followed' = TRUE /\ hops' = 0
    /\ UNCHANGED <<scene, api, cookies, me, leaving, login, page, strays, visits, abrupt>>
    /\ Moves

(* The Back button: the router shows the page it kept, the gate is not asked. *)
Back ==
    /\ path = "signin" /\ followed /\ visits < scene.visits
    /\ visits' = visits + 1
    /\ path' = "app" /\ bounced' = FALSE /\ read' = TRUE /\ login' = <<"idle">> /\ hops' = 0
    /\ UNCHANGED <<scene, api, cookies, me, leaving, page, strays, followed, abrupt>>
    /\ Moves

(* Focus, a minute passing, or "Try again". *)
Refetch ==
    /\ me.wire = Quiet /\ me' = Ask(me, Jar)
    /\ UNCHANGED <<scene, api, cookies, place, deliberate, leaving, login, page, strays, bounds,
                   hops, abrupt>>

SignOut ==
    /\ leaving = <<"no">> /\ (path \in InApp \/ Stuck)
    /\ deliberate' = TRUE /\ leaving' = <<"posted", cookie>> /\ hops' = 0
    /\ UNCHANGED <<scene, api, cookies, place, me, login, page, strays, bounds, abrupt>>

Submit(a) ==
    /\ path = "signin" /\ login[1] = "idle" /\ Len(owner) < scene.sessions
    /\ login' = <<"posted", a>> /\ hops' = 0
    /\ UNCHANGED <<scene, api, cookies, place, me, deliberate, leaving, page, strays, bounds,
                   abrupt>>

-----------------------------------------------------------------------------
(* The API. *)

AnswerMe ==
    /\ IsAsked(me)
    /\ LET jar == me.wire[2]
           s == jar[1]
           says == IF s \in live THEN <<owner[s], owner[s] \in verified>> ELSE Nobody
       IN \E how \in Truthful(jar) :
              me' = Serve(me, [says |-> says, cookies |-> how, by |-> s])
    /\ UNCHANGED <<scene, api, cookies, place, deliberate, leaving, login, page, strays, bounds,
                   hops, abrupt>>

(* Logging out needs no good session and always clears the cookies. *)
TakeSignOut ==
    /\ leaving[1] = "posted" /\ leaving' = <<"taken">>
    /\ live' = live \ {leaving[2]}
    /\ UNCHANGED <<scene, owner, verified, cookies, place, me, deliberate, login, page, strays,
                   bounds, hops, abrupt>>

TakeLogin ==
    /\ login[1] = "posted" /\ Len(owner) < scene.sessions
    /\ owner' = Append(owner, login[2])
    /\ live' = live \cup {Len(owner) + 1}
    /\ login' = <<"made", Len(owner) + 1>>
    /\ UNCHANGED <<scene, verified, cookies, place, me, deliberate, leaving, page, strays, bounds,
                   hops, abrupt>>

(* Expired, or ended from another browser. *)
EndSession(s) ==
    /\ s \in live /\ live' = live \ {s}
    /\ UNCHANGED <<scene, owner, verified, cookies, place, me, deliberate, leaving, login, page,
                   strays, bounds, hops, abrupt>>

TakeReq ==
    /\ req.at = "asked"
    /\ \E how \in Truthful(<<req.by, req.cookies = "keep">>) :
           req' = [req EXCEPT !.at = IF req.by \notin live THEN "refused"
                                     ELSE IF req.what = "password" THEN "wrong" ELSE "served",
                              !.cookies = how]
    /\ UNCHANGED <<scene, api, cookies, place, me, deliberate, leaving, login, rows, strays,
                   bounds, hops, abrupt>>

TakeStray(r) ==
    /\ r.at = "asked"
    /\ \E how \in Truthful(<<r.by, r.cookies = "keep">>) :
           strays' = (strays \ {r})
               \cup (IF how = "keep" THEN {} ELSE {[r EXCEPT !.at = "answered", !.cookies = how]})
    /\ UNCHANGED <<scene, api, cookies, place, me, deliberate, leaving, login, page, bounds, hops,
                   abrupt>>

-----------------------------------------------------------------------------
(* Answers arriving in the tab.  The browser takes an answer's cookies from *)
(* its head: a request may still fail with its body.                        *)

(* An account equal to the one on the screen is kept, and nothing renders;  *)
(* it may also differ in what is left out here.                             *)
MeArrives ==
    /\ IsAnswered(me)
    /\ me' = [Install(me) EXCEPT !.data = <<me.wire[2].says>>]
    /\ TakeCookies(me.wire[2].cookies, me.wire[2].by)
    /\ UNCHANGED <<scene, api, path, bounced, leaving, login, page, strays, bounds>>
    /\ \E news \in BOOLEAN :
           /\ me'.data # me.data => news
           /\ Remember(news)
           /\ IF news \/ me.failed THEN Renders ELSE UNCHANGED read
    /\ Recount /\ Mark

MeFails ==
    /\ me.wire # Quiet /\ me' = Fail(me)
    /\ \/ UNCHANGED cookies
       \/ IsAnswered(me) /\ TakeCookies(me.wire[2].cookies, me.wire[2].by)
    /\ UNCHANGED <<scene, api, path, bounced, deliberate, leaving, login, page, strays, bounds>>
    /\ Renders /\ Recount /\ Mark

(* A bug to catch: signing out keeps what the pages have cached. *)
ForgetAccountOnly == UNCHANGED <<req, rows, strays>>

(* removeQueries: a request under way has nowhere left to put its answer. *)
Forget ==
    /\ rows' = Nobody
    /\ IF req.what = "rows" /\ req.at # "none"
       THEN /\ req' = NoReq
            /\ Drop({[at |-> IF req.at = "asked" THEN "asked" ELSE "answered",
                      by |-> req.by, cookies |-> req.cookies]})
       ELSE UNCHANGED <<req, strays>>

SignOutReturns ==
    /\ leaving # <<"no">> /\ leaving' = <<"no">>
    /\ UNCHANGED cookies \/ (leaving = <<"taken">> /\ TakeCookies("clear", 0))
    /\ me' = SetData(me, Nobody)
    /\ Forget
    /\ path' = "signin" /\ bounced' = FALSE /\ read' = TRUE /\ abrupt' = "no"
    /\ hops' = 0
    /\ UNCHANGED <<scene, api, deliberate, login, bounds>>

LoginReturns ==
    /\ login[1] = "made" /\ TakeCookies("renew", login[2])
    /\ login' = <<"success">> /\ me' = Invalidate(me, <<login[2], TRUE>>) /\ DropMe
    /\ UNCHANGED <<scene, api, place, deliberate, leaving, page, bounds>>
    /\ Recount /\ Mark

LoginFails ==
    /\ login[1] \in {"posted", "made"} /\ login' = <<"idle">>
    /\ UNCHANGED cookies \/ (login[1] = "made" /\ TakeCookies("renew", login[2]))
    /\ UNCHANGED <<scene, api, place, me, deliberate, leaving, page, strays, bounds>>
    /\ Recount /\ Mark

(* A page shows rows, or changes the password, giving the old one wrong. *)
PageAsks(what) ==
    /\ path \in InApp /\ Authenticated /\ req.at = "none"
    /\ req' = [at |-> "asked", by |-> cookie, what |-> what,
               cookies |-> IF flag THEN "keep" ELSE "flag"]
    /\ UNCHANGED <<scene, api, cookies, place, me, deliberate, leaving, login, rows, strays,
                   bounds, hops, abrupt>>

ReqArrives ==
    /\ req.at \in {"served", "refused", "wrong"} /\ req' = NoReq
    /\ rows' = IF req.at = "served" THEN owner[req.by] ELSE rows
    /\ IF IsSessionLost(req) THEN me' = SetData(me, Nobody) ELSE UNCHANGED me
    /\ TakeCookies(req.cookies, req.by)
    /\ UNCHANGED <<scene, api, path, bounced, deliberate, leaving, login, strays, bounds>>
    /\ IF me' # me THEN Renders ELSE UNCHANGED read
    /\ Recount /\ Mark

ReqFails ==
    /\ req.at # "none" /\ req' = NoReq
    /\ UNCHANGED cookies \/ (req.at # "asked" /\ TakeCookies(req.cookies, req.by))
    /\ UNCHANGED <<scene, api, place, me, deliberate, leaving, login, rows, strays, bounds>>
    /\ Recount /\ Mark

(* Nobody waits for a stray, and it may be lost; its cookies are the        *)
(* browser's all the same.                                                  *)
StrayEnds(r) ==
    /\ strays' = strays \ {r}
    /\ UNCHANGED cookies \/ (r.at = "answered" /\ TakeCookies(r.cookies, r.by))
    /\ UNCHANGED <<scene, api, place, me, deliberate, leaving, login, page, bounds>>
    /\ Recount /\ Mark

(* The code from the e-mail, its request in one step: the account query *)
(* asks again.                                                          *)
VerifyCode ==
    /\ path = "verify" /\ Authenticated /\ cookie \in live
    /\ verified' = verified \cup {owner[cookie]}
    /\ \E how \in Truthful(Jar) : TakeCookies(how, cookie)
    /\ me' = Invalidate(me, <<cookie, TRUE>>) /\ DropMe
    /\ Gate("app", scene.setup # "apart") /\ hops' = 0
    /\ UNCHANGED <<scene, owner, live, leaving, login, page, bounds, abrupt>>
    /\ Moves

-----------------------------------------------------------------------------
(* Effects: what the components do on their own. *)

SendToSignIn ==
    /\ me.data = <<Nobody>> /\ ~deliberate /\ path \in InApp
    /\ path' = "signin" /\ bounced' = FALSE /\ read' = TRUE /\ hops' = hops + 1
    /\ UNCHANGED <<scene, api, cookies, me, deliberate, leaving, login, page, strays, bounds,
                   abrupt>>

SendOn ==
    /\ path = "signin" /\ Authenticated /\ ~Stuck
    /\ Gate(IF me.data[1][2] THEN "app" ELSE "verify", FlagSeen)
    /\ login' = IF path' = "signin" THEN login ELSE <<"idle">>
    /\ hops' = hops + 1
    /\ UNCHANGED <<scene, api, cookies, me, leaving, page, strays, bounds, abrupt>>
    /\ Moves

LeaveVerify ==
    /\ path = "verify" /\ Authenticated /\ me.data[1][2]
    /\ Gate("app", FlagSeen) /\ hops' = hops + 1
    /\ UNCHANGED <<scene, api, cookies, me, leaving, login, page, strays, bounds, abrupt>>
    /\ Moves

Effects == SendToSignIn \/ SendOn \/ LeaveVerify

Visitor ==
    \/ \E p \in InApp \cup {"signin"} : Load(p)
    \/ Follow \/ Back \/ Refetch \/ SignOut
    \/ \E a \in Account : Submit(a)
    \/ \E what \in scene.asks : PageAsks(what)
    \/ VerifyCode
Api ==
    \/ AnswerMe \/ TakeSignOut \/ TakeLogin \/ TakeReq
    \/ \E s \in live : EndSession(s)
    \/ \E r \in strays : TakeStray(r)
Arrivals ==
    \/ MeArrives \/ MeFails \/ SignOutReturns \/ LoginReturns \/ LoginFails
    \/ ReqArrives \/ ReqFails
    \/ \E r \in strays : StrayEnds(r)

Next == Visitor \/ Api \/ Arrivals \/ Effects

(* Effects run, answers of the API arrive, and every request ends.  What    *)
(* the visitor does, and whether a request succeeds, is left open.          *)
Fairness ==
    /\ WF_vars(SendToSignIn) /\ WF_vars(SendOn) /\ WF_vars(LeaveVerify)
    /\ WF_vars(AnswerMe) /\ WF_vars(MeArrives) /\ WF_vars(TakeReq) /\ WF_vars(ReqArrives)
    /\ WF_vars(SignOutReturns) /\ WF_vars(LoginReturns)

Spec == Init /\ [][Next]_vars
FairSpec == Spec /\ Fairness

-----------------------------------------------------------------------------
(* The gate and the redirects never send a visitor round and round: after   *)
(* anything the visitor does, and after each answer that changes the        *)
(* account shown or the browser's cookies, at most one redirect follows.    *)
(* (A flag that is put back, or taken, between two redirects counts anew:   *)
(* answers put it back as often as requests leave without it.)              *)
RedirectsEnd == hops <= 1

(* A visitor the gate bounced by mistake is sent on once the API has said   *)
(* who it is ("a stale bounce corrects itself"), unless it says nobody,     *)
(* cannot be reached, or the flag is not there to be seen then.             *)
(* A tab that learns its session is gone ends up on the sign-in page, also   *)
(* when an earlier session here was signed out on purpose.                  *)
SentWhereTheyBelong ==
    /\ (bounced /\ ~HasData(me))
        ~> (~bounced \/ me.failed \/ me.data = <<Nobody>> \/ (Authenticated /\ ~FlagSeen))
    /\ (path \in InApp /\ me.data = <<Nobody>> /\ abrupt = "lost")
        ~> (path = "signin" \/ me.data # <<Nobody>>)

(* After a sign-out nothing the pages have cached belongs to another account *)
(* than the session that is there now, whichever answers were still on their *)
(* way.  Only a session that ended abruptly, or whose cookie was replaced    *)
(* while its rows were here, leaves rows.                                    *)
OwnRowsOnly == (rows # Nobody /\ cookie # 0) => (rows = owner[cookie] \/ abrupt # "no")

(* The tab stops showing an account only when the visitor signs out or      *)
(* when the session a request carried is over: never for a wrong password.  *)
NoFalseSignOut ==
    [][(SignedIn /\ me'.data = <<Nobody>>) =>
        \/ leaving # <<"no">>
        \/ IsAnswered(me)
        \/ req.by \notin live]_vars

(* What app-shell.tsx says of a visitor with no session: the provider sends *)
(* them to sign-in.                                                         *)
NobodyIsSentToSignIn ==
    (path = "app" /\ me.data = <<Nobody>>) ~> (path = "signin" \/ me.data # <<Nobody>>)

=============================================================================
