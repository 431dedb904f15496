----------------------- MODULE DashboardSessionProofs -----------------------
(***************************************************************************)
(* What holds of a tab of the dashboard, for any accounts, however many    *)
(* sessions the API makes and however often pages are loaded.              *)
(***************************************************************************)
EXTENDS DashboardSession, TLAPS

-----------------------------------------------------------------------------
(* A request is refused only for a session that is over for good, and rows  *)
(* are served only to a request that carried one.                           *)
AnswersInv ==
    /\ req.at = "refused" => req.by \notin live
    /\ req.at = "served" => req.by # 0 /\ req.what = "rows"

(* Unless a session was lost or replaced, rows are those of the session     *)
(* whose cookie is there, and so are the rows still to come.                *)
RowsInv ==
    abrupt = "no" =>
       /\ rows # Nobody => cookie # 0 /\ rows = owner[cookie]
       /\ RowsAwaited => req.by = cookie

(* No page a redirect leads to redirects again: not the sign-in page for a  *)
(* visitor nobody knows, not a page of the app for one it knows, and not    *)
(* the sign-in page the gate bounces to, which read that there is no flag.  *)
RedirectInv ==
    /\ hops <= 1
    /\ me.data = <<Nobody>> /\ path \in InApp => hops = 0
    /\ SignedIn /\ path = "verify" /\ me.data[1][2] => hops = 0
    /\ SignedIn /\ path = "signin" => hops = 0 \/ (bounced /\ ~FlagSeen /\ ~read)

Inv == TypeOK /\ AnswersInv /\ RowsInv /\ RedirectInv

-----------------------------------------------------------------------------
(* The account query, and the form, keep their types, also when the API     *)
(* has made more sessions.                                                  *)

(* The parts of what is looked at together. *)
LEMMA SceneParts ==
    ASSUME NEW x \in Scenes
    PROVE  /\ x.verified \subseteq Account /\ x.asks \subseteq {"rows", "password"}
           /\ x.sessions \in Nat \ {0} /\ x.visits \in Nat
BY VisitorAssumption DEF Scene

(* A state of the query has its three parts. *)
LEMMA MeParts ==
    ASSUME NEW n \in Nat, NEW q \in MeStates(n)
    PROVE  /\ q.data \in Datas /\ q.wire \in Wires(n) /\ q.failed \in BOOLEAN
           /\ q = [data |-> q.data, wire |-> q.wire, failed |-> q.failed]
BY DEF MeStates

(* What is asked carries a jar, what is answered an answer. *)
LEMMA WireParts ==
    ASSUME NEW n \in Nat, NEW w \in Wires(n)
    PROVE  /\ w[1] = "asked" => w[2] \in Jars(n) /\ w = <<"asked", w[2]>>
           /\ w[1] = "answered" => w[2] \in Answers(n) /\ w = <<"answered", w[2]>>
           /\ w[1] = "quiet" => w = Quiet
           /\ w[1] \in {"quiet", "asked", "answered"}
<1>1. CASE w = Quiet
    BY <1>1 DEF Quiet
<1>2. CASE \E jar \in Jars(n) : w = <<"asked", jar>>
    BY <1>2
<1>3. CASE \E x \in Answers(n) : w = <<"answered", x>>
    BY <1>3
<1> QED
    BY <1>1, <1>2, <1>3 DEF Wires

(* An empty query is one. *)
LEMMA EmptyType ==
    ASSUME NEW n \in Nat
    PROVE  Empty \in MeStates(n)
BY DEF Empty, MeStates, Datas, Wires

(* Asking. *)
LEMMA AskType ==
    ASSUME NEW n \in Nat, NEW q \in MeStates(n), NEW jar \in Jars(n)
    PROVE  /\ Ask(q, jar) \in MeStates(n)
           /\ Ask(q, jar).data = q.data /\ Ask(q, jar).failed = q.failed
           /\ Ask(q, jar).wire = IF q.wire = Quiet THEN <<"asked", jar>> ELSE q.wire
BY MeParts DEF Ask, MeStates, Wires

(* Asking again. *)
LEMMA InvalidateType ==
    ASSUME NEW n \in Nat, NEW q \in MeStates(n), NEW jar \in Jars(n)
    PROVE  /\ Invalidate(q, jar) \in MeStates(n)
           /\ Invalidate(q, jar).data = q.data /\ Invalidate(q, jar).failed = q.failed
           /\ Invalidate(q, jar).wire \in {q.wire, <<"asked", jar>>}
           /\ q.data # <<>> => Invalidate(q, jar).wire = <<"asked", jar>>
BY MeParts, AskType DEF Invalidate, HasData, MeStates, Wires

(* The API's answer. *)
LEMMA ServeType ==
    ASSUME NEW n \in Nat, NEW q \in MeStates(n), NEW x \in Answers(n)
    PROVE  /\ Serve(q, x) \in MeStates(n)
           /\ Serve(q, x).data = q.data /\ Serve(q, x).failed = q.failed
           /\ Serve(q, x).wire = <<"answered", x>>
BY MeParts DEF Serve, MeStates, Wires

(* No answer. *)
LEMMA FailType ==
    ASSUME NEW n \in Nat, NEW q \in MeStates(n)
    PROVE  Fail(q) \in MeStates(n) /\ Fail(q).data = q.data /\ Fail(q).wire = Quiet
BY MeParts DEF Fail, MeStates, Wires

(* Telling the query that nobody is signed in. *)
LEMMA SetType ==
    ASSUME NEW n \in Nat, NEW q \in MeStates(n)
    PROVE  /\ SetData(q, Nobody) \in MeStates(n)
           /\ SetData(q, Nobody).data = <<Nobody>> /\ SetData(q, Nobody).wire = q.wire
BY MeParts DEF SetData, MeStates, Datas, Said

(* The answer arriving. *)
LEMMA InstallType ==
    ASSUME NEW n \in Nat, NEW q \in MeStates(n), NEW says \in Said
    PROVE  LET r == [Install(q) EXCEPT !.data = <<says>>]
           IN  /\ r \in MeStates(n)
               /\ r.data = <<says>> /\ r.wire = Quiet /\ r.failed = FALSE
BY DEF Install, MeStates, Datas, Wires

(* More sessions, more of everything. *)
LEMMA TypesGrow ==
    ASSUME NEW n \in Nat
    PROVE  /\ MeStates(n) \subseteq MeStates(n + 1)
           /\ LeavingStates(n) \subseteq LeavingStates(n + 1)
           /\ Reqs(n) \subseteq Reqs(n + 1)
           /\ Strays(n) \subseteq Strays(n + 1)
<1>1. 0 .. n \subseteq 0 .. (n + 1)
    OBVIOUS
<1>2. Jars(n) \subseteq Jars(n + 1) /\ Answers(n) \subseteq Answers(n + 1)
    BY <1>1 DEF Jars, Answers
<1>3. Wires(n) \subseteq Wires(n + 1)
    BY <1>2 DEF Wires
<1>4. MeStates(n) \subseteq MeStates(n + 1)
    BY <1>3 DEF MeStates
<1>5. LeavingStates(n) \subseteq LeavingStates(n + 1)
    BY <1>1 DEF LeavingStates
<1>6. Reqs(n) \subseteq Reqs(n + 1) /\ Strays(n) \subseteq Strays(n + 1)
    BY <1>1 DEF Reqs, Strays
<1> QED
    BY <1>4, <1>5, <1>6

(* What a typed form says. *)
LEMMA LoginParts ==
    ASSUME NEW n \in Nat, NEW l \in LoginStates(n)
    PROVE  /\ l[1] \in {"idle", "posted", "made", "success"}
           /\ l[1] = "posted" => l[2] \in Account
           /\ l[1] = "made" => l[2] \in 1 .. n
<1>1. CASE l \in {<<"idle">>, <<"success">>}
    BY <1>1
<1>2. CASE \E a \in Account : l = <<"posted", a>>
    BY <1>2
<1>3. CASE \E s \in 1 .. n : l = <<"made", s>>
    BY <1>3
<1> QED
    BY <1>1, <1>2, <1>3 DEF LoginStates

-----------------------------------------------------------------------------
(* Type correctness. *)

(* What a typed state has. *)
LEMMA TypedState ==
    ASSUME TypeOK
    PROVE  /\ Len(owner) \in Nat /\ owner \in Seq(Account)
           /\ Jar \in Jars(Len(owner))
           /\ \A s \in 1 .. Len(owner) : owner[s] \in Account /\ <<s, TRUE>> \in Jars(Len(owner))
           /\ me \in MeStates(Len(owner))
           /\ cookie \in 0 .. Len(owner) /\ flag \in BOOLEAN
           /\ live \subseteq 1 .. Len(owner)
<1>1. Len(owner) \in Nat /\ owner \in Seq(Account) /\ me \in MeStates(Len(owner))
    BY DEF TypeOK
<1>2. cookie \in 0 .. Len(owner) /\ flag \in BOOLEAN /\ live \subseteq 1 .. Len(owner)
    BY DEF TypeOK
<1>3. Jar \in Jars(Len(owner))
    BY <1>2 DEF Jar, Jars
<1>4. \A s \in 1 .. Len(owner) : owner[s] \in Account
    BY <1>1
<1>5. \A s \in 1 .. Len(owner) : <<s, TRUE>> \in Jars(Len(owner))
    <2> TAKE s \in 1 .. Len(owner)
    <2>1. s \in 0 .. Len(owner)
        BY <1>1
    <2>2. TRUE \in BOOLEAN
        OBVIOUS
    <2> QED
        BY <2>1, <2>2, Zenon DEF Jars
<1> QED
    BY <1>1, <1>2, <1>3, <1>4, <1>5

(* What becomes of the cookies. *)
LEMMA CookieTypes ==
    ASSUME TypeOK, NEW how \in Cookies, NEW s \in 0 .. Len(owner), TakeCookies(how, s)
    PROVE  cookie' \in 0 .. Len(owner) /\ flag' \in BOOLEAN
<1>1. cookie' \in {0, s, cookie}
    BY DEF TakeCookies, Cookies
<1>2. cookie' \in 0 .. Len(owner)
    BY <1>1, TypedState
<1>3. CASE how = "keep"
    BY <1>3, <1>2, TypedState DEF TakeCookies
<1>4. CASE how # "keep"
    <2>1. flag' = (how # "clear")
        BY <1>4 DEF TakeCookies
    <2>2. flag' \in BOOLEAN
        BY <2>1, Zenon
    <2> QED
        BY <1>2, <2>2
<1> QED
    BY <1>3, <1>4

(* What the API says of them. *)
LEMMA TruthfulType ==
    ASSUME NEW jar
    PROVE  Truthful(jar) \subseteq Cookies
BY DEF Truthful, Cookies

(* Where the gate lets a request out. *)
LEMMA GateType ==
    ASSUME NEW p \in InApp \cup {"signin"}, NEW seen \in BOOLEAN, Gate(p, seen)
    PROVE  /\ path' \in InApp \cup {"signin"} /\ bounced' \in BOOLEAN
           /\ bounced' => path' = "signin"
           /\ read' \in BOOLEAN /\ (~bounced' => read')
<1>1. bounced' \in BOOLEAN
    BY Zenon DEF Gate
<1>2. read' \in BOOLEAN
    BY Zenon DEF Gate
<1> QED
    BY <1>1, <1>2 DEF Gate

(* A page that renders. *)
LEMMA RendersType ==
    ASSUME Renders
    PROVE  read' \in BOOLEAN /\ (~bounced' => read')
<1>1. read' \in BOOLEAN
    BY Zenon DEF Renders
<1> QED
    BY <1>1 DEF Renders

(* The ref. *)
LEMMA RememberType ==
    ASSUME NEW runs \in BOOLEAN, Remember(runs)
    PROVE  deliberate' \in BOOLEAN
BY Zenon DEF Remember

(* The ref, on another page. *)
LEMMA MovesType ==
    ASSUME Moves
    PROVE  deliberate' \in BOOLEAN
BY RememberType DEF Moves

(* The ghosts. *)
LEMMA GhostTypes ==
    ASSUME TypeOK, Recount, Mark
    PROVE  hops' \in {0, hops} /\ abrupt' \in {"no", "lost", "replaced"}
BY DEF Recount, Mark, TypeOK

(* Requests the cache has dropped. *)
LEMMA DropType ==
    ASSUME TypeOK, NEW dropped, dropped \subseteq Strays(Len(owner)), Drop(dropped)
    PROVE  strays' \subseteq Strays(Len(owner))
BY DEF Drop, TypeOK

(* A dropped request for the account. *)
LEMMA DropMeType ==
    ASSUME TypeOK, DropMe
    PROVE  strays' \subseteq Strays(Len(owner))
<1>0. Len(owner) \in Nat /\ me \in MeStates(Len(owner)) /\ me.wire \in Wires(Len(owner))
    BY TypedState, MeParts
<1>1. CASE ~HasData(me)
    <2>1. Drop({})
        BY <1>1 DEF DropMe
    <2> QED
        BY <2>1, DropType
<1>2. CASE HasData(me) /\ IsAsked(me)
    <2> DEFINE r == [at |-> "asked", by |-> me.wire[2][1],
                     cookies |-> IF me.wire[2][2] THEN "keep" ELSE "flag"]
    <2>1. me.wire[2] \in Jars(Len(owner))
        BY <1>0, <1>2, WireParts DEF IsAsked
    <2>2. r \in Strays(Len(owner))
        BY <2>1 DEF Jars, Strays, Cookies
    <2>3. Drop({r})
        BY <1>2 DEF DropMe
    <2> HIDE DEF r
    <2>4. {r} \subseteq Strays(Len(owner))
        BY <2>2
    <2> QED
        BY <2>3, <2>4, DropType
<1>3. CASE HasData(me) /\ ~IsAsked(me) /\ IsAnswered(me)
    <2> DEFINE r == [at |-> "answered", by |-> me.wire[2].by, cookies |-> me.wire[2].cookies]
    <2>1. me.wire[2] \in Answers(Len(owner))
        BY <1>0, <1>3, WireParts DEF IsAnswered
    <2>2. r \in Strays(Len(owner))
        BY <2>1 DEF Answers, Strays
    <2>3. Drop({r})
        BY <1>3 DEF DropMe
    <2> HIDE DEF r
    <2>4. {r} \subseteq Strays(Len(owner))
        BY <2>2
    <2> QED
        BY <2>3, <2>4, DropType
<1>4. CASE HasData(me) /\ ~IsAsked(me) /\ ~IsAnswered(me)
    <2>1. Drop({})
        BY <1>4 DEF DropMe
    <2> QED
        BY <2>1, DropType
<1> QED
    BY <1>1, <1>2, <1>3, <1>4

(* Forgetting the pages' rows. *)
LEMMA ForgetType ==
    ASSUME TypeOK, Forget
    PROVE  /\ rows' \in {Nobody} \cup Account
           /\ req' \in Reqs(Len(owner)) /\ strays' \subseteq Strays(Len(owner))
<1>1. CASE req.what = "rows" /\ req.at # "none"
    <2> DEFINE r == [at |-> IF req.at = "asked" THEN "asked" ELSE "answered",
                     by |-> req.by, cookies |-> req.cookies]
    <2>1. r \in Strays(Len(owner))
        BY DEF TypeOK, Reqs, Strays
    <2>2. req' = NoReq /\ Drop({r})
        BY <1>1 DEF Forget
    <2> HIDE DEF r
    <2>3. {r} \subseteq Strays(Len(owner))
        BY <2>1
    <2>4. strays' \subseteq Strays(Len(owner))
        BY <2>2, <2>3, DropType
    <2>5. NoReq \in Reqs(Len(owner))
        BY TypedState DEF NoReq, Reqs, Cookies
    <2> QED
        BY <2>2, <2>4, <2>5 DEF Forget
<1>2. CASE ~(req.what = "rows" /\ req.at # "none")
    BY <1>2 DEF Forget, TypeOK
<1> QED
    BY <1>1, <1>2

(* Whether the flag is seen. *)
LEMMA FlagSeenType == ASSUME TypeOK PROVE FlagSeen \in BOOLEAN
BY DEF TypeOK, FlagSeen

(* The first page. *)
LEMMA TypeInit == Init => TypeOK
<1> SUFFICES ASSUME Init PROVE TypeOK
    OBVIOUS
<1>1. PICK a \in Returning : owner = <<a>>
    BY DEF Init
<1>2. owner \in Seq(Account) /\ Len(owner) = 1 /\ Len(owner) <= scene.sessions
    <2>1. scene.sessions \in Nat \ {0}
        BY SceneParts DEF Init
    <2> QED
        BY <1>1, <2>1, VisitorAssumption
<1>3. me \in MeStates(1)
    <2>1. Jar \in Jars(1)
        BY DEF Jar, Jars, Init
    <2> QED
        BY <2>1, EmptyType, AskType DEF Init
<1>4. login \in LoginStates(1) /\ leaving \in LeavingStates(1)
    BY DEF Init, LoginStates, LeavingStates
<1>5. PICK p \in InApp \cup {"signin"} :
          LET out == p \in InApp /\ scene.setup # "off" /\ ~(flag /\ scene.setup # "apart") IN
          path = (IF out THEN "signin" ELSE p) /\ bounced = out /\ read = ~out
    BY DEF Init
<1>6. bounced \in BOOLEAN /\ read \in BOOLEAN
    BY <1>5, Zenon
<1>7. path \in InApp \cup {"signin"} /\ (bounced => path = "signin") /\ (~bounced => read)
    BY <1>5
<1>8. req \in Reqs(1) /\ strays \subseteq Strays(1)
    BY DEF Init, NoReq, Reqs, Cookies
<1>9. live \subseteq 1 .. 1 /\ verified \subseteq Account /\ cookie \in 0 .. 1
    BY SceneParts DEF Init
<1>10. /\ scene \in Scenes /\ flag \in BOOLEAN /\ deliberate \in BOOLEAN
       /\ rows \in {Nobody} \cup Account
       /\ visits \in 0 .. scene.visits /\ followed \in BOOLEAN
       /\ hops \in Nat /\ abrupt \in {"no", "lost", "replaced"}
    <2>1. visits \in 0 .. scene.visits
        BY SceneParts DEF Init
    <2>2. flag \in BOOLEAN
        BY DEF Init
    <2> QED
        BY <2>1, <2>2, VisitorAssumption DEF Init
<1> QED
    BY <1>2, <1>3, <1>4, <1>6, <1>7, <1>8, <1>9, <1>10 DEF TypeOK

(* A step that makes no session leaves the types alone if it leaves those   *)
(* of the query, the form, the requests, the cookies and the page alone.    *)
LEMMA TypeKept ==
    ASSUME TypeOK, UNCHANGED <<scene, owner>>,
           live' \subseteq live, verified' \subseteq Account,
           cookie' \in 0 .. Len(owner), flag' \in BOOLEAN,
           path' \in InApp \cup {"signin"}, bounced' \in BOOLEAN, bounced' => path' = "signin",
           read' \in BOOLEAN, ~bounced' => read',
           me' \in MeStates(Len(owner)), deliberate' \in BOOLEAN,
           leaving' \in LeavingStates(Len(owner)), login' \in LoginStates(Len(owner)),
           req' \in Reqs(Len(owner)), rows' \in {Nobody} \cup Account,
           strays' \subseteq Strays(Len(owner)), visits' \in 0 .. scene.visits,
           followed' \in BOOLEAN,
           hops' \in {0, hops, hops + 1}, abrupt' \in {"no", "lost", "replaced"}
    PROVE  TypeOK'
BY DEF TypeOK

(* The visitor. *)
LEMMA TypeVisitor == TypeOK /\ Visitor => TypeOK'
<1> SUFFICES ASSUME TypeOK, Visitor PROVE TypeOK'
    OBVIOUS
<1> USE DEF vars, api, cookies, place, page, bounds
<1> HIDE DEF TypeOK
<1>0. /\ Len(owner) \in Nat /\ Jar \in Jars(Len(owner)) /\ me \in MeStates(Len(owner))
      /\ cookie \in 0 .. Len(owner) /\ FlagSeen \in BOOLEAN
    BY TypedState, FlagSeenType
<1>f. /\ <<"idle">> \in LoginStates(Len(owner)) /\ NoReq \in Reqs(Len(owner))
      /\ <<"no">> \in LeavingStates(Len(owner))
      /\ <<"posted", cookie>> \in LeavingStates(Len(owner))
    BY <1>0 DEF LoginStates, LeavingStates, NoReq, Reqs, Cookies
<1>1. ASSUME NEW p \in InApp \cup {"signin"}, Load(p) PROVE TypeOK'
    <2>1. me' \in MeStates(Len(owner))
        BY <1>0, <1>1, EmptyType, AskType DEF Load
    <2>2. /\ path' \in InApp \cup {"signin"} /\ bounced' \in BOOLEAN
          /\ (bounced' => path' = "signin") /\ read' \in BOOLEAN /\ (~bounced' => read')
        BY <1>0, <1>1, GateType DEF Load
    <2>3. visits' \in 0 .. scene.visits
        BY <1>1, SceneParts DEF Load, TypeOK
    <2> QED
        BY <1>0, <1>1, <1>f, <2>1, <2>2, <2>3, TypeKept DEF Load, TypeOK
<1>2. ASSUME Follow PROVE TypeOK'
    <2>1. /\ path' \in InApp \cup {"signin"} /\ bounced' \in BOOLEAN
          /\ (bounced' => path' = "signin") /\ read' \in BOOLEAN /\ (~bounced' => read')
        BY <1>0, <1>2, GateType DEF Follow, InApp
    <2>2. deliberate' \in BOOLEAN
        BY <1>2, MovesType DEF Follow
    <2> QED
        BY <1>2, <2>1, <2>2, TypeKept DEF Follow, TypeOK
<1>3. ASSUME Back PROVE TypeOK'
    <2>1. visits' \in 0 .. scene.visits
        BY <1>3, SceneParts DEF Back, TypeOK
    <2>2. deliberate' \in BOOLEAN
        BY <1>3, MovesType DEF Back
    <2> QED
        BY <1>3, <1>f, <2>1, <2>2, TypeKept DEF Back, TypeOK, InApp
<1>4. ASSUME Refetch PROVE TypeOK'
    <2>1. me' \in MeStates(Len(owner))
        BY <1>0, <1>4, AskType DEF Refetch
    <2> QED
        BY <1>4, <2>1, TypeKept DEF Refetch, TypeOK
<1>5. ASSUME SignOut PROVE TypeOK'
    BY <1>5, <1>f, TypeKept DEF SignOut, TypeOK
<1>6. ASSUME NEW a \in Account, Submit(a) PROVE TypeOK'
    <2>1. login' \in LoginStates(Len(owner))
        BY <1>6 DEF Submit, LoginStates
    <2> QED
        BY <1>6, <2>1, TypeKept DEF Submit, TypeOK
<1>7. ASSUME NEW what \in scene.asks, PageAsks(what) PROVE TypeOK'
    <2>1. what \in {"rows", "password"}
        BY <1>7, SceneParts DEF TypeOK
    <2>2. req' \in Reqs(Len(owner))
        BY <1>0, <1>7, <2>1 DEF PageAsks, Reqs, Cookies
    <2> QED
        BY <1>7, <2>2, TypeKept DEF PageAsks, TypeOK
<1>8. ASSUME VerifyCode PROVE TypeOK'
    <2>0. cookie \in 1 .. Len(owner)
        BY <1>8, TypedState DEF VerifyCode
    <2>1. me' \in MeStates(Len(owner))
        BY <1>0, <1>8, <2>0, TypedState, InvalidateType DEF VerifyCode
    <2>2. /\ path' \in InApp \cup {"signin"} /\ bounced' \in BOOLEAN
          /\ (bounced' => path' = "signin") /\ read' \in BOOLEAN /\ (~bounced' => read')
        BY <1>8, GateType DEF VerifyCode, InApp
    <2>3. cookie' \in 0 .. Len(owner) /\ flag' \in BOOLEAN
        BY <1>0, <1>8, TruthfulType, CookieTypes DEF VerifyCode
    <2>4. verified' \subseteq Account
        BY <1>8, <2>0, TypedState DEF VerifyCode, TypeOK
    <2>5. deliberate' \in BOOLEAN /\ strays' \subseteq Strays(Len(owner))
        BY <1>8, MovesType, DropMeType DEF VerifyCode
    <2> QED
        BY <1>8, <2>1, <2>2, <2>3, <2>4, <2>5, TypeKept DEF VerifyCode, TypeOK
<1> QED
    BY <1>1, <1>2, <1>3, <1>4, <1>5, <1>6, <1>7, <1>8 DEF Visitor

(* What the API answers to /me. *)
LEMMA AnswerMeType ==
    ASSUME TypeOK, AnswerMe
    PROVE  me' \in MeStates(Len(owner)) /\ me'.data = me.data
<1> DEFINE s == me.wire[2][1]
           says == IF s \in live THEN <<owner[s], owner[s] \in verified>> ELSE Nobody
<1>0. Len(owner) \in Nat /\ me \in MeStates(Len(owner)) /\ me.wire \in Wires(Len(owner))
    BY TypedState, MeParts
<1>1. s \in 0 .. Len(owner)
    BY <1>0, WireParts DEF AnswerMe, IsAsked, Jars
<1>2. says \in Said
    <2>1. CASE s \in live
        <3>1. owner[s] \in Account
            BY <2>1, TypedState
        <3>2. (owner[s] \in verified) \in BOOLEAN
            OBVIOUS
        <3>3. <<owner[s], owner[s] \in verified>> \in Account \X BOOLEAN
            BY <3>1, <3>2, Zenon
        <3> QED
            BY <2>1, <3>3, Zenon DEF Said
    <2>2. CASE s \notin live
        BY <2>2 DEF Said
    <2> QED
        BY <2>1, <2>2
<1>3. PICK how \in Truthful(me.wire[2]) :
          me' = Serve(me, [says |-> says, cookies |-> how, by |-> s])
    BY DEF AnswerMe
<1> HIDE DEF says, s
<1>4. [says |-> says, cookies |-> how, by |-> s] \in Answers(Len(owner))
    BY <1>1, <1>2, TruthfulType DEF Answers
<1> QED
    BY <1>0, <1>3, <1>4, ServeType

(* What becomes of a page's request. *)
LEMMA TakeReqParts ==
    ASSUME TypeOK, TakeReq
    PROVE  /\ req' \in Reqs(Len(owner)) /\ req'.by = req.by /\ req'.what = req.what
           /\ req'.at = IF req.by \notin live THEN "refused"
                        ELSE IF req.what = "password" THEN "wrong" ELSE "served"
<1> DEFINE at == IF req.by \notin live THEN "refused"
                 ELSE IF req.what = "password" THEN "wrong" ELSE "served"
<1>1. PICK how \in Truthful(<<req.by, req.cookies = "keep">>) :
          req' = [req EXCEPT !.at = at, !.cookies = how]
    BY DEF TakeReq
<1>2. how \in Cookies /\ at \in {"refused", "wrong", "served"} /\ req \in Reqs(Len(owner))
    BY TruthfulType DEF TypeOK
<1> HIDE DEF at
<1>3. /\ req' \in Reqs(Len(owner)) /\ req'.by = req.by /\ req'.what = req.what
      /\ req'.at = at
    BY <1>1, <1>2 DEF Reqs
<1> QED
    BY <1>3 DEF at

(* The API. *)
LEMMA TypeApi == TypeOK /\ Api => TypeOK'
<1> SUFFICES ASSUME TypeOK, Api PROVE TypeOK'
    OBVIOUS
<1> USE DEF vars, api, cookies, place, page, bounds
<1>0. /\ Len(owner) \in Nat /\ me \in MeStates(Len(owner))
    BY TypedState
<1>1. ASSUME AnswerMe PROVE TypeOK'
    <2>1. me' \in MeStates(Len(owner))
        BY <1>1, AnswerMeType
    <2> QED
        BY <1>1, <2>1, TypeKept DEF AnswerMe, TypeOK
<1>2. ASSUME TakeSignOut PROVE TypeOK'
    BY <1>2, TypeKept DEF TakeSignOut, LeavingStates, TypeOK
<1>3. ASSUME TakeLogin PROVE TypeOK'
    <2>1. login[2] \in Account
        BY <1>0, <1>3, LoginParts DEF TakeLogin, TypeOK
    <2>2. owner' \in Seq(Account) /\ Len(owner') = Len(owner) + 1
        BY <1>3, <2>1 DEF TakeLogin, TypeOK
    <2>3. /\ me' \in MeStates(Len(owner')) /\ leaving' \in LeavingStates(Len(owner'))
          /\ req' \in Reqs(Len(owner')) /\ strays' \subseteq Strays(Len(owner'))
        BY <1>0, <1>3, <2>2, TypesGrow DEF TakeLogin, TypeOK
    <2>4. login' \in LoginStates(Len(owner'))
        BY <1>0, <1>3, <2>2 DEF TakeLogin, LoginStates
    <2>5. live' \subseteq 1 .. Len(owner') /\ cookie' \in 0 .. Len(owner')
        BY <1>0, <1>3, <2>2, TypedState DEF TakeLogin
    <2>6. Len(owner') <= scene.sessions
        BY <1>0, <1>3, <2>2, SceneParts DEF TakeLogin, TypeOK
    <2> QED
        BY <1>3, <2>2, <2>3, <2>4, <2>5, <2>6 DEF TakeLogin, TypeOK
<1>4. ASSUME NEW s \in live, EndSession(s) PROVE TypeOK'
    BY <1>4, TypeKept DEF EndSession, TypeOK
<1>5. ASSUME TakeReq PROVE TypeOK'
    <2>1. req' \in Reqs(Len(owner))
        BY <1>5, TakeReqParts
    <2> QED
        BY <1>5, <2>1, TypeKept DEF TakeReq, TypeOK
<1>6. ASSUME NEW r \in strays, TakeStray(r) PROVE TypeOK'
    <2>1. strays' \subseteq Strays(Len(owner))
        <3>1. PICK how \in Truthful(<<r.by, r.cookies = "keep">>) :
                  strays' = (strays \ {r})
                      \cup (IF how = "keep" THEN {}
                            ELSE {[r EXCEPT !.at = "answered", !.cookies = how]})
            BY <1>6 DEF TakeStray
        <3>2. r \in Strays(Len(owner)) /\ how \in Cookies
            BY TruthfulType DEF TypeOK
        <3>3. [r EXCEPT !.at = "answered", !.cookies = how] \in Strays(Len(owner))
            BY <3>2 DEF Strays
        <3> QED
            BY <3>1, <3>3 DEF TypeOK
    <2> QED
        BY <1>6, <2>1, TypeKept DEF TakeStray, TypeOK
<1> QED
    BY <1>1, <1>2, <1>3, <1>4, <1>5, <1>6 DEF Api

(* An answer to /me, or a page's, has cookies for the browser to take. *)
LEMMA AnsweredCookies ==
    ASSUME TypeOK
    PROVE  /\ IsAnswered(me) => /\ me.wire[2].says \in Said
                                /\ me.wire[2].cookies \in Cookies
                                /\ me.wire[2].by \in 0 .. Len(owner)
           /\ req.cookies \in Cookies /\ req.by \in 0 .. Len(owner)
           /\ \A r \in strays : r.cookies \in Cookies /\ r.by \in 0 .. Len(owner)
<1>1. IsAnswered(me) => me.wire[2] \in Answers(Len(owner))
    BY TypedState, MeParts, WireParts DEF IsAnswered
<1>2. IsAnswered(me) => /\ me.wire[2].says \in Said
                        /\ me.wire[2].cookies \in Cookies
                        /\ me.wire[2].by \in 0 .. Len(owner)
    BY <1>1 DEF Answers
<1>3. req.cookies \in Cookies /\ req.by \in 0 .. Len(owner)
    BY DEF TypeOK, Reqs
<1>4. \A r \in strays : r.cookies \in Cookies /\ r.by \in 0 .. Len(owner)
    BY DEF TypeOK, Strays
<1> QED
    BY <1>2, <1>3, <1>4

(* A form the API has answered. *)
LEMMA MadeLogin ==
    ASSUME TypeOK, login[1] = "made"
    PROVE  /\ login[2] \in 1 .. Len(owner) /\ login[2] \in 0 .. Len(owner)
           /\ <<login[2], TRUE>> \in Jars(Len(owner))
<1>1. Len(owner) \in Nat /\ login \in LoginStates(Len(owner))
    BY DEF TypeOK
<1>2. login[2] \in 1 .. Len(owner)
    BY <1>1, LoginParts
<1>3. login[2] \in 0 .. Len(owner)
    BY <1>1, <1>2
<1> QED
    BY <1>2, <1>3, TypedState

(* The account's answer, arrived. *)
LEMMA MeArrivesParts ==
    ASSUME TypeOK, MeArrives
    PROVE  /\ me' \in MeStates(Len(owner)) /\ me'.wire = Quiet
           /\ me'.data = <<me.wire[2].says>>
BY TypedState, AnsweredCookies, InstallType DEF MeArrives

(* Answers arriving. *)
LEMMA TypeArrivals == TypeOK /\ AnswersInv /\ Arrivals => TypeOK'
<1> SUFFICES ASSUME TypeOK, AnswersInv, Arrivals PROVE TypeOK'
    OBVIOUS
<1> USE DEF vars, api, cookies, place, page, bounds
<1>0. /\ Len(owner) \in Nat /\ me \in MeStates(Len(owner))
      /\ cookie \in 0 .. Len(owner) /\ flag \in BOOLEAN
    BY TypedState
<1>n. NoReq \in Reqs(Len(owner)) /\ <<"no">> \in LeavingStates(Len(owner))
    BY <1>0 DEF NoReq, Reqs, Cookies, LeavingStates
<1>1. ASSUME MeArrives PROVE TypeOK'
    <2>1. me' \in MeStates(Len(owner))
        BY <1>1, MeArrivesParts
    <2>2. cookie' \in 0 .. Len(owner) /\ flag' \in BOOLEAN
        BY <1>1, AnsweredCookies, CookieTypes DEF MeArrives
    <2>3. PICK news \in BOOLEAN :
              Remember(news) /\ IF news \/ me.failed THEN Renders ELSE UNCHANGED read
        BY <1>1 DEF MeArrives
    <2>4. deliberate' \in BOOLEAN
        BY <2>3, RememberType
    <2>5. read' \in BOOLEAN /\ (~bounced' => read')
        BY <1>1, <2>3, RendersType DEF MeArrives, TypeOK
    <2>6. hops' \in {0, hops} /\ abrupt' \in {"no", "lost", "replaced"}
        BY <1>1, GhostTypes DEF MeArrives
    <2> QED
        BY <1>1, <2>1, <2>2, <2>4, <2>5, <2>6, TypeKept DEF MeArrives, TypeOK
<1>2. ASSUME MeFails PROVE TypeOK'
    <2>1. me' \in MeStates(Len(owner))
        BY <1>0, <1>2, FailType DEF MeFails
    <2>2. cookie' \in 0 .. Len(owner) /\ flag' \in BOOLEAN
        BY <1>0, <1>2, AnsweredCookies, CookieTypes DEF MeFails
    <2>3. read' \in BOOLEAN /\ (~bounced' => read')
        BY <1>2, RendersType DEF MeFails
    <2>4. hops' \in {0, hops} /\ abrupt' \in {"no", "lost", "replaced"}
        BY <1>2, GhostTypes DEF MeFails
    <2> QED
        BY <1>2, <2>1, <2>2, <2>3, <2>4, TypeKept DEF MeFails, TypeOK
<1>3. ASSUME SignOutReturns PROVE TypeOK'
    <2>1. me' \in MeStates(Len(owner))
        BY <1>0, <1>3, SetType DEF SignOutReturns
    <2>2. /\ rows' \in {Nobody} \cup Account
          /\ req' \in Reqs(Len(owner)) /\ strays' \subseteq Strays(Len(owner))
        BY <1>3, ForgetType DEF SignOutReturns
    <2>3. cookie' \in 0 .. Len(owner) /\ flag' \in BOOLEAN
        <3>1. CASE TakeCookies("clear", 0)
            <4>1. "clear" \in Cookies /\ 0 \in 0 .. Len(owner)
                BY <1>0 DEF Cookies
            <4> QED
                BY <3>1, <4>1, CookieTypes
        <3>2. CASE UNCHANGED cookies
            BY <1>0, <3>2
        <3> QED
            BY <1>3, <3>1, <3>2 DEF SignOutReturns
    <2> QED
        BY <1>3, <1>n, <2>1, <2>2, <2>3, TypeKept DEF SignOutReturns, TypeOK
<1>r. "renew" \in Cookies
    BY DEF Cookies
<1>4. ASSUME LoginReturns PROVE TypeOK'
    <2>1. /\ login[2] \in 0 .. Len(owner)
          /\ <<login[2], TRUE>> \in Jars(Len(owner))
        BY <1>4, MadeLogin DEF LoginReturns
    <2>2. me' \in MeStates(Len(owner))
        BY <1>0, <1>4, <2>1, InvalidateType DEF LoginReturns
    <2>3. login' \in LoginStates(Len(owner))
        BY <1>4 DEF LoginReturns, LoginStates
    <2>4. cookie' \in 0 .. Len(owner) /\ flag' \in BOOLEAN
        BY <1>4, <1>r, <2>1, CookieTypes DEF LoginReturns
    <2>5. strays' \subseteq Strays(Len(owner))
        BY <1>4, DropMeType DEF LoginReturns
    <2>6. hops' \in {0, hops} /\ abrupt' \in {"no", "lost", "replaced"}
        BY <1>4, GhostTypes DEF LoginReturns
    <2> QED
        BY <1>4, <2>2, <2>3, <2>4, <2>5, <2>6, TypeKept DEF LoginReturns, TypeOK
<1>5. ASSUME LoginFails PROVE TypeOK'
    <2>1. login' \in LoginStates(Len(owner))
        BY <1>5 DEF LoginFails, LoginStates
    <2>2. cookie' \in 0 .. Len(owner) /\ flag' \in BOOLEAN
        BY <1>0, <1>5, <1>r, MadeLogin, CookieTypes DEF LoginFails
    <2>3. hops' \in {0, hops} /\ abrupt' \in {"no", "lost", "replaced"}
        BY <1>5, GhostTypes DEF LoginFails
    <2> QED
        BY <1>5, <2>1, <2>2, <2>3, TypeKept DEF LoginFails, TypeOK
<1>6. ASSUME ReqArrives PROVE TypeOK'
    <2>1. me' \in MeStates(Len(owner))
        BY <1>0, <1>6, SetType DEF ReqArrives
    <2>2. cookie' \in 0 .. Len(owner) /\ flag' \in BOOLEAN
        BY <1>6, AnsweredCookies, CookieTypes DEF ReqArrives
    <2>3. rows' \in {Nobody} \cup Account
        <3>1. req.at = "served" => req.by \in 1 .. Len(owner)
            BY <1>0, AnsweredCookies DEF AnswersInv
        <3> QED
            BY <1>6, <3>1, TypedState DEF ReqArrives, TypeOK
    <2>4. read' \in BOOLEAN /\ (~bounced' => read')
        BY <1>6, RendersType DEF ReqArrives, TypeOK
    <2>5. hops' \in {0, hops} /\ abrupt' \in {"no", "lost", "replaced"}
        BY <1>6, GhostTypes DEF ReqArrives
    <2> QED
        BY <1>6, <1>n, <2>1, <2>2, <2>3, <2>4, <2>5, TypeKept DEF ReqArrives, TypeOK
<1>7. ASSUME ReqFails PROVE TypeOK'
    <2>1. cookie' \in 0 .. Len(owner) /\ flag' \in BOOLEAN
        BY <1>0, <1>7, AnsweredCookies, CookieTypes DEF ReqFails
    <2>2. hops' \in {0, hops} /\ abrupt' \in {"no", "lost", "replaced"}
        BY <1>7, GhostTypes DEF ReqFails
    <2> QED
        BY <1>7, <1>n, <2>1, <2>2, TypeKept DEF ReqFails, TypeOK
<1>8. ASSUME NEW r \in strays, StrayEnds(r) PROVE TypeOK'
    <2>1. cookie' \in 0 .. Len(owner) /\ flag' \in BOOLEAN
        BY <1>0, <1>8, AnsweredCookies, CookieTypes DEF StrayEnds
    <2>2. hops' \in {0, hops} /\ abrupt' \in {"no", "lost", "replaced"}
        BY <1>8, GhostTypes DEF StrayEnds
    <2>3. strays' \subseteq Strays(Len(owner))
        BY <1>8 DEF StrayEnds, TypeOK
    <2> QED
        BY <1>8, <2>1, <2>2, <2>3, TypeKept DEF StrayEnds, TypeOK
<1> QED
    BY <1>1, <1>2, <1>3, <1>4, <1>5, <1>6, <1>7, <1>8 DEF Arrivals

(* The redirects. *)
LEMMA TypeEffects == TypeOK /\ Effects => TypeOK'
<1> SUFFICES ASSUME TypeOK, Effects PROVE TypeOK'
    OBVIOUS
<1> USE DEF vars, api, cookies, place, page, bounds
<1>0. FlagSeen \in BOOLEAN
    BY FlagSeenType
<1>1. ASSUME SendToSignIn PROVE TypeOK'
    BY <1>1, TypeKept DEF SendToSignIn, TypeOK
<1>2. ASSUME SendOn PROVE TypeOK'
    <2>1. /\ path' \in InApp \cup {"signin"} /\ bounced' \in BOOLEAN
          /\ (bounced' => path' = "signin") /\ read' \in BOOLEAN /\ (~bounced' => read')
        BY <1>0, <1>2, GateType DEF SendOn, InApp
    <2>2. login' \in LoginStates(Len(owner))
        BY <1>2 DEF SendOn, LoginStates, TypeOK
    <2>3. deliberate' \in BOOLEAN
        BY <1>2, MovesType DEF SendOn
    <2> QED
        BY <1>2, <2>1, <2>2, <2>3, TypeKept DEF SendOn, TypeOK
<1>3. ASSUME LeaveVerify PROVE TypeOK'
    <2>1. /\ path' \in InApp \cup {"signin"} /\ bounced' \in BOOLEAN
          /\ (bounced' => path' = "signin") /\ read' \in BOOLEAN /\ (~bounced' => read')
        BY <1>0, <1>3, GateType DEF LeaveVerify, InApp
    <2>2. deliberate' \in BOOLEAN
        BY <1>3, MovesType DEF LeaveVerify
    <2> QED
        BY <1>3, <2>1, <2>2, TypeKept DEF LeaveVerify, TypeOK
<1> QED
    BY <1>1, <1>2, <1>3 DEF Effects

(* Any step. *)
LEMMA TypeStep == TypeOK /\ AnswersInv /\ [Next]_vars => TypeOK'
<1>1. TypeOK /\ UNCHANGED vars => TypeOK'
    BY DEF TypeOK, vars, api, cookies, place, page, bounds
<1> QED
    BY <1>1, TypeVisitor, TypeApi, TypeArrivals, TypeEffects DEF Next

-----------------------------------------------------------------------------
(* Requests of pages, refused and served. *)

(* Without the API a page's request is what it was, or gone, or asked; and  *)
(* no session lives that did not, but a new one.                            *)
LEMMA AnswersKept ==
    ASSUME TypeOK, AnswersInv,
           live' \subseteq live \cup {Len(owner) + 1},
           req' = req \/ req'.at \in {"none", "asked"}
    PROVE  AnswersInv'
<1>1. req.by # Len(owner) + 1
    BY TypedState, AnsweredCookies
<1> QED
    BY <1>1 DEF AnswersInv

(* What a forgotten request leaves, or an ended one. *)
LEMMA NoReqParts == NoReq.at = "none"
BY DEF NoReq

(* The visitor answers nothing. *)
LEMMA AnswersVisitor == TypeOK /\ AnswersInv /\ Visitor => AnswersInv'
<1> SUFFICES ASSUME TypeOK, AnswersInv, Visitor PROVE AnswersInv'
    OBVIOUS
<1>1. live' = live
    BY DEF Visitor, Load, Follow, Back, Refetch, SignOut, Submit, PageAsks, VerifyCode, api
<1>2. req' = req \/ req'.at \in {"none", "asked"}
    BY NoReqParts
       DEF Visitor, Load, Follow, Back, Refetch, SignOut, Submit, PageAsks, VerifyCode, page
<1> QED
    BY <1>1, <1>2, AnswersKept

(* The API refuses a session that is not good, and serves a good one. *)
LEMMA AnswersApi == TypeOK /\ AnswersInv /\ Api => AnswersInv'
<1> SUFFICES ASSUME TypeOK, AnswersInv, Api PROVE AnswersInv'
    OBVIOUS
<1>1. CASE TakeReq
    <2>1. /\ req'.by = req.by /\ req'.what = req.what /\ req.what \in {"rows", "password"}
          /\ req'.at = IF req.by \notin live THEN "refused"
                       ELSE IF req.what = "password" THEN "wrong" ELSE "served"
        BY <1>1, TakeReqParts DEF TypeOK, Reqs
    <2>2. live' = live
        BY <1>1 DEF TakeReq, api
    <2>3. 0 \notin live
        BY TypedState
    <2> QED
        BY <2>1, <2>2, <2>3 DEF AnswersInv
<1>2. CASE ~TakeReq
    <2>1. live' \subseteq live \cup {Len(owner) + 1}
        BY <1>2 DEF Api, AnswerMe, TakeSignOut, TakeLogin, EndSession, TakeStray, api
    <2>2. req' = req
        BY <1>2 DEF Api, AnswerMe, TakeSignOut, TakeLogin, EndSession, TakeStray, page
    <2> QED
        BY <2>1, <2>2, AnswersKept
<1> QED
    BY <1>1, <1>2

(* Any step. *)
LEMMA AnswersStep == TypeOK /\ AnswersInv /\ [Next]_vars => AnswersInv'
<1> SUFFICES ASSUME TypeOK, AnswersInv, [Next]_vars PROVE AnswersInv'
    OBVIOUS
<1>1. ASSUME Arrivals PROVE AnswersInv'
    <2>1. live' = live
        BY <1>1 DEF Arrivals, MeArrives, MeFails, SignOutReturns, LoginReturns, LoginFails,
                    ReqArrives, ReqFails, StrayEnds, api
    <2>2. req' = req \/ req' = NoReq
        BY <1>1 DEF Arrivals, MeArrives, MeFails, SignOutReturns, Forget, LoginReturns,
                    LoginFails, ReqArrives, ReqFails, StrayEnds, page
    <2> QED
        BY <2>1, <2>2, NoReqParts, AnswersKept
<1>2. ASSUME Effects PROVE AnswersInv'
    <2>1. req' = req /\ live' = live
        BY <1>2 DEF Effects, SendToSignIn, SendOn, LeaveVerify, api, page
    <2> QED
        BY <2>1, AnswersKept
<1>3. ASSUME UNCHANGED vars PROVE AnswersInv'
    BY <1>3, AnswersKept DEF vars, api, page
<1> QED
    BY <1>1, <1>2, <1>3, AnswersVisitor, AnswersApi DEF Next

-----------------------------------------------------------------------------
(* Whose rows the pages have. *)

(* A step that leaves the session and the rows alone. *)
LEMMA RowsKept ==
    ASSUME RowsInv,
           abrupt' = abrupt, cookie' = cookie, rows' = rows,
           cookie # 0 => owner'[cookie] = owner[cookie],
           RowsAwaited' => RowsAwaited /\ req'.by = req.by
    PROVE  RowsInv'
BY DEF RowsInv

(* A step that leaves no rows, and none to come. *)
LEMMA RowsGone ==
    ASSUME rows' = Nobody, ~RowsAwaited'
    PROVE  RowsInv'
BY DEF RowsInv

(* An answer's cookies: as long as there are rows here, or to come, another *)
(* cookie is the abrupt end of the session they are of.                     *)
LEMMA RowsMarked ==
    ASSUME RowsInv, Mark, UNCHANGED <<owner, rows>>,
           RowsAwaited' => RowsAwaited /\ req'.by = req.by
    PROVE  RowsInv'
<1> SUFFICES ASSUME abrupt' = "no" PROVE RowsInv'
    BY DEF RowsInv
<1>1. abrupt = "no" /\ (cookie # 0 /\ cookie' # cookie => ~Left)
    BY DEF Mark
<1>2. CASE cookie' = cookie
    BY <1>1, <1>2 DEF RowsInv
<1>3. CASE cookie' # cookie
    <2>1. ~Left
        BY <1>1, <1>3 DEF Left, RowsInv, RowsAwaited
    <2> QED
        BY <2>1 DEF Left, RowsInv
<1> QED
    BY <1>2, <1>3

(* A request that is not there brings nothing. *)
LEMMA NothingAwaited ==
    ASSUME req' = NoReq
    PROVE  ~RowsAwaited'
BY DEF RowsAwaited, NoReq

(* A request that is what it was brings what it did. *)
LEMMA StillAwaited ==
    ASSUME req' = req
    PROVE  RowsAwaited' => RowsAwaited /\ req'.by = req.by
BY DEF RowsAwaited

(* At first there are none. *)
LEMMA RowsInit == Init => RowsInv /\ AnswersInv
BY DEF Init, RowsInv, AnswersInv, RowsAwaited, NoReq

(* The visitor. *)
LEMMA RowsVisitor == TypeOK /\ RowsInv /\ Visitor => RowsInv'
<1> SUFFICES ASSUME TypeOK, RowsInv, Visitor PROVE RowsInv'
    OBVIOUS
<1> USE DEF api, cookies, page
<1>1. ASSUME NEW p \in InApp \cup {"signin"}, Load(p) PROVE RowsInv'
    BY <1>1, NothingAwaited, RowsGone DEF Load
<1>2. ASSUME Follow \/ Back \/ Refetch \/ SignOut \/ \E a \in Account : Submit(a) PROVE RowsInv'
    <2>1. UNCHANGED <<req, rows, cookie, owner, abrupt>>
        BY <1>2 DEF Follow, Back, Refetch, SignOut, Submit
    <2> QED
        BY <2>1, StillAwaited, RowsKept
<1>3. ASSUME NEW what \in scene.asks, PageAsks(what) PROVE RowsInv'
    <2>1. req'.by = cookie /\ UNCHANGED <<cookie, owner, rows, abrupt>>
        BY <1>3 DEF PageAsks
    <2> QED
        BY <2>1 DEF RowsInv
<1>4. ASSUME VerifyCode PROVE RowsInv'
    <2>1. UNCHANGED <<req, rows, owner, abrupt>>
        BY <1>4 DEF VerifyCode
    <2>2. PICK how \in Truthful(Jar) : TakeCookies(how, cookie)
        BY <1>4 DEF VerifyCode
    <2>3. how # "clear"
        BY <1>4, <2>2 DEF VerifyCode, Truthful, Jar
    <2>4. cookie' = cookie
        BY <2>2, <2>3, TruthfulType DEF TakeCookies, Cookies
    <2> QED
        BY <2>1, <2>4, StillAwaited, RowsKept
<1> QED
    BY <1>1, <1>2, <1>3, <1>4 DEF Visitor

(* The API. *)
LEMMA RowsApi == TypeOK /\ RowsInv /\ Api => RowsInv'
<1> SUFFICES ASSUME TypeOK, RowsInv, Api PROVE RowsInv'
    OBVIOUS
<1> USE DEF api, cookies, page
<1>1. ASSUME TakeLogin PROVE RowsInv'
    <2>1. cookie # 0 => owner'[cookie] = owner[cookie]
        <3> SUFFICES ASSUME cookie # 0 PROVE owner'[cookie] = owner[cookie]
            OBVIOUS
        <3>1. cookie \in 1 .. Len(owner) /\ owner \in Seq(Account)
            BY TypedState
        <3>2. login[2] \in Account
            BY <1>1, TypedState, LoginParts DEF TakeLogin, TypeOK
        <3> QED
            BY <1>1, <3>1, <3>2 DEF TakeLogin
    <2>2. UNCHANGED <<req, rows, cookie, abrupt>>
        BY <1>1 DEF TakeLogin
    <2> QED
        BY <2>1, <2>2, StillAwaited, RowsKept
<1>2. ASSUME TakeReq PROVE RowsInv'
    <2>1. req'.by = req.by /\ req'.what = req.what /\ req.at = "asked"
        BY <1>2, TakeReqParts DEF TakeReq
    <2>2. RowsAwaited' => RowsAwaited /\ req'.by = req.by
        BY <2>1 DEF RowsAwaited
    <2>3. UNCHANGED <<rows, cookie, owner, abrupt>>
        BY <1>2 DEF TakeReq
    <2> QED
        BY <2>2, <2>3, RowsKept
<1>3. ASSUME ~TakeLogin, ~TakeReq PROVE RowsInv'
    <2>1. UNCHANGED <<req, rows, cookie, owner, abrupt>>
        BY <1>3 DEF Api, AnswerMe, TakeSignOut, EndSession, TakeStray
    <2> QED
        BY <2>1, StillAwaited, RowsKept
<1> QED
    BY <1>1, <1>2, <1>3

(* Answers arriving: only a lost or a replaced session leaves rows. *)
LEMMA RowsArrivals == TypeOK /\ AnswersInv /\ RowsInv /\ Arrivals => RowsInv'
<1> SUFFICES ASSUME TypeOK, AnswersInv, RowsInv, Arrivals PROVE RowsInv'
    OBVIOUS
<1> USE DEF api, page
<1>1. ASSUME \/ MeArrives \/ MeFails \/ LoginReturns \/ LoginFails
             \/ \E r \in strays : StrayEnds(r)
      PROVE  RowsInv'
    <2>1. UNCHANGED <<owner, req, rows>> /\ Mark
        BY <1>1 DEF MeArrives, MeFails, LoginReturns, LoginFails, StrayEnds
    <2> QED
        BY <2>1, StillAwaited, RowsMarked
<1>2. ASSUME SignOutReturns PROVE RowsInv'
    <2>1. rows' = Nobody
        BY <1>2 DEF SignOutReturns, Forget
    <2>2. req' = NoReq \/ (req' = req /\ ~(req.what = "rows" /\ req.at # "none"))
        BY <1>2 DEF SignOutReturns, Forget
    <2>3. ~RowsAwaited'
        BY <2>2, NothingAwaited DEF RowsAwaited
    <2> QED
        BY <2>1, <2>3, RowsGone
<1>3. ASSUME ReqArrives PROVE RowsInv'
    <2>0. /\ ~RowsAwaited' /\ owner' = owner /\ Mark
          /\ rows' = IF req.at = "served" THEN owner[req.by] ELSE rows
        BY <1>3, NothingAwaited DEF ReqArrives
    <2>1. CASE req.at = "served"
        <3>1. RowsAwaited /\ req.by # 0
            BY <2>1 DEF RowsAwaited, AnswersInv
        <3> SUFFICES ASSUME abrupt' = "no" PROVE RowsInv'
            BY DEF RowsInv
        <3>2. abrupt = "no" /\ req.by = cookie
            BY <2>0, <3>1 DEF Mark, RowsInv
        <3>3. cookie' = cookie
            BY <2>0, <3>1, <3>2 DEF Mark, Left
        <3> QED
            BY <2>0, <2>1, <3>1, <3>2, <3>3 DEF RowsInv
    <2>2. CASE req.at # "served"
        BY <2>0, <2>2, RowsMarked
    <2> QED
        BY <2>1, <2>2
<1>4. ASSUME ReqFails PROVE RowsInv'
    <2>1. UNCHANGED <<owner, rows>> /\ Mark /\ ~RowsAwaited'
        BY <1>4, NothingAwaited DEF ReqFails
    <2> QED
        BY <2>1, RowsMarked
<1> QED
    BY <1>1, <1>2, <1>3, <1>4 DEF Arrivals

(* Any step. *)
LEMMA RowsStep == TypeOK /\ AnswersInv /\ RowsInv /\ [Next]_vars => RowsInv'
<1> SUFFICES ASSUME TypeOK, AnswersInv, RowsInv, [Next]_vars PROVE RowsInv'
    OBVIOUS
<1>1. ASSUME Effects PROVE RowsInv'
    <2>1. UNCHANGED <<req, rows, cookie, owner, abrupt>>
        BY <1>1 DEF Effects, SendToSignIn, SendOn, LeaveVerify, api, cookies, page
    <2> QED
        BY <2>1, StillAwaited, RowsKept
<1>2. ASSUME UNCHANGED vars PROVE RowsInv'
    <2>1. UNCHANGED <<req, rows, cookie, owner, abrupt>>
        BY <1>2 DEF vars, api, cookies, page
    <2> QED
        BY <2>1, StillAwaited, RowsKept
<1> QED
    BY <1>1, <1>2, RowsVisitor, RowsApi, RowsArrivals DEF Next

-----------------------------------------------------------------------------
(* One redirect, and no other after it. *)

(* The visitor, or news, starts the count anew. *)
LEMMA RedirectReset ==
    ASSUME hops' = 0
    PROVE  RedirectInv'
BY DEF RedirectInv

(* A step that moves nobody and changes neither the account nor the cookies: *)
(* if the page renders, it reads the flag it read before.                    *)
LEMMA RedirectKept ==
    ASSUME RedirectInv, UNCHANGED <<scene, cookies, path, bounced, hops>>, me'.data = me.data,
           read' = read \/ Renders
    PROVE  RedirectInv'
<1>1. (SignedIn' <=> SignedIn) /\ (FlagSeen' <=> FlagSeen)
    BY DEF SignedIn, HasData, FlagSeen, cookies
<1>2. bounced /\ ~FlagSeen /\ ~read => ~read'
    BY <1>1 DEF Renders
<1>3. /\ hops' <= 1
      /\ me'.data = <<Nobody>> /\ path' \in InApp => hops' = 0
      /\ SignedIn' /\ path' = "verify" /\ me'.data[1][2] => hops' = 0
    BY <1>1 DEF RedirectInv
<1>4. SignedIn' /\ path' = "signin" => hops' = 0 \/ (bounced' /\ ~FlagSeen' /\ ~read')
    BY <1>1, <1>2 DEF RedirectInv
<1> QED
    BY <1>3, <1>4 DEF RedirectInv

(* An answer's news starts the count anew, and an answer that is none moves *)
(* nobody.                                                                  *)
LEMMA RedirectRecounted ==
    ASSUME RedirectInv, Recount, UNCHANGED <<scene, path, bounced>>, read' = read \/ Renders
    PROVE  RedirectInv'
<1>1. CASE me'.data # me.data \/ cookies' # cookies
    BY <1>1, RedirectReset DEF Recount
<1>2. CASE me'.data = me.data /\ cookies' = cookies
    BY <1>2, RedirectKept DEF Recount
<1> QED
    BY <1>1, <1>2

(* The visitor. *)
LEMMA RedirectVisitor == TypeOK /\ RedirectInv /\ Visitor => RedirectInv'
<1> SUFFICES ASSUME TypeOK, RedirectInv, Visitor PROVE RedirectInv'
    OBVIOUS
<1> USE DEF place
<1>1. ASSUME Refetch PROVE RedirectInv'
    <2>1. me'.data = me.data
        BY <1>1, TypedState, AskType DEF Refetch
    <2> QED
        BY <1>1, <2>1, RedirectKept DEF Refetch
<1>2. ASSUME NEW what \in scene.asks, PageAsks(what) PROVE RedirectInv'
    BY <1>2, RedirectKept DEF PageAsks
<1>3. ASSUME ~Refetch, ~(\E what \in scene.asks : PageAsks(what)) PROVE RedirectInv'
    <2>1. hops' = 0
        BY <1>3 DEF Visitor, Load, Follow, Back, SignOut, Submit, VerifyCode
    <2> QED
        BY <2>1, RedirectReset
<1> QED
    BY <1>1, <1>2, <1>3

(* The API moves nobody. *)
LEMMA RedirectApi == TypeOK /\ RedirectInv /\ Api => RedirectInv'
<1> SUFFICES ASSUME TypeOK, RedirectInv, Api PROVE RedirectInv'
    OBVIOUS
<1>1. me'.data = me.data
    BY AnswerMeType DEF Api, TakeSignOut, TakeLogin, EndSession, TakeReq, TakeStray
<1>2. UNCHANGED <<scene, cookies, path, bounced, read, hops>>
    BY DEF Api, AnswerMe, TakeSignOut, TakeLogin, EndSession, TakeReq, TakeStray, place
<1> QED
    BY <1>1, <1>2, RedirectKept

(* Answers arriving. *)
LEMMA RedirectArrivals == TypeOK /\ RedirectInv /\ Arrivals => RedirectInv'
<1> SUFFICES ASSUME TypeOK, RedirectInv, Arrivals PROVE RedirectInv'
    OBVIOUS
<1> USE DEF place
<1>1. ASSUME MeArrives \/ MeFails \/ ReqArrives PROVE RedirectInv'
    <2>1. Recount /\ UNCHANGED <<scene, path, bounced>> /\ (read' = read \/ Renders)
        BY <1>1 DEF MeArrives, MeFails, ReqArrives
    <2> QED
        BY <2>1, RedirectRecounted
<1>2. ASSUME LoginReturns \/ LoginFails \/ ReqFails \/ \E r \in strays : StrayEnds(r)
      PROVE  RedirectInv'
    <2>1. Recount /\ UNCHANGED <<scene, path, bounced, read>>
        BY <1>2 DEF LoginReturns, LoginFails, ReqFails, StrayEnds
    <2> QED
        BY <2>1, RedirectRecounted
<1>3. ASSUME SignOutReturns PROVE RedirectInv'
    BY <1>3, RedirectReset DEF SignOutReturns
<1> QED
    BY <1>1, <1>2, <1>3 DEF Arrivals

(* Where the gate bounces a visitor to, it read that there is no flag. *)
LEMMA GateReads ==
    ASSUME NEW p, NEW seen, Gate(p, seen)
    PROVE  \/ path' = "signin" /\ bounced' /\ ~seen /\ ~read'
           \/ path' = p
BY DEF Gate

(* The redirects: none leads where another starts. *)
LEMMA RedirectEffects == TypeOK /\ RedirectInv /\ Effects => RedirectInv'
<1> SUFFICES ASSUME TypeOK, RedirectInv, Effects PROVE RedirectInv'
    OBVIOUS
<1> USE DEF cookies, place, InApp
<1>0. UNCHANGED <<me, scene, flag>>
    BY DEF Effects, SendToSignIn, SendOn, LeaveVerify
<1>s. (SignedIn' <=> SignedIn) /\ (FlagSeen' <=> FlagSeen)
    BY <1>0 DEF SignedIn, HasData, FlagSeen
<1>1. ASSUME SendToSignIn PROVE RedirectInv'
    <2>1. hops = 0 /\ hops' = 1 /\ path' = "signin" /\ ~SignedIn
        BY <1>1 DEF SendToSignIn, RedirectInv, SignedIn
    <2> QED
        BY <1>s, <2>1 DEF RedirectInv
<1>2. ASSUME SendOn PROVE RedirectInv'
    <2>1. SignedIn /\ path = "signin" /\ ~(bounced /\ ~read)
        BY <1>2 DEF SendOn, Authenticated, Stuck
    <2>2. hops = 0 /\ hops' = 1
        BY <1>2, <2>1 DEF SendOn, RedirectInv
    <2>3. me.data # <<Nobody>>
        BY <2>1 DEF SignedIn
    <2>4. \/ path' = "signin" /\ bounced' /\ ~FlagSeen /\ ~read'
          \/ path' = "app"
          \/ path' = "verify" /\ ~me.data[1][2]
        BY <1>2, GateReads DEF SendOn
    <2> QED
        BY <1>0, <1>s, <2>2, <2>3, <2>4 DEF RedirectInv
<1>3. ASSUME LeaveVerify PROVE RedirectInv'
    <2>1. SignedIn /\ path = "verify" /\ me.data[1][2]
        BY <1>3 DEF LeaveVerify, Authenticated
    <2>2. hops = 0 /\ hops' = 1
        BY <1>3, <2>1 DEF LeaveVerify, RedirectInv
    <2>3. me.data # <<Nobody>>
        BY <2>1 DEF SignedIn
    <2>4. \/ path' = "signin" /\ bounced' /\ ~FlagSeen /\ ~read'
          \/ path' = "app"
        BY <1>3, GateReads DEF LeaveVerify
    <2> QED
        BY <1>0, <1>s, <2>2, <2>3, <2>4 DEF RedirectInv
<1> QED
    BY <1>1, <1>2, <1>3 DEF Effects

(* Any step. *)
LEMMA RedirectStep == TypeOK /\ RedirectInv /\ [Next]_vars => RedirectInv'
<1> SUFFICES ASSUME TypeOK, RedirectInv, [Next]_vars PROVE RedirectInv'
    OBVIOUS
<1>1. ASSUME UNCHANGED vars PROVE RedirectInv'
    <2>1. UNCHANGED <<me, scene, cookies, path, bounced, read, hops>>
        BY <1>1 DEF vars, place
    <2> QED
        BY <2>1, RedirectKept
<1> QED
    BY <1>1, RedirectVisitor, RedirectApi, RedirectArrivals, RedirectEffects DEF Next

-----------------------------------------------------------------------------
(* The theorems. *)

(* The invariant holds of every state the tab, the browser and the API can  *)
(* be in together.                                                          *)
THEOREM Invariance == Spec => []Inv
<1>1. Init => Inv
    <2> SUFFICES ASSUME Init PROVE Inv
        OBVIOUS
    <2>1. RedirectInv
        BY DEF Init, RedirectInv
    <2> QED
        BY <2>1, TypeInit, RowsInit DEF Inv
<1>2. Inv /\ [Next]_vars => Inv'
    BY TypeStep, AnswersStep, RowsStep, RedirectStep DEF Inv
<1> QED
    BY <1>1, <1>2, PTL DEF Spec

(* Every variable keeps its type. *)
THEOREM TypeCorrect == Spec => []TypeOK
<1>1. Inv => TypeOK
    BY DEF Inv
<1> QED
    BY <1>1, Invariance, PTL

(* Of the redirects of signed-in-redirect.tsx, session-provider.tsx and     *)
(* proxy.ts at most one follows what the visitor does, and at most one an   *)
(* answer that changes the account shown or the cookies: also an answer     *)
(* that issues the cookies anew (api.go, 220), or one that nobody waits for *)
(* any more.  It is not one for both: after each of them one may follow.    *)
THEOREM OneRedirectAtMost == Spec => []RedirectsEnd
<1>1. Inv => RedirectsEnd
    BY DEF Inv, RedirectInv, RedirectsEnd
<1> QED
    BY <1>1, Invariance, PTL

(* After a sign-out no page has rows of another account than the one whose  *)
(* session the browser holds, whichever answers of the earlier session      *)
(* arrive afterwards, unless one of them replaces the session's cookie, or  *)
(* clears it, while its rows are here.                                      *)
THEOREM RowsOfOneAccount == Spec => []OwnRowsOnly
<1>1. Inv => OwnRowsOnly
    BY DEF Inv, RowsInv, OwnRowsOnly
<1> QED
    BY <1>1, Invariance, PTL

(* The tab stops showing an account for a sign-out, for what /me says, or   *)
(* for a session that is over: isSessionLost never takes a wrong password   *)
(* for one.                                                                 *)
THEOREM OnlyLossSignsOut == Spec => NoFalseSignOut
<1> DEFINE Fair == (SignedIn /\ me'.data = <<Nobody>>) =>
                       \/ leaving # <<"no">>
                       \/ IsAnswered(me)
                       \/ req.by \notin live
<1>1. Inv /\ [Next]_vars => [Fair]_vars
    <2> SUFFICES ASSUME Inv, [Next]_vars, SignedIn, me'.data = <<Nobody>>, me' # me
                 PROVE  \/ leaving # <<"no">>
                        \/ IsAnswered(me)
                        \/ req.by \notin live
        <3>1. me'.data = <<Nobody>> /\ SignedIn => me' # me
            BY DEF SignedIn
        <3> QED
            BY <3>1
    <2>0. /\ Len(owner) \in Nat /\ Jar \in Jars(Len(owner)) /\ me \in MeStates(Len(owner))
          /\ TypeOK /\ AnswersInv /\ me'.data # me.data
        BY TypedState DEF Inv, SignedIn
    <2>1. ASSUME Visitor PROVE FALSE
        <3>1. ASSUME NEW p \in InApp \cup {"signin"}, Load(p) PROVE FALSE
            <4>1. me'.data = <<>>
                BY <2>0, <3>1, EmptyType, AskType DEF Load, Empty
            <4> QED
                BY <4>1
        <3>2. ASSUME Refetch PROVE FALSE
            BY <2>0, <3>2, AskType DEF Refetch
        <3>3. ASSUME VerifyCode PROVE FALSE
            BY <2>0, <3>3, TypedState, InvalidateType DEF VerifyCode
        <3> QED
            BY <2>1, <3>1, <3>2, <3>3 DEF Visitor, Follow, Back, SignOut, Submit, PageAsks
    <2>2. ASSUME Api PROVE FALSE
        BY <2>0, <2>2, AnswerMeType
           DEF Api, TakeSignOut, TakeLogin, EndSession, TakeReq, TakeStray
    <2>3. ASSUME Arrivals
          PROVE  leaving # <<"no">> \/ IsAnswered(me) \/ req.by \notin live
        <3>1. ASSUME MeFails PROVE FALSE
            BY <2>0, <3>1, FailType DEF MeFails
        <3>2. ASSUME LoginReturns PROVE FALSE
            <4>1. <<login[2], TRUE>> \in Jars(Len(owner))
                BY <2>0, <3>2, MadeLogin DEF LoginReturns
            <4> QED
                BY <2>0, <3>2, <4>1, InvalidateType DEF LoginReturns
        <3>3. ASSUME ReqArrives PROVE req.by \notin live
            BY <2>0, <3>3 DEF ReqArrives, IsSessionLost, AnswersInv
        <3> QED
            BY <2>3, <3>1, <3>2, <3>3
               DEF Arrivals, MeArrives, SignOutReturns, LoginFails, ReqFails, StrayEnds
    <2>4. ASSUME Effects PROVE FALSE
        BY <2>4 DEF Effects, SendToSignIn, SendOn, LeaveVerify
    <2>5. ASSUME UNCHANGED vars PROVE FALSE
        BY <2>5 DEF vars
    <2> QED
        BY <2>1, <2>2, <2>3, <2>4, <2>5 DEF Next
<1> HIDE DEF Fair
<1>2. [][Fair]_vars => NoFalseSignOut
    BY DEF Fair, NoFalseSignOut
<1>3. Spec => [][Fair]_vars
    BY <1>1, Invariance, PTL DEF Spec
<1> QED
    BY <1>2, <1>3, PTL

=============================================================================
