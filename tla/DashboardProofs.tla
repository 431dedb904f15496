-------------------------- MODULE DashboardProofs --------------------------
(***************************************************************************)
(* What holds of the pages of the dashboard, for any fields, values and    *)
(* plans, and for any number of drafts, sends, codes, keys, endpoints and  *)
(* presses.  One section per page, after what they share: the states of an *)
(* entry of the cache and of a page's mutations.                           *)
(***************************************************************************)
EXTENDS Dashboard, SequenceTheorems, FiniteSetTheorems, TLAPS

-----------------------------------------------------------------------------
(* The states of an entry of the cache, whose requests carry one thing and  *)
(* bring back another.                                                      *)
Wires(carried, values) ==
    {Quiet} \cup {<<"asked", x>> : x \in carried} \cup {<<"answered", v>> : v \in values}

Datas(values) == {<<>>} \cup {<<v>> : v \in values}

Entries(carried, values) ==
    [data : Datas(values), wire : Wires(carried, values), failed : BOOLEAN]

(* An entry starts with nothing.                                            *)
LEMMA EmptyEntry ==
    ASSUME NEW A, NEW V
    PROVE  Empty \in Entries(A, V)
BY DEF Empty, Entries, Datas, Wires

(* A request is for what entries carry; an answer has a value.              *)
LEMMA EntryParts ==
    ASSUME NEW A, NEW V, NEW q \in Entries(A, V)
    PROVE  /\ IsAsked(q) => q.wire[2] \in A
           /\ IsAnswered(q) => q.wire[2] \in V
           /\ HasData(q) => q.data[1] \in V /\ q.data = <<q.data[1]>>
           /\ q.data \in Datas(V) /\ q.wire \in Wires(A, V) /\ q.failed \in BOOLEAN
<1>1. q.data \in Datas(V) /\ q.wire \in Wires(A, V) /\ q.failed \in BOOLEAN
    BY DEF Entries
<1>2. IsAsked(q) => q.wire[2] \in A
    BY <1>1 DEF IsAsked, Wires, Quiet
<1>3. IsAnswered(q) => q.wire[2] \in V
    BY <1>1 DEF IsAnswered, Wires, Quiet
<1>4. HasData(q) => q.data[1] \in V /\ q.data = <<q.data[1]>>
    BY <1>1 DEF HasData, Datas
<1> QED
    BY <1>1, <1>2, <1>3, <1>4

(* Asking changes what is on the wire only.                                 *)
LEMMA AskEntry ==
    ASSUME NEW A, NEW V, NEW q \in Entries(A, V), NEW x \in A
    PROVE  /\ Ask(q, x) \in Entries(A, V) /\ Ask(q, x).data = q.data
           /\ Invalidate(q, x) \in Entries(A, V) /\ Invalidate(q, x).data = q.data
<1>1. <<"asked", x>> \in Wires(A, V)
    BY DEF Wires
<1>2. Ask(q, x) \in Entries(A, V) /\ Ask(q, x).data = q.data
    BY <1>1 DEF Ask, Entries
<1>3. Invalidate(q, x) \in Entries(A, V) /\ Invalidate(q, x).data = q.data
    BY <1>1, <1>2 DEF Invalidate, Entries
<1> QED
    BY <1>2, <1>3

(* So does the API's answer.                                                *)
LEMMA ServeEntry ==
    ASSUME NEW A, NEW V, NEW q \in Entries(A, V), NEW v \in V
    PROVE  Serve(q, v) \in Entries(A, V) /\ Serve(q, v).data = q.data
<1>1. <<"answered", v>> \in Wires(A, V)
    BY DEF Wires
<1> QED
    BY <1>1 DEF Serve, Entries

(* An answer that arrives is what the entry then holds.                     *)
LEMMA InstallEntry ==
    ASSUME NEW A, NEW V, NEW q \in Entries(A, V), IsAnswered(q)
    PROVE  /\ Install(q) \in Entries(A, V) /\ q.wire[2] \in V
           /\ Install(q).data = <<q.wire[2]>> /\ HasData(Install(q)) /\ ~Install(q).failed
<1>1. q.wire[2] \in V
    BY EntryParts
<1>2. <<q.wire[2]>> \in Datas(V) /\ Quiet \in Wires(A, V)
    BY <1>1 DEF Datas, Wires
<1>3. <<q.wire[2]>> # <<>>
    OBVIOUS
<1> QED
    BY <1>1, <1>2, <1>3 DEF Install, Entries, HasData

(* A request that fails leaves the data.                                    *)
LEMMA FailEntry ==
    ASSUME NEW A, NEW V, NEW q \in Entries(A, V)
    PROVE  Fail(q) \in Entries(A, V) /\ Fail(q).data = q.data /\ Fail(q).failed
<1>1. Quiet \in Wires(A, V)
    BY DEF Wires
<1> QED
    BY <1>1 DEF Fail, Entries

(* With more to ask about, an entry is still one.                           *)
LEMMA EntriesGrow ==
    ASSUME NEW A, NEW B, NEW V, A \subseteq B
    PROVE  Entries(A, V) \subseteq Entries(B, V)
<1>1. Wires(A, V) \subseteq Wires(B, V)
    BY DEF Wires
<1> QED
    BY <1>1 DEF Entries

-----------------------------------------------------------------------------
(* The states of a page's mutations: every request has a number of its own, *)
(* no higher than the requests made.                                        *)
JobStates == {"asked", "done", "refused"}

Requests(kinds, ons) == [no : Nat \ {0}, kind : kinds, on : ons, at : JobStates]

Jobs(kinds, ons) ==
    {m \in [flying : SUBSET Requests(kinds, ons), heard : [kinds -> Nat], count : Nat] :
        /\ \A r \in m.flying : r.no <= m.count
        /\ \A r, s \in m.flying : r.no = s.no => r = s}

(* The parts of such a state, and of a request.                             *)
LEMMA JobsParts ==
    ASSUME NEW K, NEW O, NEW m \in Jobs(K, O)
    PROVE  /\ m = [flying |-> m.flying, heard |-> m.heard, count |-> m.count]
           /\ m.flying \subseteq Requests(K, O) /\ m.heard \in [K -> Nat] /\ m.count \in Nat
           /\ \A r \in m.flying : r.no \in 1 .. m.count
           /\ \A r, s \in m.flying : r.no = s.no => r = s
<1>1. /\ m = [flying |-> m.flying, heard |-> m.heard, count |-> m.count]
      /\ m.flying \subseteq Requests(K, O) /\ m.heard \in [K -> Nat] /\ m.count \in Nat
    BY DEF Jobs
<1>2. ASSUME NEW r \in m.flying PROVE r.no \in 1 .. m.count
    BY <1>1 DEF Jobs, Requests
<1> QED
    BY <1>1, <1>2 DEF Jobs

(* What makes a state of the mutations one.                                 *)
LEMMA JobsMade ==
    ASSUME NEW K, NEW O, NEW F, NEW h \in [K -> Nat], NEW c \in Nat,
           F \subseteq Requests(K, O),
           \A r \in F : r.no <= c,
           \A r, s \in F : r.no = s.no => r = s
    PROVE  [flying |-> F, heard |-> h, count |-> c] \in Jobs(K, O)
BY DEF Jobs

(* A page starts without requests.                                          *)
LEMMA NoJobs ==
    ASSUME NEW K, NEW O
    PROVE  NoRequests(K) \in Jobs(K, O)
BY DEF NoRequests, Jobs

(* A press adds a request with a number of its own, and is what is heard.   *)
LEMMA PressJobs ==
    ASSUME NEW K, NEW O, NEW m \in Jobs(K, O), NEW k \in K, NEW on \in O
    PROVE  /\ Press(m, k, on) \in Jobs(K, O)
           /\ Press(m, k, on).flying =
                  m.flying \cup {[no |-> m.count + 1, kind |-> k, on |-> on, at |-> "asked"]}
           /\ \A j \in K : Press(m, k, on).heard[j] =
                  IF j = k THEN m.count + 1 ELSE m.heard[j]
           /\ Press(m, k, on).count = m.count + 1
<1> DEFINE new == [no |-> m.count + 1, kind |-> k, on |-> on, at |-> "asked"]
           F == m.flying \cup {new}
           h == [m.heard EXCEPT ![k] = m.count + 1]
<1>1. /\ m.flying \subseteq Requests(K, O) /\ m.heard \in [K -> Nat] /\ m.count \in Nat
      /\ \A r \in m.flying : r.no \in 1 .. m.count
      /\ \A r, s \in m.flying : r.no = s.no => r = s
    BY JobsParts
<1>2. Press(m, k, on) = [flying |-> F, heard |-> h, count |-> m.count + 1]
    BY DEF Press
<1>3. new \in Requests(K, O) /\ new.no = m.count + 1
    BY <1>1 DEF Requests, JobStates
<1>4. h \in [K -> Nat] /\ m.count + 1 \in Nat
    BY <1>1
<1>5. \A j \in K : h[j] = IF j = k THEN m.count + 1 ELSE m.heard[j]
    BY <1>1
<1> HIDE DEF new, h
<1>6. \A r \in F : r.no <= m.count + 1
    BY <1>1, <1>3
<1>7. \A r, s \in F : r.no = s.no => r = s
    BY <1>1, <1>3
<1>8. F \subseteq Requests(K, O)
    BY <1>1, <1>3
<1> HIDE DEF F
<1>9. [flying |-> F, heard |-> h, count |-> m.count + 1] \in Jobs(K, O)
    BY <1>4, <1>6, <1>7, <1>8, JobsMade
<1> QED
    BY <1>2, <1>5, <1>9 DEF F, new

(* Who no longer listens leaves the requests on their way.                  *)
LEMMA UnhearJobs ==
    ASSUME NEW K, NEW O, NEW m \in Jobs(K, O), NEW kinds
    PROVE  /\ Unhear(m, kinds) \in Jobs(K, O)
           /\ Unhear(m, kinds).flying = m.flying /\ Unhear(m, kinds).count = m.count
           /\ \A j \in K : Unhear(m, kinds).heard[j] = IF j \in kinds THEN 0 ELSE m.heard[j]
<1> DEFINE h == [k \in K |-> IF k \in kinds THEN 0 ELSE m.heard[k]]
<1>1. /\ m = [flying |-> m.flying, heard |-> m.heard, count |-> m.count]
      /\ m.flying \subseteq Requests(K, O) /\ m.heard \in [K -> Nat] /\ m.count \in Nat
      /\ \A r \in m.flying : r.no \in 1 .. m.count
      /\ \A r, s \in m.flying : r.no = s.no => r = s
    BY JobsParts
<1>2. Unhear(m, kinds) = [flying |-> m.flying, heard |-> h, count |-> m.count]
    BY <1>1 DEF Unhear
<1>3. h \in [K -> Nat]
    BY <1>1
<1>4. \A j \in K : h[j] = IF j \in kinds THEN 0 ELSE m.heard[j]
    OBVIOUS
<1> HIDE DEF h
<1>5. [flying |-> m.flying, heard |-> h, count |-> m.count] \in Jobs(K, O)
    BY <1>1, <1>3, JobsMade
<1> QED
    BY <1>2, <1>4, <1>5

(* The API's answer takes the place of the request, number and kind kept.   *)
LEMMA AnsweredJobs ==
    ASSUME NEW K, NEW O, NEW m \in Jobs(K, O), NEW r \in m.flying,
           NEW at \in JobStates, NEW on \in O
    PROVE  /\ Answered(m, r, at, on) \in Jobs(K, O)
           /\ Answered(m, r, at, on).flying = (m.flying \ {r}) \cup
                  {[no |-> r.no, kind |-> r.kind, on |-> on, at |-> at]}
           /\ Answered(m, r, at, on).heard = m.heard
           /\ Answered(m, r, at, on).count = m.count
<1> DEFINE new == [no |-> r.no, kind |-> r.kind, on |-> on, at |-> at]
           F == (m.flying \ {r}) \cup {new}
<1>1. /\ m = [flying |-> m.flying, heard |-> m.heard, count |-> m.count]
      /\ m.flying \subseteq Requests(K, O) /\ m.heard \in [K -> Nat] /\ m.count \in Nat
      /\ \A s \in m.flying : s.no \in 1 .. m.count
      /\ \A s, t \in m.flying : s.no = t.no => s = t
    BY JobsParts
<1>2. r \in Requests(K, O) /\ [r EXCEPT !.at = at, !.on = on] = new
    <2>1. r \in Requests(K, O)
        BY <1>1
    <2> DEFINE s == [r EXCEPT !.at = at]
    <2>2. s = [no |-> r.no, kind |-> r.kind, on |-> r.on, at |-> at]
        BY <2>1 DEF Requests
    <2>3. [r EXCEPT !.at = at, !.on = on] = [s EXCEPT !.on = on]
        OBVIOUS
    <2>4. \A t : t = [no |-> r.no, kind |-> r.kind, on |-> r.on, at |-> at] =>
                    [t EXCEPT !.on = on] = new
        OBVIOUS
    <2> HIDE DEF s, new
    <2> QED
        BY <2>1, <2>2, <2>3, <2>4
<1>3. Answered(m, r, at, on) = [flying |-> F, heard |-> m.heard, count |-> m.count]
    <2>1. Answered(m, r, at, on) = [m EXCEPT !.flying = F]
        BY <1>2 DEF Answered
    <2> HIDE DEF F
    <2> QED
        BY <1>1, <2>1
<1>4. new \in Requests(K, O) /\ new.no = r.no
    BY <1>2 DEF Requests
<1> HIDE DEF new
<1>5. \A s \in F : s.no <= m.count
    BY <1>1, <1>4
<1>6. \A s, t \in F : s.no = t.no => s = t
    BY <1>1, <1>4
<1>7. F \subseteq Requests(K, O)
    BY <1>1, <1>4
<1> HIDE DEF F
<1>8. [flying |-> F, heard |-> m.heard, count |-> m.count] \in Jobs(K, O)
    BY <1>1, <1>5, <1>6, <1>7, JobsMade
<1> QED
    BY <1>3, <1>8 DEF F, new

(* A request that is over is no longer waited for.                          *)
LEMMA OverJobs ==
    ASSUME NEW K, NEW O, NEW m \in Jobs(K, O), NEW r \in m.flying
    PROVE  /\ Over(m, r) \in Jobs(K, O)
           /\ Over(m, r).flying = m.flying \ {r} /\ Over(m, r).count = m.count
           /\ \A j \in K : Over(m, r).heard[j] =
                  IF j = r.kind /\ m.heard[j] = r.no THEN 0 ELSE m.heard[j]
<1> DEFINE h == [m.heard EXCEPT ![r.kind] = IF m.heard[r.kind] = r.no THEN 0 ELSE m.heard[r.kind]]
           F == m.flying \ {r}
<1>1. /\ m = [flying |-> m.flying, heard |-> m.heard, count |-> m.count]
      /\ m.flying \subseteq Requests(K, O) /\ m.heard \in [K -> Nat] /\ m.count \in Nat
      /\ \A s \in m.flying : s.no \in 1 .. m.count
      /\ \A s, t \in m.flying : s.no = t.no => s = t
    BY JobsParts
<1>2. r.kind \in K
    BY <1>1 DEF Requests
<1>3. Over(m, r) = [flying |-> F, heard |-> h, count |-> m.count]
    <2>1. Over(m, r) = [m EXCEPT !.flying = F, !.heard = h]
        BY DEF Over
    <2> HIDE DEF F, h
    <2> QED
        BY <1>1, <2>1
<1>4. h \in [K -> Nat]
    BY <1>1, <1>2
<1>5. \A j \in K : h[j] = IF j = r.kind /\ m.heard[j] = r.no THEN 0 ELSE m.heard[j]
    BY <1>1, <1>2
<1> HIDE DEF h
<1>6. [flying |-> F, heard |-> h, count |-> m.count] \in Jobs(K, O)
    BY <1>1, <1>4, JobsMade
<1> QED
    BY <1>3, <1>5, <1>6

(* With more to ask about, such a state is still one.                       *)
LEMMA JobsGrow ==
    ASSUME NEW K, NEW O, NEW P, O \subseteq P, NEW m \in Jobs(K, O)
    PROVE  m \in Jobs(K, P)
<1>1. Requests(K, O) \subseteq Requests(K, P)
    BY DEF Requests
<1> QED
    BY <1>1 DEF Jobs

(* The page listens to every request of the kind, but for those it left.    *)
HeardUnless(m, kind, gone) ==
    \A r \in m.flying : r.kind = kind /\ r.no \notin gone => m.heard[kind] = r.no

(* A press of the kind needs that no other is listened to.                  *)
LEMMA PressHeard ==
    ASSUME NEW K, NEW O, NEW m \in Jobs(K, O), NEW k \in K, NEW on \in O, NEW kind \in K,
           NEW gone, HeardUnless(m, kind, gone), k = kind => m.heard[kind] = 0
    PROVE  HeardUnless(Press(m, k, on), kind, gone)
<1> DEFINE p == Press(m, k, on)
           new == [no |-> m.count + 1, kind |-> k, on |-> on, at |-> "asked"]
<1>1. p.flying = m.flying \cup {new} /\ p.heard[kind] = IF kind = k THEN m.count + 1
                                                         ELSE m.heard[kind]
    BY PressJobs
<1>2. new.no = m.count + 1 /\ new.kind = k /\ \A r \in m.flying : r.no \in 1 .. m.count
    BY JobsParts
<1> HIDE DEF p, new
<1>3. ASSUME NEW r \in p.flying, r.kind = kind, r.no \notin gone
      PROVE  p.heard[kind] = r.no
    <2>1. CASE r = new
        BY <1>1, <1>2, <1>3, <2>1
    <2>2. CASE r \in m.flying
        <3>1. m.heard[kind] = r.no /\ r.no # 0
            BY <1>2, <1>3, <2>2 DEF HeardUnless
        <3> QED
            BY <1>1, <3>1
    <2> QED
        BY <1>1, <2>1, <2>2
<1> QED
    BY <1>3 DEF HeardUnless, p

(* Who stops listening has left what is on its way.                         *)
LEMMA UnhearHeard ==
    ASSUME NEW K, NEW O, NEW m \in Jobs(K, O), NEW kinds, NEW kind \in K,
           NEW gone, HeardUnless(m, kind, gone), NEW later, gone \subseteq later,
           kind \in kinds => \A r \in m.flying : r.kind = kind => r.no \in later
    PROVE  HeardUnless(Unhear(m, kinds), kind, later)
BY UnhearJobs DEF HeardUnless

(* An answer is listened to as its request was.                             *)
LEMMA AnsweredHeard ==
    ASSUME NEW K, NEW O, NEW m \in Jobs(K, O), NEW r \in m.flying,
           NEW at \in JobStates, NEW on \in O, NEW kind,
           NEW gone, HeardUnless(m, kind, gone)
    PROVE  HeardUnless(Answered(m, r, at, on), kind, gone)
<1> DEFINE p == Answered(m, r, at, on)
           new == [no |-> r.no, kind |-> r.kind, on |-> on, at |-> at]
<1>1. p.flying = (m.flying \ {r}) \cup {new} /\ p.heard = m.heard
    BY AnsweredJobs
<1>2. new.no = r.no /\ new.kind = r.kind
    OBVIOUS
<1> HIDE DEF p, new
<1>3. HeardUnless(p, kind, gone)
    BY <1>1, <1>2 DEF HeardUnless
<1> QED
    BY <1>3 DEF p

(* Of one kind one is listened to, so the others go on being.               *)
LEMMA OverHeard ==
    ASSUME NEW K, NEW O, NEW m \in Jobs(K, O), NEW r \in m.flying, NEW kind \in K,
           NEW gone, HeardUnless(m, kind, gone)
    PROVE  HeardUnless(Over(m, r), kind, gone)
<1>1. /\ Over(m, r).flying = m.flying \ {r}
      /\ Over(m, r).heard[kind] =
             IF kind = r.kind /\ m.heard[kind] = r.no THEN 0 ELSE m.heard[kind]
    BY OverJobs
<1>2. \A s \in m.flying : s.no = r.no => s = r
    BY JobsParts
<1> QED
    BY <1>1, <1>2 DEF HeardUnless

(* The requests the API has yet to take.                                    *)
AskedOf(m) == {r \in m.flying : r.at = "asked"}

(* A press is one more.                                                     *)
LEMMA PressAsked ==
    ASSUME NEW K, NEW O, NEW m \in Jobs(K, O), NEW k \in K, NEW on \in O,
           IsFiniteSet(AskedOf(m))
    PROVE  /\ IsFiniteSet(AskedOf(Press(m, k, on)))
           /\ Cardinality(AskedOf(Press(m, k, on))) = Cardinality(AskedOf(m)) + 1
<1> DEFINE new == [no |-> m.count + 1, kind |-> k, on |-> on, at |-> "asked"]
<1>1. new.at = "asked" /\ new.no = m.count + 1
    OBVIOUS
<1>2. Press(m, k, on).flying = m.flying \cup {new}
    BY PressJobs
<1>3. m.count \in Nat /\ \A r \in m.flying : r.no <= m.count
    BY JobsParts
<1> HIDE DEF new
<1>4. AskedOf(Press(m, k, on)) = AskedOf(m) \cup {new} /\ new \notin AskedOf(m)
    BY <1>1, <1>2, <1>3 DEF AskedOf
<1> QED
    BY <1>4, FS_AddElement

(* An answer is one less.                                                   *)
LEMMA AnsweredAsked ==
    ASSUME NEW K, NEW O, NEW m \in Jobs(K, O), NEW r \in AskedOf(m),
           NEW at \in JobStates, at # "asked", NEW on \in O, IsFiniteSet(AskedOf(m))
    PROVE  /\ IsFiniteSet(AskedOf(Answered(m, r, at, on)))
           /\ Cardinality(AskedOf(Answered(m, r, at, on))) = Cardinality(AskedOf(m)) - 1
<1> DEFINE new == [no |-> r.no, kind |-> r.kind, on |-> on, at |-> at]
<1>1. new.at # "asked"
    OBVIOUS
<1>2. Answered(m, r, at, on).flying = (m.flying \ {r}) \cup {new}
    BY AnsweredJobs DEF AskedOf
<1> HIDE DEF new
<1>3. AskedOf(Answered(m, r, at, on)) = AskedOf(m) \ {r}
    BY <1>1, <1>2 DEF AskedOf
<1> QED
    BY <1>3, FS_RemoveElement

(* A request that is over is no more.                                       *)
LEMMA OverAsked ==
    ASSUME NEW K, NEW O, NEW m \in Jobs(K, O), NEW r \in m.flying, IsFiniteSet(AskedOf(m))
    PROVE  /\ IsFiniteSet(AskedOf(Over(m, r)))
           /\ Cardinality(AskedOf(Over(m, r))) \in Nat
           /\ Cardinality(AskedOf(Over(m, r))) <= Cardinality(AskedOf(m))
<1>1. Over(m, r).flying = m.flying \ {r}
    BY OverJobs
<1>2. AskedOf(Over(m, r)) \subseteq AskedOf(m)
    BY <1>1 DEF AskedOf
<1>3. IsFiniteSet(AskedOf(Over(m, r))) /\
      Cardinality(AskedOf(Over(m, r))) <= Cardinality(AskedOf(m))
    BY <1>2, FS_Subset
<1> QED
    BY <1>3, FS_CardinalityType

-----------------------------------------------------------------------------
(* The messages, and one send.                                              *)
Status == Moving \cup {"final"}

PostStates(n) == {NoPost, <<"asked">>, <<"refused">>} \cup {<<"taken", s>> : s \in 1 .. n}

SendDialogs(n) == [open : BOOLEAN, draft : 0 .. n, heard : 0 .. n, error : BOOLEAN]

(* What the dialog shows and hears of has not been dismissed.               *)
Undismissed == dialog.heard \notin dismissed /\ dialog.draft \notin dismissed

SendInv ==
    /\ view \in {"list", "send"} /\ (view = "send" => watched # 0)
    /\ drafts \in 0 .. MaxDrafts /\ dialog \in SendDialogs(drafts)
    /\ sends \in Seq(Status) /\ Len(sends) <= MaxSends
    /\ posts \in [Draft -> PostStates(Len(sends))]
    /\ offered \in 0 .. Len(sends) /\ watched \in 0 .. Len(sends) /\ list \in 0 .. Len(sends)
    /\ batch \in Entries(1 .. Len(sends), Status)
    /\ rows \in Status \cup {"none"}
    /\ dismissed \subseteq 1 .. drafts /\ Undismissed

(* A post that was taken names a send there is.                             *)
LEMMA PostParts ==
    ASSUME NEW n \in Nat, NEW p \in PostStates(n)
    PROVE  /\ p[1] \in {"none", "asked", "refused", "taken"}
           /\ p[1] = "taken" => p[2] \in 1 .. n
BY DEF PostStates, NoPost

(* A send begins queued, with nothing on the screen.                        *)
LEMMA SendStarts == SendInit => SendInv
<1> SUFFICES ASSUME SendInit PROVE SendInv
    OBVIOUS
<1>1. sends \in Seq(Status) /\ Len(sends) = 0
    BY DEF SendInit
<1>2. batch \in Entries(1 .. Len(sends), Status)
    BY EmptyEntry DEF SendInit
<1>3. posts \in [Draft -> PostStates(Len(sends))]
    BY <1>1 DEF SendInit, PostStates
<1>4. drafts \in 0 .. MaxDrafts /\ dialog \in SendDialogs(drafts)
    BY SendsAssumption DEF SendInit, Fresh, SendDialogs
<1>5. Undismissed /\ rows = "none" /\ view = "list"
    BY DEF SendInit, Undismissed, Fresh
<1> QED
    BY <1>1, <1>2, <1>3, <1>4, <1>5, SendsAssumption DEF SendInv, SendInit

(* The type invariant is part of it.                                        *)
LEMMA SendTyped == SendInv => SendTypeOK
<1> SUFFICES ASSUME SendInv PROVE SendTypeOK
    OBVIOUS
<1>1. Len(sends) \in Nat /\ DOMAIN sends = 1 .. Len(sends)
      /\ \A s \in 1 .. Len(sends) : sends[s] \in Status
    BY DEF SendInv
<1>2. \A d \in Draft : posts[d][1] \in {"none", "asked", "refused", "taken"}
    BY <1>1, PostParts DEF SendInv
<1>3. batch.data \in Datas(Status)
    BY EntryParts DEF SendInv
<1> QED
    BY <1>1, <1>2, <1>3 DEF SendInv, SendTypeOK, Datas, Status, SendDialogs

(* With another send there is more to ask about.                            *)
LEMMA SendsGrow ==
    ASSUME SendInv, sends' \in Seq(Status), Len(sends) <= Len(sends'), Len(sends') <= MaxSends,
           posts' \in [Draft -> PostStates(Len(sends'))],
           UNCHANGED <<view, dialog, drafts, offered, watched, list, batch, rows, dismissed>>
    PROVE  SendInv'
<1>1. Len(sends) \in Nat /\ Len(sends') \in Nat
    BY DEF SendInv
<1>2. batch \in Entries(1 .. Len(sends'), Status)
    BY <1>1, EntriesGrow DEF SendInv
<1>3. offered \in 0 .. Len(sends') /\ watched \in 0 .. Len(sends') /\ list \in 0 .. Len(sends')
    BY <1>1 DEF SendInv
<1> QED
    BY <1>1, <1>2, <1>3 DEF SendInv, Undismissed

(* The dialog, and nothing else, may have changed.                          *)
LEMMA DialogStep ==
    ASSUME SendInv, dialog' \in SendDialogs(drafts), dismissed' \subseteq 1 .. drafts,
           Undismissed',
           UNCHANGED <<view, drafts, sends, offered, watched, list, batch, rows>>,
           posts' \in [Draft -> PostStates(Len(sends))]
    PROVE  SendInv'
BY DEF SendInv

(* The queries change what the caches hold.                                 *)
LEMMA CacheStep ==
    ASSUME SendInv, UNCHANGED <<view, dialog, drafts, posts, sends, offered, watched, dismissed>>,
           list' \in 0 .. Len(sends), rows' \in Status \cup {"none"},
           batch' \in Entries(1 .. Len(sends), Status)
    PROVE  SendInv'
BY DEF SendInv, Undismissed

(* A fresh dialog shows nothing, and hears of nothing.                      *)
LEMMA FreshDialog ==
    ASSUME SendInv
    PROVE  /\ Fresh \in SendDialogs(drafts) /\ Fresh.heard = 0 /\ Fresh.draft = 0
           /\ 0 \notin dismissed
<1>1. drafts \in Nat /\ 0 \in 0 .. drafts /\ 0 \notin 1 .. drafts
    BY SendsAssumption DEF SendInv
<1> QED
    BY <1>1 DEF SendInv, Fresh, SendDialogs

(* Every step of the messages keeps the invariant.                          *)
LEMMA SendStep ==
    ASSUME SendInv, [SendNext]_sendVars
    PROVE  SendInv'
<1> DEFINE n == Len(sends)
<1>0. /\ n \in Nat /\ DOMAIN sends = 1 .. n
      /\ \A s \in 1 .. n : sends[s] \in Status
      /\ MaxDrafts \in Nat /\ MaxSends \in Nat
    BY SendsAssumption DEF SendInv
<1>1. CASE OpenDialog
    <2>1. dialog' \in SendDialogs(drafts) /\ Undismissed'
        BY <1>1 DEF OpenDialog, SendInv, SendDialogs, Undismissed
    <2> QED
        BY <1>1, <2>1, DialogStep DEF OpenDialog, SendInv
<1>2. CASE Type
    <2>1. drafts' \in 0 .. MaxDrafts /\ drafts' = drafts + 1
        BY <1>0, <1>2 DEF Type, SendInv
    <2>2. dialog' \in SendDialogs(drafts') /\ dismissed' \subseteq 1 .. drafts' /\ Undismissed'
        BY <1>0, <1>2, <2>1 DEF Type, SendInv, SendDialogs, Undismissed
    <2> QED
        BY <1>2, <2>1, <2>2 DEF Type, SendInv
<1>3. CASE SubmitSend
    <2>1. dialog' \in SendDialogs(drafts) /\ Undismissed'
        BY <1>3 DEF SubmitSend, SendInv, SendDialogs, Undismissed
    <2>2. posts' \in [Draft -> PostStates(n)]
        BY <1>3 DEF SubmitSend, SendInv, PostStates
    <2> QED
        BY <1>3, <2>1, <2>2, DialogStep DEF SubmitSend, SendInv
<1>4. CASE CancelDialog
    <2>1. dialog' \in SendDialogs(drafts) /\ Undismissed'
        BY <1>4 DEF CancelDialog, SendInv, SendDialogs, Undismissed
    <2> QED
        BY <1>4, <2>1, DialogStep DEF CancelDialog, SendInv
<1>5. CASE DismissDialog
    <2>1. dialog' = Fresh /\ Fresh \in SendDialogs(drafts)
        BY <1>5, FreshDialog DEF DismissDialog, Reset
    <2>2. dismissed' \subseteq 1 .. drafts
        <3>1. dialog.heard \in 0 .. drafts
            BY <1>0 DEF SendInv, SendDialogs
        <3>2. dialog.heard # 0 => dialog.heard \in 1 .. drafts
            BY <1>0, <3>1 DEF SendInv
        <3>3. dismissed' = dismissed \cup ({dialog.heard} \ {0})
            BY <1>5 DEF DismissDialog
        <3> QED
            BY <3>2, <3>3 DEF SendInv
    <2>3. Undismissed'
        BY <1>0, <2>1, <2>2 DEF Undismissed, Fresh, SendInv
    <2> QED
        BY <1>5, <2>1, <2>2, <2>3, DialogStep DEF DismissDialog, SendInv
<1>6. ASSUME NEW d \in Draft, TakePost(d) PROVE SendInv'
    <2>1. CASE posts' = [posts EXCEPT ![d] = <<"refused">>] /\ UNCHANGED sends
        <3>1. posts' \in [Draft -> PostStates(n)]
            BY <2>1 DEF SendInv, PostStates
        <3> QED
            BY <1>0, <1>6, <2>1, <3>1, SendsGrow DEF TakePost, SendInv
    <2>2. CASE /\ Len(sends) < MaxSends
               /\ sends' = Append(sends, "queued")
               /\ posts' = [posts EXCEPT ![d] = <<"taken", Len(sends) + 1>>]
        <3>1. sends' \in Seq(Status) /\ Len(sends') = n + 1
            <4>1. sends \in Seq(Status) /\ "queued" \in Status
                BY DEF SendInv, Status, Moving
            <4> QED
                BY <2>2, <4>1, AppendProperties
        <3>2. PostStates(n) \subseteq PostStates(n + 1) /\ <<"taken", n + 1>> \in PostStates(n + 1)
            BY <1>0 DEF PostStates
        <3>3. posts' \in [Draft -> PostStates(Len(sends'))]
            BY <2>2, <3>1, <3>2 DEF SendInv
        <3>4. Len(sends) <= Len(sends') /\ Len(sends') <= MaxSends
            BY <1>0, <2>2, <3>1
        <3> QED
            BY <1>6, <3>1, <3>3, <3>4, SendsGrow DEF TakePost
    <2> QED
        BY <1>6, <2>1, <2>2 DEF TakePost
<1>7. ASSUME NEW d \in Draft, PostAccepted(d) PROVE SendInv'
    <2>1. posts' \in [Draft -> PostStates(n)]
        BY <1>7 DEF PostAccepted, SendInv, PostStates
    <2>2. batch' \in Entries(1 .. n, Status) /\ list' \in 0 .. n
        <3>1. CASE view = "send" /\ batch' = Invalidate(batch, watched) /\ UNCHANGED list
            <4>1. watched \in 1 .. n /\ batch \in Entries(1 .. n, Status)
                BY <1>0, <3>1 DEF SendInv
            <4> QED
                BY <3>1, <4>1, AskEntry DEF SendInv
        <3>2. CASE UNCHANGED batch /\ list' \in {list, n}
            BY <1>0, <3>2 DEF SendInv
        <3> QED
            BY <1>7, <3>1, <3>2 DEF PostAccepted
    <2>3. dialog' \in {dialog, Fresh} /\ offered' \in 0 .. n
        <3>1. posts[d] \in PostStates(n) /\ posts[d][1] = "taken"
            BY <1>7 DEF PostAccepted, SendInv
        <3>2. posts[d][2] \in 0 .. n
            BY <1>0, <3>1, PostParts
        <3> QED
            BY <1>7, <3>2 DEF PostAccepted, Reset, SendInv
    <2>4. dialog' \in SendDialogs(drafts) /\ Undismissed'
        BY <1>7, <2>3, FreshDialog DEF PostAccepted, SendInv, Undismissed
    <2> QED
        BY <1>7, <2>1, <2>2, <2>3, <2>4 DEF PostAccepted, SendInv
<1>8. ASSUME NEW d \in Draft, PostFailed(d) PROVE SendInv'
    <2>1. posts' \in [Draft -> PostStates(n)]
        BY <1>8 DEF PostFailed, SendInv, PostStates
    <2>2. dialog' \in SendDialogs(drafts) /\ Undismissed'
        <3>1. CASE Hears(d)
            <4> DEFINE o == [dialog EXCEPT !.heard = 0, !.error = TRUE]
            <4>1. dialog \in SendDialogs(drafts) /\ 0 \in 0 .. drafts
                BY <1>0 DEF SendInv
            <4>2. o \in SendDialogs(drafts) /\ o.heard = 0 /\ o.draft = dialog.draft
                BY <4>1 DEF SendDialogs
            <4>3. dialog' = o
                BY <1>8, <3>1 DEF PostFailed
            <4> HIDE DEF o
            <4> QED
                BY <1>8, <4>2, <4>3, FreshDialog DEF PostFailed, SendInv, Undismissed
        <3>2. CASE ~Hears(d)
            BY <1>8, <3>2 DEF PostFailed, SendInv, Undismissed
        <3> QED
            BY <3>1, <3>2
    <2> QED
        BY <1>8, <2>1, <2>2, DialogStep DEF PostFailed, SendInv
<1>9. ASSUME NEW s \in 1 .. n, ShowSend(s) PROVE SendInv'
    <2>1. batch' \in Entries(1 .. n, Status)
        <3>1. Empty \in Entries(1 .. n, Status) /\ batch \in Entries(1 .. n, Status)
            BY EmptyEntry DEF SendInv
        <3> DEFINE q == IF s = watched THEN batch ELSE Empty
        <3>2. q \in Entries(1 .. n, Status) /\ batch' = Ask(q, s)
            BY <1>9, <3>1 DEF ShowSend
        <3> HIDE DEF q
        <3> QED
            BY <3>2, AskEntry
    <2>2. dialog' = Fresh /\ dialog' \in SendDialogs(drafts) /\ Undismissed'
        BY <1>9, FreshDialog DEF ShowSend, SendInv, Undismissed
    <2>3. rows' \in Status \cup {"none"} /\ watched' \in 0 .. n /\ watched' # 0 /\ view' = "send"
        BY <1>0, <1>9 DEF ShowSend, SendInv
    <2> QED
        BY <1>9, <2>1, <2>2, <2>3 DEF ShowSend, SendInv
<1>10. CASE FollowToast
    <2>1. offered \in 1 .. n
        BY <1>0, <1>10 DEF FollowToast, SendInv
    <2> QED
        BY <1>9, <1>10, <2>1 DEF FollowToast
<1>11. ASSUME NEW s \in DOMAIN sends, OpenRow(s) PROVE SendInv'
    BY <1>0, <1>9, <1>11 DEF OpenRow
<1>12. CASE BackToList
    BY <1>12 DEF BackToList, SendInv, Undismissed
<1>13. ASSUME NEW s \in DOMAIN sends, SendMoves(s) PROVE SendInv'
    <2>1. PICK to \in {"processing", "final"} : sends' = [sends EXCEPT ![s] = to]
        BY <1>13 DEF SendMoves
    <2>2. sends \in Seq(Status) /\ to \in Status /\ s \in 1 .. Len(sends)
        BY <1>0 DEF SendInv, Status, Moving
    <2>3. sends' \in Seq(Status) /\ Len(sends') = n
        BY <2>1, <2>2, ExceptSeq
    <2> QED
        BY <1>0, <1>13, <2>3, SendsGrow DEF SendMoves, SendInv
<1>14. CASE PollBatch \/ FocusBatch
    <2>1. watched \in 1 .. n /\ batch \in Entries(1 .. n, Status) /\ batch' = Ask(batch, watched)
        BY <1>0, <1>14 DEF PollBatch, FocusBatch, SendInv
    <2>2. batch' \in Entries(1 .. n, Status)
        BY <2>1, AskEntry
    <2> QED
        BY <1>14, <2>2, CacheStep DEF PollBatch, FocusBatch, SendInv
<1>15. CASE ServeBatch
    <2>1. batch \in Entries(1 .. n, Status) /\ IsAsked(batch)
        BY <1>15 DEF ServeBatch, SendInv
    <2>2. sends[batch.wire[2]] \in Status
        BY <1>0, <2>1, EntryParts
    <2>3. batch' \in Entries(1 .. n, Status)
        BY <1>15, <2>1, <2>2, ServeEntry DEF ServeBatch
    <2> QED
        BY <1>15, <2>3, CacheStep DEF ServeBatch, SendInv
<1>16. CASE BatchAnswered
    <2>1. batch' \in Entries(1 .. n, Status)
        BY <1>16, InstallEntry DEF BatchAnswered, SendInv
    <2> QED
        BY <1>16, <2>1, CacheStep DEF BatchAnswered, SendInv
<1>17. CASE BatchFails
    <2>1. batch' \in Entries(1 .. n, Status)
        BY <1>17, FailEntry DEF BatchFails, SendInv
    <2> QED
        BY <1>17, <2>1, CacheStep DEF BatchFails, SendInv
<1>18. CASE RowsRefresh
    <2>1. rows' \in Status
        BY <1>0, <1>18 DEF RowsRefresh, SendInv
    <2> QED
        BY <1>18, <2>1, CacheStep DEF RowsRefresh, SendInv
<1>19. CASE ListRefresh
    BY <1>0, <1>19, CacheStep DEF ListRefresh, SendInv
<1>20. CASE UNCHANGED sendVars
    BY <1>20 DEF sendVars, SendInv, Undismissed
<1> QED
    BY <1>1, <1>2, <1>3, <1>4, <1>5, <1>6, <1>7, <1>8, <1>10, <1>11, <1>12, <1>13, <1>14,
       <1>15, <1>16, <1>17, <1>18, <1>19, <1>20 DEF SendNext

(* Answers to posts that were dismissed are not heard.                      *)
LEMMA DismissedUnheard ==
    ASSUME SendInv, NEW d \in dismissed, PostAccepted(d) \/ PostFailed(d)
    PROVE  dialog' = dialog
<1>1. ~Hears(d)
    BY DEF SendInv, Undismissed, Hears
<1> QED
    BY <1>1 DEF PostAccepted, PostFailed

-----------------------------------------------------------------------------
(* One phone.                                                               *)
Texts == [Field -> Value]
Forms == [at : {"shown"}, text : Texts, seen : Row, moved : BOOLEAN]

Saves == {<<"idle">>, <<"taken">>} \cup {<<"asked", "fields", t>> : t \in Texts}
         \cup {<<"asked", "enabled", b>> : b \in BOOLEAN}

(* A form on the screen has seen the row that is in the cache.              *)
FormFits(f, q) == f = NoFields \/ (f \in Forms /\ q.data = <<f.seen>>)

DeviceInv ==
    /\ row \in Row /\ changes \in 0 .. MaxChanges
    /\ device \in Entries({0}, Row)
    /\ FormFits(form, device)
    /\ saving \in Saves /\ defaulting \in {"idle", "asked", "taken"}
    /\ unpairing \in {"closed", "open", "asked", "taken", "gone"}

(* A form's parts; one that is on the screen is not the missing one.        *)
LEMMA FormParts ==
    ASSUME NEW f \in Forms
    PROVE  /\ f.at = "shown" /\ f.text \in Texts /\ f.seen \in Row /\ f.moved \in BOOLEAN
           /\ f.seen.fields \in Texts /\ f # NoFields
<1>1. f.at = "shown" /\ f.text \in Texts /\ f.seen \in Row /\ f.moved \in BOOLEAN
    BY DEF Forms
<1>2. f.seen.fields \in Texts
    BY <1>1 DEF Row, Texts
<1>3. NoFields.at = "away"
    BY DEF NoFields
<1> QED
    BY <1>1, <1>2, <1>3

(* The page of a phone begins without the row.                              *)
LEMMA DeviceStarts == DeviceInit => DeviceInv
<1> SUFFICES ASSUME DeviceInit PROVE DeviceInv
    OBVIOUS
<1>1. device \in Entries({0}, Row)
    <2>1. Empty \in Entries({0}, Row) /\ 0 \in {0}
        BY EmptyEntry
    <2> QED
        BY <2>1, AskEntry DEF DeviceInit
<1>2. 0 \in 0 .. MaxChanges
    BY DeviceAssumption
<1> QED
    BY <1>1, <1>2 DEF DeviceInit, DeviceInv, FormFits, Saves

(* The type invariant is part of it.                                        *)
LEMMA DeviceTyped == DeviceInv => DeviceTypeOK
<1> SUFFICES ASSUME DeviceInv PROVE DeviceTypeOK
    OBVIOUS
<1>1. HasData(device) => device.data[1] \in Row
    BY EntryParts DEF DeviceInv
<1>2. saving[1] \in {"idle", "asked", "taken"}
    BY DEF DeviceInv, Saves
<1>3. CASE form = NoFields
    <2>1. form.at = "away"
        BY <1>3 DEF NoFields
    <2> QED
        BY <1>1, <1>2, <2>1 DEF DeviceInv, DeviceTypeOK
<1>4. CASE form \in Forms /\ device.data = <<form.seen>>
    <2>1. HasData(device) /\ form.seen = device.data[1]
        BY <1>4 DEF HasData
    <2>2. form.at = "shown" /\ form.text \in [Field -> Value] /\ form.moved \in BOOLEAN
        BY <1>4, FormParts DEF Texts
    <2> QED
        BY <1>1, <1>2, <2>1, <2>2 DEF DeviceInv, DeviceTypeOK
<1> QED
    BY <1>3, <1>4 DEF DeviceInv, FormFits

(* The parts of a form that a row was merged into.                          *)
LEMMA MergeForm ==
    ASSUME NEW f \in Forms, NEW r \in Row
    PROVE  /\ Merge(f, r) \in Forms /\ Merge(f, r).seen = r
           /\ \A x \in Field : f.text[x] # f.seen.fields[x] =>
                  /\ Merge(f, r).text[x] = f.text[x]
                  /\ r.fields[x] # f.seen.fields[x] => Merge(f, r).moved
<1> DEFINE edited == {x \in Field : f.text[x] # f.seen.fields[x]}
           text == [x \in Field |-> IF x \in edited THEN f.text[x] ELSE r.fields[x]]
           warn == \E x \in edited : r.fields[x] # f.seen.fields[x]
           moved == f.moved \/ warn
           g == [f EXCEPT !.text = text, !.moved = moved, !.seen = r]
<1>1. r.fields \in Texts /\ f.text \in Texts
    BY FormParts DEF Row, Texts
<1>2. text \in Texts
    BY <1>1 DEF Texts
<1>3. moved \in BOOLEAN
    OBVIOUS
<1>4. Merge(f, r) = g
    BY DEF Merge
<1>5. \A x \in Field : f.text[x] # f.seen.fields[x] =>
          text[x] = f.text[x] /\ (r.fields[x] # f.seen.fields[x] => moved)
    OBVIOUS
<1> HIDE DEF text, moved
<1>6. g \in Forms /\ g.seen = r /\ g.text = text /\ g.moved = moved
    BY <1>2, <1>3 DEF Forms
<1> HIDE DEF g
<1> QED
    BY <1>4, <1>5, <1>6

(* What the page shows of a row fits the cache.                             *)
LEMMA RenderForm ==
    ASSUME form = NoFields \/ form \in Forms, NEW q \in Entries({0}, Row)
    PROVE  FormFits(Render(q), q)
<1>1. CASE q.failed \/ ~HasData(q) \/ unpairing = "gone"
    BY <1>1 DEF Render, FormFits
<1>2. CASE ~(q.failed \/ ~HasData(q) \/ unpairing = "gone")
    <2>1. q.data[1] \in Row /\ q.data = <<q.data[1]>>
        BY <1>2, EntryParts
    <2>2. CASE form = NoFields
        <3>1. Mounted(q.data[1]) \in Forms /\ Mounted(q.data[1]).seen = q.data[1]
            BY <2>1 DEF Mounted, Forms, Row, Texts
        <3> QED
            BY <1>2, <2>1, <2>2, <3>1 DEF Render, FormFits
    <2>3. CASE form # NoFields /\ q.data[1] # form.seen
        BY <1>2, <2>1, <2>3, MergeForm DEF Render, FormFits
    <2>4. CASE form # NoFields /\ q.data[1] = form.seen
        BY <1>2, <2>1, <2>4 DEF Render, FormFits
    <2> QED
        BY <2>2, <2>3, <2>4
<1> QED
    BY <1>1, <1>2

(* Every step of the page of a phone keeps the invariant.                   *)
LEMMA DeviceStep ==
    ASSUME DeviceInv, [DeviceNext]_deviceVars
    PROVE  DeviceInv'
<1>0. device \in Entries({0}, Row) /\ (form = NoFields \/ form \in Forms) /\ 0 \in {0}
    BY DEF DeviceInv, FormFits
<1>e. ASSUME form.at = "shown" PROVE form \in Forms /\ device.data = <<form.seen>>
    BY <1>0, <1>e DEF DeviceInv, FormFits, NoFields
<1>1. ASSUME NEW x \in Field, NEW v \in Value, Edit(x, v) PROVE DeviceInv'
    <2>1. form \in Forms /\ form.text \in Texts
        BY <1>1, <1>e, FormParts DEF Edit
    <2> DEFINE t == [form.text EXCEPT ![x] = v]
    <2>2. t \in Texts
        BY <2>1 DEF Texts
    <2>3. form' = [form EXCEPT !.text = t]
        BY <1>1 DEF Edit
    <2> HIDE DEF t
    <2>4. form' \in Forms /\ form'.seen = form.seen
        BY <2>1, <2>2, <2>3 DEF Forms
    <2> QED
        BY <1>1, <1>e, <2>4 DEF Edit, DeviceInv, FormFits
<1>2. CASE Save
    <2>1. form \in Forms /\ form.text \in Texts
        BY <1>2, <1>e, FormParts DEF Save
    <2>2. form' \in Forms /\ form'.seen = form.seen
        BY <1>2, <2>1 DEF Save, Forms
    <2>3. saving' \in Saves
        BY <1>2, <2>1 DEF Save, Saves
    <2> QED
        BY <1>2, <1>e, <2>2, <2>3 DEF Save, DeviceInv, FormFits
<1>3. CASE Switch
    <2> DEFINE b == ~form.seen.enabled
    <2>1. b \in BOOLEAN /\ saving' = <<"asked", "enabled", b>>
        BY <1>3 DEF Switch
    <2> HIDE DEF b
    <2>2. saving' \in Saves
        BY <2>1 DEF Saves
    <2> QED
        BY <1>3, <2>2 DEF Switch, DeviceInv
<1>4. CASE TakeSave
    <2>1. row' \in Row
        <3>1. CASE \E t \in Texts : saving = <<"asked", "fields", t>>
            <4>1. PICK t \in Texts : saving = <<"asked", "fields", t>>
                BY <3>1
            <4>2. row' = [row EXCEPT !.fields = t]
                BY <1>4, <4>1 DEF TakeSave
            <4> QED
                BY <4>1, <4>2 DEF DeviceInv, Row, Texts
        <3>2. CASE \E b \in BOOLEAN : saving = <<"asked", "enabled", b>>
            <4>1. PICK b \in BOOLEAN : saving = <<"asked", "enabled", b>>
                BY <3>2
            <4>2. row' = [row EXCEPT !.enabled = b]
                BY <1>4, <4>1 DEF TakeSave
            <4> QED
                BY <4>1, <4>2 DEF DeviceInv, Row
        <3> QED
            BY <1>4, <3>1, <3>2 DEF TakeSave, DeviceInv, Saves
    <2> QED
        BY <1>4, <2>1 DEF TakeSave, DeviceInv, Saves
<1>5. CASE SaveArrives
    <2>1. device' \in Entries({0}, Row) /\ device'.data = device.data
        BY <1>0, <1>5, AskEntry DEF SaveArrives, AskAgain
    <2> QED
        BY <1>5, <2>1 DEF SaveArrives, DeviceInv, FormFits, Saves
<1>6. CASE SaveFails
    BY <1>6 DEF SaveFails, DeviceInv, Saves
<1>7. CASE DeviceRefetch
    <2>1. device' \in Entries({0}, Row) /\ device'.data = device.data
        BY <1>0, <1>7, AskEntry DEF DeviceRefetch
    <2> QED
        BY <1>7, <2>1 DEF DeviceRefetch, DeviceInv, FormFits
<1>8. CASE ServeDevice
    <2>1. device' \in Entries({0}, Row) /\ device'.data = device.data
        BY <1>0, <1>8, ServeEntry DEF ServeDevice, DeviceInv
    <2> QED
        BY <1>8, <2>1 DEF ServeDevice, DeviceInv, FormFits
<1>9. CASE DeviceAnswered
    <2>1. device' \in Entries({0}, Row) /\ form' = Render(device')
        BY <1>0, <1>9, InstallEntry DEF DeviceAnswered
    <2>2. FormFits(form', device')
        <3>1. \A q \in Entries({0}, Row) : FormFits(Render(q), q)
            BY <1>0, RenderForm
        <3> QED
            BY <2>1, <3>1
    <2> QED
        BY <1>9, <2>1, <2>2 DEF DeviceAnswered, DeviceInv
<1>10. CASE DeviceFails
    <2>1. device' \in Entries({0}, Row) /\ form' = Render(device')
        BY <1>0, <1>10, FailEntry DEF DeviceFails
    <2>2. FormFits(form', device')
        <3>1. \A q \in Entries({0}, Row) : FormFits(Render(q), q)
            BY <1>0, RenderForm
        <3> QED
            BY <2>1, <3>1
    <2> QED
        BY <1>10, <2>1, <2>2 DEF DeviceFails, DeviceInv
<1>11. CASE ChangedElsewhere
    <2>1. changes' \in 0 .. MaxChanges
        BY <1>11, DeviceAssumption DEF ChangedElsewhere, DeviceInv
    <2>2. PICK x \in Field, v \in Value : row' = [row EXCEPT !.fields[x] = v]
        BY <1>11 DEF ChangedElsewhere
    <2>3. row' \in Row
        BY <2>2 DEF DeviceInv, Row
    <2> QED
        BY <1>11, <2>1, <2>3 DEF ChangedElsewhere, DeviceInv
<1>12. CASE OpenUnpair \/ CloseUnpair \/ Unpair \/ TakeUnpair \/ UnpairFails
    BY <1>12 DEF OpenUnpair, CloseUnpair, Unpair, TakeUnpair, UnpairFails, DeviceInv
<1>13. CASE UnpairArrives
    BY <1>13 DEF UnpairArrives, DeviceInv, FormFits
<1>14. CASE MakeDefault \/ DefaultFails
    BY <1>14 DEF MakeDefault, DefaultFails, DeviceInv
<1>15. CASE TakeDefault
    <2>1. row' \in Row
        BY <1>15 DEF TakeDefault, DeviceInv, Row
    <2> QED
        BY <1>15, <2>1 DEF TakeDefault, DeviceInv
<1>16. CASE DefaultArrives
    <2>1. device' \in Entries({0}, Row) /\ device'.data = device.data
        BY <1>0, <1>16, AskEntry DEF DefaultArrives, AskAgain
    <2> QED
        BY <1>16, <2>1 DEF DefaultArrives, DeviceInv, FormFits
<1>17. CASE UNCHANGED deviceVars
    BY <1>17 DEF deviceVars, DeviceInv
<1> QED
    BY <1>1, <1>2, <1>3, <1>4, <1>5, <1>6, <1>7, <1>8, <1>9, <1>10, <1>11, <1>12, <1>13, <1>14,
       <1>15, <1>16, <1>17 DEF DeviceNext

(* A row that arrives leaves what is being edited, and says that it moved.  *)
LEMMA EditedStays ==
    ASSUME DeviceInv, DeviceAnswered, form.at = "shown", form'.at = "shown",
           NEW x \in Field, form.text[x] # form.seen.fields[x]
    PROVE  /\ form'.text[x] = form.text[x]
           /\ form'.seen.fields[x] # form.seen.fields[x] => form'.moved
<1>1. form \in Forms /\ form # NoFields
    BY FormParts DEF DeviceInv, FormFits, NoFields
<1>2. device' \in Entries({0}, Row) /\ HasData(device') /\ form' = Render(device')
    BY InstallEntry DEF DeviceInv, DeviceAnswered
<1>3. device'.data[1] \in Row
    BY <1>2, EntryParts
<1>4. form' # NoFields
    BY DEF NoFields
<1>5. form' = IF device'.data[1] # form.seen THEN Merge(form, device'.data[1]) ELSE form
    BY <1>1, <1>2, <1>4 DEF Render
<1>6. CASE device'.data[1] # form.seen
    BY <1>1, <1>3, <1>5, <1>6, MergeForm
<1>7. CASE device'.data[1] = form.seen
    BY <1>5, <1>7
<1> QED
    BY <1>6, <1>7

-----------------------------------------------------------------------------
(* The list of phones, and the dialog that pairs another.                   *)
CodeStates == {"waiting", "used", "expired"}

PairWires(n) == {<<"closed">>, <<"idle">>, <<"asked">>} \cup {<<"made", c>> : c \in 1 .. n}

PairDialogs(n) == [shows : 0 .. n, wire : PairWires(n)]

PairInv ==
    /\ codes \in Seq(CodeStates) /\ Len(codes) <= MaxCodes
    /\ pairing \in PairDialogs(Len(codes))
    /\ watch \in Entries(1 .. Len(codes), CodeStates)
    /\ phones \in 0 .. Cardinality(Used)

(* The codes that are used are numbered, so they can be counted.            *)
LEMMA UsedCount ==
    ASSUME codes \in Seq(CodeStates)
    PROVE  IsFiniteSet(Used) /\ Cardinality(Used) \in Nat
<1>1. Len(codes) \in Nat /\ Used \subseteq 1 .. Len(codes)
    BY DEF Used
<1>2. IsFiniteSet(1 .. Len(codes))
    BY <1>1, FS_Interval
<1>3. IsFiniteSet(Used)
    BY <1>1, <1>2, FS_Subset
<1> QED
    BY <1>3, FS_CardinalityType

(* The page of the phones begins without a code.                            *)
LEMMA PairStarts == PairInit => PairInv
<1> SUFFICES ASSUME PairInit PROVE PairInv
    OBVIOUS
<1>1. codes \in Seq(CodeStates) /\ Len(codes) = 0
    BY DEF PairInit
<1>2. watch \in Entries(1 .. Len(codes), CodeStates)
    BY EmptyEntry DEF PairInit
<1>3. phones \in 0 .. Cardinality(Used)
    BY <1>1, UsedCount DEF PairInit
<1>4. pairing \in PairDialogs(Len(codes))
    BY <1>1 DEF PairInit, PairDialogs, PairWires
<1> QED
    BY <1>1, <1>2, <1>3, <1>4, CodesAssumption DEF PairInv

(* The type invariant is part of it.                                        *)
LEMMA PairTyped == PairInv => PairTypeOK
<1> SUFFICES ASSUME PairInv PROVE PairTypeOK
    OBVIOUS
<1>1. \A c \in DOMAIN codes : codes[c] \in {"waiting", "used", "expired"}
    BY DEF PairInv, CodeStates
<1>2. watch.data \in Datas(CodeStates)
    BY EntryParts DEF PairInv
<1>3. pairing.shows \in 0 .. Len(codes) /\ pairing.wire \in PairWires(Len(codes))
    BY DEF PairInv, PairDialogs
<1>4. pairing.wire[1] \in {"closed", "idle", "asked", "made"}
    BY <1>3 DEF PairWires
<1> QED
    BY <1>1, <1>2, <1>3, <1>4 DEF PairInv, PairTypeOK, Datas, CodeStates

(* Codes are added, and may come to be used.                                *)
LEMMA CodesGrow ==
    ASSUME PairInv, codes' \in Seq(CodeStates), Len(codes) <= Len(codes'),
           Len(codes') <= MaxCodes, Used \subseteq Used',
           pairing' \in PairDialogs(Len(codes')), UNCHANGED <<watch, phones>>
    PROVE  PairInv'
<1>1. Len(codes) \in Nat /\ Len(codes') \in Nat
    BY DEF PairInv
<1>2. watch \in Entries(1 .. Len(codes'), CodeStates)
    BY <1>1, EntriesGrow DEF PairInv
<1>3. IsFiniteSet(Used') /\ Cardinality(Used') \in Nat
    <2>1. Used' \subseteq 1 .. Len(codes')
        BY <1>1 DEF Used
    <2>2. IsFiniteSet(1 .. Len(codes'))
        BY <1>1, FS_Interval
    <2>3. IsFiniteSet(Used')
        BY <2>1, <2>2, FS_Subset
    <2> QED
        BY <2>3, FS_CardinalityType
<1>4. Cardinality(Used) \in Nat /\ Cardinality(Used) <= Cardinality(Used')
    BY <1>3, FS_Subset, UsedCount DEF PairInv
<1>5. phones' \in 0 .. Cardinality(Used')
    BY <1>3, <1>4 DEF PairInv
<1> QED
    BY <1>2, <1>5 DEF PairInv

(* What the page does with the codes it has.                                *)
LEMMA PhonesStep ==
    ASSUME PairInv, UNCHANGED codes, pairing' \in PairDialogs(Len(codes)),
           watch' \in Entries(1 .. Len(codes), CodeStates), phones' \in 0 .. Cardinality(Used)
    PROVE  PairInv'
<1>1. Used' = Used
    BY DEF Used
<1> QED
    BY <1>1 DEF PairInv

(* Every step of the page keeps the invariant.                              *)
LEMMA PairStep ==
    ASSUME PairInv, [PairNext]_pairVars
    PROVE  PairInv'
<1> DEFINE n == Len(codes)
           Watched == Entries(1 .. n, CodeStates)
<1>0. /\ n \in Nat /\ DOMAIN codes = 1 .. n /\ codes \in Seq(CodeStates)
      /\ \A c \in 1 .. n : codes[c] \in CodeStates
      /\ watch \in Watched /\ phones \in 0 .. Cardinality(Used)
      /\ Cardinality(Used) \in Nat /\ Empty \in Watched
      /\ pairing \in PairDialogs(n)
    BY UsedCount, EmptyEntry DEF PairInv
<1>1. \A w \in {<<"closed">>, <<"idle">>, <<"asked">>} :
          [shows |-> 0, wire |-> w] \in PairDialogs(n)
    BY <1>0 DEF PairDialogs, PairWires
<1>2. CASE OpenPair \/ NewCode
    <2>1. AskForCode
        BY <1>2 DEF OpenPair, NewCode
    <2> QED
        BY <1>0, <1>1, <2>1, PhonesStep DEF AskForCode
<1>3. CASE ClosePair
    BY <1>0, <1>1, <1>3, PhonesStep DEF ClosePair
<1>4. CASE MakeCode
    <2>1. "waiting" \in CodeStates /\ codes' = Append(codes, "waiting")
        BY <1>4 DEF MakeCode, CodeStates
    <2>2. /\ codes' \in Seq(CodeStates) /\ Len(codes') = n + 1
          /\ \A c \in 1 .. n : codes'[c] = codes[c]
        BY <1>0, <2>1, AppendProperties
    <2>3. Used \subseteq Used'
        BY <1>0, <2>2 DEF Used
    <2>4. n <= Len(codes') /\ Len(codes') <= MaxCodes
        BY <1>0, <1>4, <2>2, CodesAssumption DEF MakeCode
    <2>5. pairing' \in PairDialogs(n + 1)
        <3>1. <<"made", n + 1>> \in PairWires(n + 1)
            BY <1>0 DEF PairWires
        <3>2. pairing' = [pairing EXCEPT !.wire = <<"made", n + 1>>]
            BY <1>4 DEF MakeCode
        <3> QED
            BY <1>0, <3>1, <3>2 DEF PairDialogs
    <2> QED
        BY <1>4, <2>2, <2>3, <2>4, <2>5, CodesGrow DEF MakeCode
<1>5. CASE CodeArrives
    <2>1. pairing.wire[2] \in 1 .. n
        BY <1>0, <1>5 DEF CodeArrives, PairDialogs, PairWires
    <2>2. Ask(Empty, pairing.wire[2]) \in Watched
        BY <1>0, <2>1, AskEntry
    <2>3. [shows |-> pairing.wire[2], wire |-> <<"idle">>] \in PairDialogs(n)
        BY <1>0, <2>1 DEF PairDialogs, PairWires
    <2> QED
        BY <1>0, <1>5, <2>2, <2>3, PhonesStep DEF CodeArrives
<1>6. CASE CodeFails
    BY <1>0, <1>1, <1>6, PhonesStep DEF CodeFails
<1>7. CASE PollCode
    <2>1. pairing.shows \in 1 .. n
        BY <1>0, <1>7 DEF PollCode, Watches, PairDialogs
    <2>2. watch' \in Watched
        BY <1>0, <1>7, <2>1, AskEntry DEF PollCode
    <2> QED
        BY <1>0, <1>7, <2>2, PhonesStep DEF PollCode
<1>8. CASE ServeCode
    <2>1. codes[watch.wire[2]] \in CodeStates
        BY <1>0, <1>8, EntryParts DEF ServeCode
    <2>2. watch' \in Watched
        BY <1>0, <1>8, <2>1, ServeEntry DEF ServeCode
    <2> QED
        BY <1>0, <1>8, <2>2, PhonesStep DEF ServeCode
<1>9. CASE WatchAnswered
    <2>1. watch' \in Watched
        BY <1>0, <1>9, InstallEntry DEF WatchAnswered
    <2>2. phones' \in {phones, Cardinality(Used)}
        BY <1>9 DEF WatchAnswered
    <2> QED
        BY <1>0, <1>9, <2>1, <2>2, PhonesStep DEF WatchAnswered
<1>10. CASE WatchFails
    <2>1. watch' \in Watched
        BY <1>0, <1>10, FailEntry DEF WatchFails
    <2> QED
        BY <1>0, <1>10, <2>1, PhonesStep DEF WatchFails
<1>11. CASE PhonesRefresh
    BY <1>0, <1>11, PhonesStep DEF PhonesRefresh
<1>12. ASSUME NEW c \in DOMAIN codes, PhoneUses(c) \/ CodeExpires(c)
       PROVE  PairInv'
    <2>1. PICK to \in CodeStates : codes' = [codes EXCEPT ![c] = to]
        BY <1>12 DEF PhoneUses, CodeExpires, CodeStates
    <2>2. /\ codes' \in Seq(CodeStates) /\ Len(codes') = n
          /\ \A k \in 1 .. n : codes'[k] = IF k = c THEN to ELSE codes[k]
        BY <1>0, <2>1, ExceptSeq
    <2>3. codes[c] = "waiting"
        BY <1>12 DEF PhoneUses, CodeExpires
    <2>4. Used \subseteq Used'
        BY <1>0, <2>2, <2>3 DEF Used
    <2>5. n <= Len(codes') /\ Len(codes') <= MaxCodes /\ pairing' \in PairDialogs(Len(codes'))
        BY <1>0, <1>12, <2>2 DEF PhoneUses, CodeExpires, PairInv
    <2> QED
        BY <1>12, <2>2, <2>4, <2>5, CodesGrow DEF PhoneUses, CodeExpires
<1>13. CASE UNCHANGED pairVars
    BY <1>0, <1>13, PhonesStep DEF pairVars
<1> QED
    BY <1>2, <1>3, <1>4, <1>5, <1>6, <1>7, <1>8, <1>9, <1>10, <1>11, <1>12, <1>13 DEF PairNext

-----------------------------------------------------------------------------
(* The keys.                                                                *)
KeyStates == {"active", "revoked", "deleted"}
MakingStates(n) == [open : BOOLEAN, shows : 0 .. n]
AskingStates(n) == [key : 0 .. n, what : {"rename"} \cup Ends]

(* The dialog that asked for a key is open and waits for it.                *)
FormAwaitsKey == Pending(keyJobs, "create") => making.open /\ making.shows = 0

KeyInv ==
    /\ keys \in Seq(KeyStates) /\ Len(keys) <= MaxKeys
    /\ keyList \in Seq(KeyStates) /\ Len(keyList) <= Len(keys)
    /\ keyJobs \in Jobs(KeyKinds, 0 .. Len(keys))
    /\ making \in MakingStates(Len(keys)) /\ asking \in AskingStates(Len(keys))
    /\ given \subseteq 1 .. keyJobs.count
    /\ HeardUnless(keyJobs, "create", given) /\ FormAwaitsKey

(* The page of the keys begins without a request.                           *)
LEMMA KeyStarts == KeyInit => KeyInv
<1> SUFFICES ASSUME KeyInit PROVE KeyInv
    OBVIOUS
<1>1. /\ keys \in Seq(KeyStates) /\ Len(keys) \in Nat /\ Len(keys) <= MaxKeys
      /\ keyList \in Seq(KeyStates) /\ Len(keyList) = 0
    <2>1. /\ <<>> \in Seq(KeyStates) /\ Len(<<>>) = 0
          /\ <<"active">> \in Seq(KeyStates) /\ Len(<<"active">>) = 1
        BY DEF KeyStates
    <2>2. keyList = <<>> /\ keys \in {<<>>, <<"active">>}
        BY DEF KeyInit
    <2>3. CASE keys = <<>>
        BY <2>1, <2>2, <2>3, KeysAssumption
    <2>4. CASE keys = <<"active">>
        <3>1. Len(keys) = 1 /\ keys \in Seq(KeyStates)
            BY <2>1, <2>4, Zenon
        <3>2. Len(keyList) = 0 /\ keyList \in Seq(KeyStates)
            BY <2>1, <2>2, Zenon
        <3> QED
            BY <3>1, <3>2, KeysAssumption
    <2> QED
        BY <2>2, <2>3, <2>4
<1>2. keyJobs \in Jobs(KeyKinds, 0 .. Len(keys))
    BY NoJobs DEF KeyInit
<1>3. /\ keyJobs.flying = {} /\ keyJobs.heard["create"] = 0 /\ keyJobs.count = 0
    BY DEF KeyInit, NoRequests, KeyKinds
<1>4. making \in MakingStates(Len(keys)) /\ asking \in AskingStates(Len(keys))
    BY <1>1 DEF KeyInit, MakingStates, AskingStates, NoKey
<1>5. HeardUnless(keyJobs, "create", given) /\ FormAwaitsKey
    BY <1>3 DEF HeardUnless, FormAwaitsKey, Pending
<1> QED
    BY <1>1, <1>2, <1>4, <1>5 DEF KeyInit, KeyInv

(* The type invariant is part of it.                                        *)
LEMMA KeyTyped == KeyInv => KeyTypeOK
<1> SUFFICES ASSUME KeyInv PROVE KeyTypeOK
    OBVIOUS
<1>1. ASSUME NEW r \in keyJobs.flying
      PROVE  r.no \in 1 .. keyJobs.count /\ r.kind \in KeyKinds /\ r.on \in 0 .. Len(keys)
    BY <1>1, JobsParts DEF KeyInv, Requests
<1>2. \A k \in DOMAIN keys : keys[k] \in {"active", "revoked", "deleted"}
    BY DEF KeyInv, KeyStates
<1> QED
    BY <1>1, <1>2 DEF KeyInv, KeyTypeOK, MakingStates, AskingStates

(* Requests of the page that keep what is listened to.                      *)
LEMMA KeyJobsStep ==
    ASSUME KeyInv, UNCHANGED <<keys, keyList>>,
           keyJobs' \in Jobs(KeyKinds, 0 .. Len(keys)), keyJobs.count <= keyJobs'.count,
           making' \in MakingStates(Len(keys)), asking' \in AskingStates(Len(keys)),
           given' \subseteq 1 .. keyJobs'.count,
           HeardUnless(keyJobs', "create", given'), FormAwaitsKey'
    PROVE  KeyInv'
BY DEF KeyInv

(* Every step of the page of the keys keeps the invariant.                  *)
LEMMA KeyStep ==
    ASSUME KeyInv, [KeyNext]_keyVars
    PROVE  KeyInv'
<1> DEFINE n == Len(keys)
           J == Jobs(KeyKinds, 0 .. n)
<1>0. /\ n \in Nat /\ DOMAIN keys = 1 .. n /\ keys \in Seq(KeyStates)
      /\ Len(keyList) \in Nat /\ DOMAIN keyList = 1 .. Len(keyList) /\ Len(keyList) <= n
      /\ keyJobs \in J /\ "create" \in KeyKinds
      /\ making \in MakingStates(n) /\ asking \in AskingStates(n)
      /\ HeardUnless(keyJobs, "create", given) /\ FormAwaitsKey
      /\ keyJobs.count \in Nat /\ given \subseteq 1 .. keyJobs.count
      /\ keyJobs.heard \in [KeyKinds -> Nat]
    BY JobsParts DEF KeyInv, KeyKinds
<1>n. NoKey \in AskingStates(n) /\ [open |-> FALSE, shows |-> 0] \in MakingStates(n)
    BY <1>0 DEF NoKey, AskingStates, MakingStates
<1>1. CASE OpenMaking
    <2>1. making' \in MakingStates(n) /\ making'.open /\ making'.shows = making.shows
        BY <1>0, <1>1 DEF OpenMaking, MakingStates
    <2>2. FormAwaitsKey'
        BY <1>0, <1>1, <2>1 DEF OpenMaking, FormAwaitsKey
    <2> QED
        BY <1>1, <2>1, <2>2 DEF OpenMaking, KeyInv
<1>2. CASE CreateKey
    <2>1. 0 \in 0 .. n /\ keyJobs' = Press(keyJobs, "create", 0)
        BY <1>0, <1>2 DEF CreateKey
    <2>2. keyJobs' \in J /\ keyJobs'.count = keyJobs.count + 1
        BY <1>0, <2>1, PressJobs
    <2>3. keyJobs.heard["create"] = 0
        BY <1>2 DEF CreateKey, MayCreate, Pending
    <2>4. HeardUnless(keyJobs', "create", given)
        BY <1>0, <2>1, <2>3, PressHeard
    <2>5. FormAwaitsKey'
        BY <1>2 DEF CreateKey, MayCreate, FormAwaitsKey
    <2>6. given' \subseteq 1 .. keyJobs'.count
        BY <1>0, <1>2, <2>2 DEF CreateKey
    <2> QED
        BY <1>0, <1>2, <2>2, <2>4, <2>5, <2>6 DEF CreateKey, KeyInv
<1>3. CASE CloseMaking
    <2>1. keyJobs' = Unhear(keyJobs, {"create"})
        BY <1>3 DEF CloseMaking
    <2>2. keyJobs' \in J /\ keyJobs'.count = keyJobs.count /\ keyJobs'.heard["create"] = 0
        BY <1>0, <2>1, UnhearJobs
    <2>3. given' = given \cup {r.no : r \in {f \in keyJobs.flying : f.kind = "create"}}
        BY <1>3 DEF CloseMaking
    <2>4. given \subseteq given' /\ \A r \in keyJobs.flying : r.kind = "create" => r.no \in given'
        BY <2>3
    <2>5. HeardUnless(keyJobs', "create", given')
        BY <1>0, <2>1, <2>4, UnhearHeard
    <2>6. given' \subseteq 1 .. keyJobs.count
        BY <1>0, <2>3, JobsParts
    <2>7. FormAwaitsKey'
        BY <2>2 DEF FormAwaitsKey, Pending
    <2> QED
        BY <1>n, <1>3, <2>2, <2>5, <2>6, <2>7 DEF CloseMaking, KeyInv
<1>4. CASE DropAsking
    BY <1>n, <1>4 DEF DropAsking, KeyInv, FormAwaitsKey
<1>5. ASSUME NEW k \in DOMAIN keyList, NEW what \in {"rename"} \cup Ends, AskAbout(k, what)
      PROVE  KeyInv'
    <2>1. asking' \in AskingStates(n)
        BY <1>0, <1>5 DEF AskAbout, AskingStates
    <2> QED
        BY <1>5, <2>1 DEF AskAbout, KeyInv, FormAwaitsKey
<1>6. CASE ConfirmKey
    <2>1. keyJobs' = Press(keyJobs, asking.what, asking.key)
        BY <1>6 DEF ConfirmKey
    <2>2. asking.what \in KeyKinds /\ asking.what # "create" /\ asking.key \in 0 .. n
        BY <1>0 DEF AskingStates, KeyKinds, Ends
    <2>3. /\ keyJobs' \in J /\ keyJobs'.count = keyJobs.count + 1
          /\ keyJobs'.heard["create"] = keyJobs.heard["create"]
        BY <1>0, <2>1, <2>2, PressJobs
    <2>4. HeardUnless(keyJobs', "create", given)
        BY <1>0, <2>1, <2>2, PressHeard
    <2>5. FormAwaitsKey'
        BY <1>0, <1>6, <2>3 DEF ConfirmKey, FormAwaitsKey, Pending
    <2>6. given' \subseteq 1 .. keyJobs'.count
        BY <1>0, <1>6, <2>3 DEF ConfirmKey
    <2> QED
        BY <1>0, <1>6, <2>3, <2>4, <2>5, <2>6 DEF ConfirmKey, KeyInv
<1>7. CASE KeysRefresh
    BY <1>0, <1>7 DEF KeysRefresh, KeyInv, FormAwaitsKey
<1>8. CASE LeaveKeys
    <2>1. keyJobs' = Unhear(keyJobs, KeyKinds)
        BY <1>8 DEF LeaveKeys
    <2>2. keyJobs' \in J /\ keyJobs'.count = keyJobs.count /\ keyJobs'.heard["create"] = 0
        BY <1>0, <2>1, UnhearJobs
    <2>3. given' = given \cup {r.no : r \in keyJobs.flying}
        BY <1>8 DEF LeaveKeys
    <2>4. given \subseteq given' /\ \A r \in keyJobs.flying : r.no \in given'
        BY <2>3
    <2>5. HeardUnless(keyJobs', "create", given')
        BY <1>0, <2>1, <2>4, UnhearHeard
    <2>6. given' \subseteq 1 .. keyJobs.count
        BY <1>0, <2>3, JobsParts
    <2>7. FormAwaitsKey'
        BY <2>2 DEF FormAwaitsKey, Pending
    <2> QED
        BY <1>n, <1>8, <2>2, <2>5, <2>6, <2>7 DEF LeaveKeys, KeyInv
<1>9. ASSUME NEW r \in keyJobs.flying, TakeKeyJob(r) PROVE KeyInv'
    <2>1. ASSUME NEW to \in Nat, n <= to, Len(keys') = to, keys' \in Seq(KeyStates),
                 to <= MaxKeys, NEW at \in JobStates, NEW on \in 0 .. to,
                 keyJobs' = Answered(keyJobs, r, at, on)
          PROVE  KeyInv'
        <3>1. 0 .. n \subseteq 0 .. to
            BY <1>0, <2>1
        <3>2. keyJobs \in Jobs(KeyKinds, 0 .. to)
            BY <1>0, <3>1, JobsGrow
        <3>3. /\ keyJobs' \in Jobs(KeyKinds, 0 .. to) /\ keyJobs'.count = keyJobs.count
              /\ keyJobs'.heard = keyJobs.heard
            BY <2>1, <3>2, AnsweredJobs
        <3>4. HeardUnless(keyJobs', "create", given)
            BY <1>0, <2>1, <3>2, AnsweredHeard
        <3>5. making \in MakingStates(to) /\ asking \in AskingStates(to)
            BY <1>0, <3>1 DEF MakingStates, AskingStates
        <3>6. FormAwaitsKey'
            BY <1>0, <1>9, <3>3 DEF TakeKeyJob, FormAwaitsKey, Pending
        <3>7. Len(keyList) <= to
            BY <1>0, <2>1
        <3> QED
            BY <1>0, <1>9, <2>1, <3>3, <3>4, <3>5, <3>6, <3>7 DEF TakeKeyJob, KeyInv
    <2>r. r \in Requests(KeyKinds, 0 .. n) /\ r.on \in 0 .. n
        BY <1>0, JobsParts DEF Requests
    <2>2. CASE /\ r.kind = "create" /\ Len(keys) < MaxKeys
               /\ keys' = Append(keys, "active")
               /\ keyJobs' = Answered(keyJobs, r, "done", Len(keys) + 1)
        <3>1. "active" \in KeyStates /\ "done" \in JobStates
            BY DEF KeyStates, JobStates
        <3>2. keys' \in Seq(KeyStates) /\ Len(keys') = n + 1
            BY <1>0, <2>2, <3>1, AppendProperties
        <3>3. n + 1 \in Nat /\ n <= n + 1 /\ n + 1 <= MaxKeys /\ n + 1 \in 0 .. n + 1
            BY <1>0, <2>2, KeysAssumption
        <3> QED
            BY <2>1, <2>2, <3>1, <3>2, <3>3
    <2>3. CASE /\ r.kind # "create" /\ keys[r.on] # "deleted"
               /\ keys' = [keys EXCEPT ![r.on] =
                      IF r.kind = "delete" THEN "deleted"
                      ELSE IF r.kind = "revoke" THEN "revoked" ELSE @]
               /\ keyJobs' = Answered(keyJobs, r, "done", r.on)
        <3>1. "done" \in JobStates /\ n <= MaxKeys
            BY DEF JobStates, KeyInv
        <3>2. keys' \in Seq(KeyStates) /\ Len(keys') = n
            <4> DEFINE e == IF r.kind = "delete" THEN "deleted"
                            ELSE IF r.kind = "revoke" THEN "revoked" ELSE keys[r.on]
            <4>1. keys' = [keys EXCEPT ![r.on] = e]
                BY <2>3
            <4>2. CASE r.on \in 1 .. n
                <5>1. e \in KeyStates
                    BY <1>0, <4>2 DEF KeyStates
                <5> HIDE DEF e
                <5> QED
                    BY <1>0, <4>1, <4>2, <5>1, ExceptSeq
            <4>3. CASE r.on \notin 1 .. n
                <5> HIDE DEF e
                <5>1. keys' = keys
                    BY <1>0, <4>1, <4>3
                <5> QED
                    BY <1>0, <5>1
            <4> QED
                BY <4>2, <4>3
        <3>3. n <= n
            BY <1>0
        <3> HIDE DEF n
        <3> QED
            BY <1>0, <2>1, <2>3, <2>r, <3>1, <3>2, <3>3
    <2>4. CASE UNCHANGED keys /\ keyJobs' = Answered(keyJobs, r, "refused", r.on)
        <3>1. "refused" \in JobStates /\ n <= MaxKeys
            BY DEF JobStates, KeyInv
        <3>2. n <= n /\ Len(keys') = n /\ keys' \in Seq(KeyStates)
            BY <1>0, <2>4
        <3> HIDE DEF n
        <3> QED
            BY <1>0, <2>1, <2>4, <2>r, <3>1, <3>2
    <2> QED
        BY <1>9, <2>2, <2>3, <2>4 DEF TakeKeyJob
<1>10. ASSUME NEW r \in keyJobs.flying, keyJobs' = Over(keyJobs, r)
       PROVE  /\ keyJobs' \in J /\ keyJobs'.count = keyJobs.count
              /\ HeardUnless(keyJobs', "create", given)
              /\ keyJobs'.heard["create"] = IF "create" = r.kind /\ keyJobs.heard["create"] = r.no
                                            THEN 0 ELSE keyJobs.heard["create"]
    BY <1>0, <1>10, OverJobs, OverHeard
<1>11. ASSUME NEW r \in keyJobs.flying, KeyJobDone(r) PROVE KeyInv'
    <2>1. keyJobs' = Over(keyJobs, r)
        BY <1>11 DEF KeyJobDone
    <2>2. making' \in MakingStates(n) /\ FormAwaitsKey' /\ asking' \in AskingStates(n)
        <3>1. CASE Heard(keyJobs, r) /\ r.kind = "create"
            <4>1. r.on \in 0 .. n
                BY <1>0, JobsParts DEF Requests
            <4>2. making' = [making EXCEPT !.shows = r.on] /\ UNCHANGED asking
                BY <1>11, <3>1 DEF KeyJobDone
            <4>3. keyJobs'.heard["create"] = 0
                BY <1>10, <2>1, <3>1 DEF Heard
            <4> QED
                BY <1>0, <4>1, <4>2, <4>3 DEF MakingStates, FormAwaitsKey, Pending
        <3>2. CASE ~(Heard(keyJobs, r) /\ r.kind = "create")
            <4>1. making' = making /\ asking' \in {asking, NoKey}
                BY <1>11, <3>2 DEF KeyJobDone, ClosedBy
            <4>2. keyJobs'.heard["create"] \in {0, keyJobs.heard["create"]}
                BY <1>10, <2>1
            <4> QED
                BY <1>0, <1>n, <4>1, <4>2 DEF FormAwaitsKey, Pending
        <3> QED
            BY <3>1, <3>2
    <2>3. keyList' \in {keyList, keys}
        BY <1>11 DEF KeyJobDone
    <2> QED
        BY <1>0, <1>10, <1>11, <2>1, <2>2, <2>3 DEF KeyJobDone, KeyInv
<1>12. ASSUME NEW r \in keyJobs.flying, KeyJobFails(r) PROVE KeyInv'
    <2>1. keyJobs' = Over(keyJobs, r)
        BY <1>12 DEF KeyJobFails
    <2>2. keyJobs'.heard["create"] \in {0, keyJobs.heard["create"]}
        BY <1>10, <2>1
    <2>3. FormAwaitsKey'
        BY <1>0, <1>12, <2>2 DEF KeyJobFails, FormAwaitsKey, Pending
    <2> QED
        BY <1>0, <1>10, <1>12, <2>1, <2>3 DEF KeyJobFails, KeyInv
<1>13. CASE UNCHANGED keyVars
    BY <1>13 DEF keyVars, KeyInv, FormAwaitsKey
<1> QED
    BY <1>1, <1>2, <1>3, <1>4, <1>5, <1>6, <1>7, <1>8, <1>9, <1>11, <1>12, <1>13 DEF KeyNext

(* A key that was made comes to the dialog that asked for it.               *)
LEMMA KeyComes ==
    ASSUME KeyInv, NEW r \in keyJobs.flying, KeyJobDone(r), r.kind = "create", r.no \notin given
    PROVE  making'.open /\ making'.shows = r.on
<1>1. Heard(keyJobs, r) /\ r.no # 0
    BY JobsParts DEF KeyInv, HeardUnless, Heard
<1>2. making.open /\ making \in MakingStates(Len(keys))
    BY <1>1 DEF KeyInv, FormAwaitsKey, Pending, Heard
<1>3. making' = [making EXCEPT !.shows = r.on]
    BY <1>1 DEF KeyJobDone
<1> QED
    BY <1>2, <1>3 DEF MakingStates

(* And stays there until the reader closes it.                              *)
LEMMA KeyStays ==
    ASSUME KeyInv, [KeyNext]_keyVars, making.shows # 0
    PROVE  making'.shows = making.shows \/ ~making'.open
<1>1. making \in MakingStates(Len(keys))
    BY DEF KeyInv
<1>2. ASSUME NEW r \in keyJobs.flying, KeyJobDone(r) PROVE making' = making
    <2>1. ~(Heard(keyJobs, r) /\ r.kind = "create")
        BY JobsParts DEF KeyInv, FormAwaitsKey, Pending, Heard
    <2> QED
        BY <1>2, <2>1 DEF KeyJobDone
<1>3. CASE OpenMaking
    BY <1>1, <1>3 DEF OpenMaking, MakingStates
<1>4. CASE CloseMaking \/ LeaveKeys
    BY <1>4 DEF CloseMaking, LeaveKeys
<1> QED
    BY <1>2, <1>3, <1>4
       DEF KeyNext, CreateKey, DropAsking, ConfirmKey, AskAbout, KeysRefresh, TakeKeyJob,
           KeyJobFails, keyVars

-----------------------------------------------------------------------------
(* The webhooks.                                                            *)
Endpoints == [secret : Nat, is : {"on", "off", "gone"}]
HookKinds == FormKinds \cup TabKinds
HookOns(n) == (0 .. n) \X Nat
HookForms(n) == [open : BOOLEAN, on : 0 .. n, shows : Nat]
Rotations(n) == [on : 0 .. n, shows : Nat]

(* Every test event there is was asked for.                                 *)
TestsAskedFor ==
    /\ IsFiniteSet(AskedOf(hookJobs))
    /\ tests + Cardinality(AskedOf(hookJobs)) <= hookJobs.count
    /\ hookJobs.count <= MaxHookPresses

(* All but a request to add an endpoint are about one there is.             *)
OnRows == \A r \in hookJobs.flying : r.kind # "create" => r.on[1] # 0

(* The form that asked for an endpoint is open and waits for nothing else.  *)
FormAwaitsHook ==
    /\ Pending(hookJobs, "create") =>
          hookForm.open /\ hookForm.shows = 0 /\ ~Pending(hookJobs, "update")
    /\ hookForm.shows # 0 => hookForm.open

(* So with the tab that asked for another secret.                           *)
TabAwaitsSecret == Pending(hookJobs, "rotate") => rotated.shows = 0

HookScreen ==
    /\ hookList \in Seq(Endpoints) /\ Len(hookList) <= Len(hooks)
    /\ broken \in BOOLEAN /\ delivered \in 0 .. tests /\ tab \in {"endpoints", "deliveries"}
    /\ hookForm \in HookForms(Len(hooks)) /\ rotated \in Rotations(Len(hooks))
    /\ deleting \in 0 .. Len(hooks)

HookInv ==
    /\ hooks \in Seq(Endpoints) /\ Len(hooks) <= MaxHooks /\ tests \in Nat
    /\ HookScreen
    /\ hookJobs \in Jobs(HookKinds, HookOns(Len(hooks))) /\ left \subseteq 1 .. hookJobs.count
    /\ TestsAskedFor /\ OnRows
    /\ HeardUnless(hookJobs, "create", left) /\ HeardUnless(hookJobs, "rotate", left)
    /\ FormAwaitsHook /\ TabAwaitsSecret

(* The parts of a request of the page.                                      *)
LEMMA HookJobParts ==
    ASSUME HookInv, NEW r \in hookJobs.flying
    PROVE  /\ r.no \in 1 .. hookJobs.count /\ r.kind \in HookKinds /\ r.at \in JobStates
           /\ r.on \in HookOns(Len(hooks)) /\ r.on[1] \in 0 .. Len(hooks) /\ r.on[2] \in Nat
           /\ r.on = <<r.on[1], r.on[2]>>
           /\ r.kind # "create" => r.on[1] \in 1 .. Len(hooks)
<1>1. /\ r.no \in 1 .. hookJobs.count /\ r.kind \in HookKinds /\ r.at \in JobStates
      /\ r.on \in HookOns(Len(hooks))
    BY JobsParts DEF HookInv, Requests
<1>2. r.on[1] \in 0 .. Len(hooks) /\ r.on[2] \in Nat /\ r.on = <<r.on[1], r.on[2]>>
    BY <1>1 DEF HookOns
<1>3. r.kind # "create" => r.on[1] # 0
    BY DEF HookInv, OnRows
<1>4. Len(hooks) \in Nat
    BY DEF HookInv
<1> QED
    BY <1>1, <1>2, <1>3, <1>4

(* The page of the webhooks begins without a request.                       *)
LEMMA HookStarts == HookInit => HookInv
<1> SUFFICES ASSUME HookInit PROVE HookInv
    OBVIOUS
<1>1. hooks \in Seq(Endpoints) /\ Len(hooks) \in Nat /\ Len(hooks) <= MaxHooks
    <2> DEFINE e == [secret |-> 1, is |-> "on"]
    <2>1. e \in Endpoints
        BY DEF Endpoints
    <2>2. hooks \in {<<>>, <<e>>}
        BY DEF HookInit
    <2> HIDE DEF e
    <2>3. <<e>> \in Seq(Endpoints) /\ Len(<<e>>) = 1
        BY <2>1
    <2>4. <<>> \in Seq(Endpoints) /\ Len(<<>>) = 0
        OBVIOUS
    <2>5. CASE hooks = <<>>
        BY <2>4, <2>5, HooksAssumption
    <2>6. CASE hooks = <<e>>
        <3>1. Len(hooks) = 1 /\ hooks \in Seq(Endpoints)
            BY <2>3, <2>6, Zenon
        <3> QED
            BY <3>1, HooksAssumption
    <2> QED
        BY <2>2, <2>5, <2>6
<1>2. /\ hookList = <<>> /\ hookList \in Seq(Endpoints) /\ Len(hookList) = 0
    BY DEF HookInit
<1>3. HookScreen
    <2>1. /\ broken = FALSE /\ delivered = 0 /\ tests = 0 /\ tab = "endpoints"
          /\ hookForm = NoForm /\ rotated = [on |-> 0, shows |-> 0] /\ deleting = 0
        BY DEF HookInit
    <2>2. hookForm \in HookForms(Len(hooks)) /\ rotated \in Rotations(Len(hooks))
        BY <1>1, <2>1 DEF HookForms, Rotations, NoForm
    <2>3. broken \in BOOLEAN /\ deleting \in 0 .. Len(hooks)
          /\ delivered \in 0 .. tests /\ tab \in {"endpoints", "deliveries"}
        <3>1. broken \in BOOLEAN /\ tab \in {"endpoints", "deliveries"}
            BY <2>1, Zenon
        <3>2. deleting \in 0 .. Len(hooks) /\ delivered \in 0 .. tests
            BY <1>1, <2>1
        <3> QED
            BY <3>1, <3>2
    <2>4. Len(hookList) <= Len(hooks)
        BY <1>1, <1>2
    <2> QED
        BY <1>2, <2>2, <2>3, <2>4 DEF HookScreen
<1>4. hookJobs \in Jobs(HookKinds, HookOns(Len(hooks)))
    BY NoJobs DEF HookInit, HookKinds
<1>5. /\ hookJobs.flying = {} /\ hookJobs.count = 0
      /\ hookJobs.heard["create"] = 0 /\ hookJobs.heard["rotate"] = 0
    BY DEF HookInit, NoRequests, FormKinds, TabKinds
<1>6. TestsAskedFor
    <2>1. AskedOf(hookJobs) = {}
        BY <1>5 DEF AskedOf
    <2>2. IsFiniteSet({}) /\ Cardinality({}) = 0
        BY FS_EmptySet
    <2>3. tests = 0
        BY DEF HookInit
    <2>4. IsFiniteSet(AskedOf(hookJobs)) /\ Cardinality(AskedOf(hookJobs)) = 0
        BY <2>1, <2>2
    <2> QED
        BY <1>5, <2>3, <2>4, HooksAssumption DEF TestsAskedFor
<1>7. /\ OnRows /\ HeardUnless(hookJobs, "create", left) /\ HeardUnless(hookJobs, "rotate", left)
    BY <1>5 DEF OnRows, HeardUnless
<1>8. FormAwaitsHook /\ TabAwaitsSecret
    BY <1>5 DEF HookInit, FormAwaitsHook, TabAwaitsSecret, Pending, NoForm
<1> QED
    BY <1>1, <1>3, <1>4, <1>6, <1>7, <1>8 DEF HookInit, HookInv

(* The type invariant is part of it.                                        *)
LEMMA HookTyped == HookInv => HookTypeOK
<1> SUFFICES ASSUME HookInv PROVE HookTypeOK
    OBVIOUS
<1>1. \A r \in hookJobs.flying : r.no \in 1 .. hookJobs.count
    BY HookJobParts
<1>2. \A h \in DOMAIN hooks : hooks[h] \in [secret : Nat, is : {"on", "off", "gone"}]
    <2>1. hooks \in Seq(Endpoints)
        BY DEF HookInv
    <2>2. \A h \in DOMAIN hooks : hooks[h] \in Endpoints
        BY <2>1
    <2> QED
        BY <2>2 DEF Endpoints
<1>3. tests \in 0 .. MaxHookPresses
    <2>1. Cardinality(AskedOf(hookJobs)) \in Nat /\ hookJobs.count \in Nat
        BY FS_CardinalityType, JobsParts DEF HookInv, TestsAskedFor
    <2> QED
        BY <2>1, HooksAssumption DEF HookInv, TestsAskedFor
<1> QED
    BY <1>1, <1>2, <1>3 DEF HookInv, HookScreen, HookTypeOK, HookForms, Rotations

(* The dialogs and the caches change, the requests do not.                  *)
LEMMA HookScreenStep ==
    ASSUME HookInv, UNCHANGED <<hooks, tests, hookJobs, left>>,
           HookScreen', FormAwaitsHook', TabAwaitsSecret'
    PROVE  HookInv'
BY DEF HookInv, TestsAskedFor, OnRows

(* A press, of what may be pressed.                                         *)
LEMMA HookPressed ==
    ASSUME HookInv, NEW kind \in HookKinds, NEW h \in 0 .. Len(hooks), PressHook(kind, h),
           ~Pending(hookJobs, kind), kind # "create" => h # 0,
           kind = "create" =>
               hookForm.open /\ hookForm.shows = 0 /\ ~Pending(hookJobs, "update"),
           kind = "update" => ~Pending(hookJobs, "create"),
           kind = "rotate" => rotated.shows = 0,
           UNCHANGED <<server, caches, tab, dialogs, left>>
    PROVE  HookInv'
<1> DEFINE J == Jobs(HookKinds, HookOns(Len(hooks)))
           b == IF kind = "toggle" /\ hookList[h].is = "off" THEN 1 ELSE 0
           on == <<h, b>>
<1>1. on \in HookOns(Len(hooks)) /\ on[1] = h /\ hookJobs' = Press(hookJobs, kind, on)
    BY DEF HookOns, PressHook
<1> HIDE DEF on
<1>2. /\ hookJobs \in J /\ hookJobs.count \in Nat
      /\ "create" \in HookKinds /\ "rotate" \in HookKinds /\ "update" \in HookKinds
    BY JobsParts DEF HookInv, HookKinds, FormKinds, TabKinds
<1>3. /\ hookJobs' \in J /\ hookJobs'.count = hookJobs.count + 1
      /\ hookJobs'.flying = hookJobs.flying \cup
             {[no |-> hookJobs.count + 1, kind |-> kind, on |-> on, at |-> "asked"]}
      /\ \A j \in HookKinds : hookJobs'.heard[j] =
             IF j = kind THEN hookJobs.count + 1 ELSE hookJobs.heard[j]
    BY <1>1, <1>2, PressJobs
<1>4. /\ IsFiniteSet(AskedOf(hookJobs'))
      /\ Cardinality(AskedOf(hookJobs')) = Cardinality(AskedOf(hookJobs)) + 1
    BY <1>1, <1>2, PressAsked DEF HookInv, TestsAskedFor
<1>5. hookJobs'.count <= MaxHookPresses
    BY <1>2, <1>3, HooksAssumption DEF PressHook
<1>6. TestsAskedFor'
    <2>1. Cardinality(AskedOf(hookJobs)) \in Nat
        BY FS_CardinalityType DEF HookInv, TestsAskedFor
    <2> QED
        BY <1>2, <1>3, <1>4, <1>5, <2>1 DEF HookInv, TestsAskedFor, server
<1>7. OnRows'
    BY <1>1, <1>3 DEF HookInv, OnRows
<1>8. HeardUnless(hookJobs', "create", left) /\ HeardUnless(hookJobs', "rotate", left)
    BY <1>1, <1>2, PressHeard DEF HookInv, Pending
<1>9. FormAwaitsHook'
    BY <1>2, <1>3 DEF HookInv, FormAwaitsHook, Pending, dialogs
<1>10. TabAwaitsSecret'
    BY <1>2, <1>3 DEF HookInv, TabAwaitsSecret, Pending, dialogs
<1>11. left' \subseteq 1 .. hookJobs'.count
    BY <1>2, <1>3 DEF HookInv
<1>12. HookScreen'
    BY DEF HookInv, HookScreen, server, caches, dialogs
<1> QED
    BY <1>3, <1>6, <1>7, <1>8, <1>9, <1>10, <1>11, <1>12 DEF HookInv, server

(* The reader leaves a form or the tab, and with it the requests of it.     *)
LEMMA HookLeft ==
    ASSUME HookInv, NEW kinds, hookJobs' = Unhear(hookJobs, kinds), Leaving(kinds),
           "create" \in kinds \/ UNCHANGED hookForm,
           hookForm' = NoForm \/ UNCHANGED hookForm,
           rotated'.shows = 0 \/ UNCHANGED rotated,
           UNCHANGED <<server, caches>>, HookScreen'
    PROVE  HookInv'
<1> DEFINE J == Jobs(HookKinds, HookOns(Len(hooks)))
<1>1. /\ hookJobs \in J /\ hookJobs.count \in Nat
      /\ "create" \in HookKinds /\ "rotate" \in HookKinds /\ "update" \in HookKinds
    BY JobsParts DEF HookInv, HookKinds, FormKinds, TabKinds
<1>2. /\ hookJobs' \in J /\ hookJobs'.count = hookJobs.count /\ hookJobs'.flying = hookJobs.flying
      /\ \A j \in HookKinds : hookJobs'.heard[j] = IF j \in kinds THEN 0 ELSE hookJobs.heard[j]
    BY <1>1, UnhearJobs
<1>3. left' = left \cup {r.no : r \in {f \in hookJobs.flying : f.kind \in kinds}}
    BY DEF Leaving
<1>4. /\ left \subseteq left'
      /\ \A kind \in kinds : \A r \in hookJobs.flying : r.kind = kind => r.no \in left'
    BY <1>3
<1>5. left' \subseteq 1 .. hookJobs'.count
    BY <1>1, <1>2, <1>3, JobsParts DEF HookInv
<1>6. HeardUnless(hookJobs', "create", left') /\ HeardUnless(hookJobs', "rotate", left')
    BY <1>1, <1>4, UnhearHeard DEF HookInv
<1>7. TestsAskedFor' /\ OnRows'
    BY <1>2 DEF HookInv, TestsAskedFor, OnRows, AskedOf, server
<1>8. FormAwaitsHook'
    <2>1. CASE UNCHANGED hookForm
        BY <1>1, <1>2, <2>1 DEF HookInv, FormAwaitsHook, Pending
    <2>2. CASE hookForm' = NoForm /\ "create" \in kinds
        BY <1>1, <1>2, <2>2 DEF FormAwaitsHook, Pending, NoForm
    <2> QED
        BY <2>1, <2>2
<1>9. TabAwaitsSecret'
    BY <1>1, <1>2 DEF HookInv, TabAwaitsSecret, Pending
<1> QED
    BY <1>2, <1>5, <1>6, <1>7, <1>8, <1>9 DEF HookInv, server

(* The API takes a request and answers it.                                  *)
LEMMA HookTaken ==
    ASSUME HookInv, NEW r \in hookJobs.flying, r.at = "asked",
           NEW at \in {"done", "refused"}, NEW to \in Nat, Len(hooks) <= to, to <= MaxHooks,
           hooks' \in Seq(Endpoints), Len(hooks') = to,
           NEW on \in HookOns(to), r.kind # "create" => on[1] # 0,
           hookJobs' = Answered(hookJobs, r, at, on), tests' \in {tests, tests + 1},
           UNCHANGED <<caches, tab, dialogs, left>>
    PROVE  HookInv'
<1>1. 0 .. Len(hooks) \subseteq 0 .. to /\ Len(hooks) \in Nat
    BY DEF HookInv
<1>2. hookJobs \in Jobs(HookKinds, HookOns(to))
    <2>1. HookOns(Len(hooks)) \subseteq HookOns(to)
        BY <1>1 DEF HookOns
    <2> QED
        BY <2>1, JobsGrow DEF HookInv
<1>3. at \in JobStates /\ at # "asked" /\ r \in AskedOf(hookJobs)
    BY DEF JobStates, AskedOf
<1>4. /\ hookJobs' \in Jobs(HookKinds, HookOns(to)) /\ hookJobs'.count = hookJobs.count
      /\ hookJobs'.heard = hookJobs.heard
      /\ hookJobs'.flying = (hookJobs.flying \ {r}) \cup
             {[no |-> r.no, kind |-> r.kind, on |-> on, at |-> at]}
    BY <1>2, <1>3, AnsweredJobs
<1>5. HeardUnless(hookJobs', "create", left) /\ HeardUnless(hookJobs', "rotate", left)
    BY <1>2, <1>3, AnsweredHeard DEF HookInv
<1>6. TestsAskedFor'
    <2>1. /\ IsFiniteSet(AskedOf(hookJobs'))
          /\ Cardinality(AskedOf(hookJobs')) = Cardinality(AskedOf(hookJobs)) - 1
        BY <1>2, <1>3, AnsweredAsked DEF HookInv, TestsAskedFor
    <2>2. Cardinality(AskedOf(hookJobs)) \in Nat /\ hookJobs.count \in Nat
        BY <1>2, FS_CardinalityType, JobsParts DEF HookInv, TestsAskedFor
    <2> QED
        BY <1>4, <2>1, <2>2 DEF HookInv, TestsAskedFor
<1>7. OnRows'
    BY <1>4 DEF HookInv, OnRows
<1>8. FormAwaitsHook' /\ TabAwaitsSecret'
    BY <1>4 DEF HookInv, FormAwaitsHook, TabAwaitsSecret, Pending, dialogs
<1>9. HookScreen'
    <2>1. Len(hookList) \in Nat
        BY DEF HookInv, HookScreen
    <2>2. hookForm \in HookForms(to) /\ rotated \in Rotations(to) /\ deleting \in 0 .. to
        BY <1>1 DEF HookInv, HookScreen, HookForms, Rotations
    <2>3. delivered \in 0 .. tests'
        BY DEF HookInv, HookScreen
    <2> QED
        BY <1>1, <2>1, <2>2, <2>3 DEF HookInv, HookScreen, caches, dialogs
<1> QED
    BY <1>4, <1>5, <1>6, <1>7, <1>8, <1>9 DEF HookInv

(* An answer comes back, or none does.                                      *)
LEMMA HookOver ==
    ASSUME HookInv, NEW r \in hookJobs.flying, hookJobs' = Over(hookJobs, r),
           UNCHANGED <<server, caches, tab, left>>, HookScreen', FormAwaitsHook', TabAwaitsSecret'
    PROVE  HookInv'
<1>1. /\ hookJobs \in Jobs(HookKinds, HookOns(Len(hooks)))
      /\ "create" \in HookKinds /\ "rotate" \in HookKinds
    BY DEF HookInv, HookKinds, FormKinds, TabKinds
<1>2. /\ hookJobs' \in Jobs(HookKinds, HookOns(Len(hooks))) /\ hookJobs'.count = hookJobs.count
      /\ hookJobs'.flying = hookJobs.flying \ {r}
    BY <1>1, OverJobs
<1>3. HeardUnless(hookJobs', "create", left) /\ HeardUnless(hookJobs', "rotate", left)
    BY <1>1, OverHeard DEF HookInv
<1>4. TestsAskedFor'
    <2>1. /\ IsFiniteSet(AskedOf(hookJobs')) /\ Cardinality(AskedOf(hookJobs')) \in Nat
          /\ Cardinality(AskedOf(hookJobs')) <= Cardinality(AskedOf(hookJobs))
        BY <1>1, OverAsked DEF HookInv, TestsAskedFor
    <2>2. Cardinality(AskedOf(hookJobs)) \in Nat /\ hookJobs.count \in Nat
        BY <1>1, FS_CardinalityType, JobsParts DEF HookInv, TestsAskedFor
    <2> QED
        BY <1>2, <2>1, <2>2 DEF HookInv, TestsAskedFor, server
<1>5. OnRows'
    BY <1>2 DEF HookInv, OnRows
<1> QED
    BY <1>2, <1>3, <1>4, <1>5 DEF HookInv, server

(* Every step of the page of the webhooks keeps the invariant.              *)
LEMMA HookStep ==
    ASSUME HookInv, [HookNext]_hookVars
    PROVE  HookInv'
<1> DEFINE n == Len(hooks)
<1>0. /\ n \in Nat /\ DOMAIN hooks = 1 .. n /\ hooks \in Seq(Endpoints) /\ n <= MaxHooks
      /\ \A h \in 1 .. n : hooks[h] \in Endpoints
      /\ Len(hookList) \in Nat /\ DOMAIN hookList = 1 .. Len(hookList) /\ Len(hookList) <= n
      /\ HookScreen /\ FormAwaitsHook /\ TabAwaitsSecret
      /\ hookForm \in HookForms(n) /\ rotated \in Rotations(n) /\ deleting \in 0 .. n
    BY DEF HookInv, HookScreen
<1>n. /\ NoForm \in HookForms(n) /\ NoForm.shows = 0 /\ ~NoForm.open
      /\ [on |-> 0, shows |-> 0] \in Rotations(n)
    BY <1>0 DEF NoForm, HookForms, Rotations
<1> USE DEF server, caches, dialogs
<1>1. ASSUME NEW h \in {0} \cup DOMAIN hookList, OpenForm(h) PROVE HookInv'
    <2>1. hookForm' = [NoForm EXCEPT !.open = TRUE, !.on = h] /\ ~hookForm.open
        BY <1>1 DEF OpenForm, OnRow, Uncovered
    <2>2. hookForm' \in HookForms(n) /\ hookForm'.shows = 0
        <3>1. ASSUME NEW f \in HookForms(n), NEW on \in 0 .. n
              PROVE  /\ [f EXCEPT !.open = TRUE, !.on = on] \in HookForms(n)
                     /\ [f EXCEPT !.open = TRUE, !.on = on].shows = f.shows
            BY DEF HookForms
        <3>2. h \in 0 .. n
            BY <1>0
        <3> QED
            BY <1>n, <2>1, <3>1, <3>2
    <2>3. FormAwaitsHook' /\ TabAwaitsSecret'
        BY <1>0, <1>1, <2>1, <2>2 DEF OpenForm, FormAwaitsHook, TabAwaitsSecret
    <2> QED
        BY <1>0, <1>1, <2>2, <2>3, HookScreenStep DEF OpenForm, HookScreen
<1>2. CASE SubmitForm
    <2> DEFINE kind == IF hookForm.on = 0 THEN "create" ELSE "update"
    <2>1. kind \in HookKinds /\ kind \in FormKinds /\ hookForm.on \in 0 .. n
          /\ (kind # "create" => hookForm.on # 0) /\ kind # "rotate"
        BY <1>0 DEF HookKinds, FormKinds, HookForms
    <2>2. /\ hookForm.open /\ hookForm.shows = 0 /\ PressHook(kind, hookForm.on)
          /\ \A k \in FormKinds : ~Pending(hookJobs, k)
          /\ UNCHANGED <<server, caches, tab, dialogs, left>>
        BY <1>2 DEF SubmitForm
    <2>3. "create" \in FormKinds /\ "update" \in FormKinds
        BY DEF FormKinds
    <2> HIDE DEF kind
    <2> QED
        BY <2>1, <2>2, <2>3, HookPressed
<1>3. CASE CloseForm
    <2>1. HookScreen'
        BY <1>0, <1>n, <1>3 DEF CloseForm, HookScreen
    <2> QED
        BY <1>3, <2>1, HookLeft DEF CloseForm, FormKinds
<1>4. ASSUME NEW h \in DOMAIN hookList, AskDelete(h) PROVE HookInv'
    BY <1>0, <1>4, HookScreenStep DEF AskDelete, HookScreen, FormAwaitsHook, TabAwaitsSecret
<1>5. ASSUME NEW h \in DOMAIN hookList, NEW kind \in TabKinds, PressRow(kind, h)
      PROVE  HookInv'
    <2>1. /\ kind \in HookKinds /\ kind \notin {"create", "update"} /\ h \in 0 .. n /\ h # 0
        BY <1>0, <1>5 DEF HookKinds, PressRow, TabKinds
    <2>2. /\ PressHook(kind, h) /\ ~Pending(hookJobs, kind) /\ rotated.shows = 0
          /\ UNCHANGED <<server, caches, tab, dialogs, left>>
        BY <1>5 DEF PressRow, MayPress, OnRow, Uncovered
    <2> QED
        BY <2>1, <2>2, HookPressed
<1>6. CASE ConfirmDelete
    <2>1. /\ "remove" \in HookKinds /\ deleting # 0 /\ PressHook("remove", deleting)
          /\ ~Pending(hookJobs, "remove") /\ UNCHANGED <<server, caches, tab, dialogs, left>>
        BY <1>6 DEF ConfirmDelete, HookKinds, TabKinds
    <2> QED
        BY <1>0, <2>1, HookPressed
<1>7. CASE DropDelete \/ CloseRotated
    BY <1>0, <1>n, <1>7, HookScreenStep
       DEF DropDelete, CloseRotated, HookScreen, FormAwaitsHook, TabAwaitsSecret
<1>8. CASE SwitchTab
    <2>1. HookScreen'
        BY <1>0, <1>n, <1>8 DEF SwitchTab, HookScreen
    <2> QED
        BY <1>8, <2>1, HookLeft DEF SwitchTab
<1>9. CASE LeaveHooks
    <2>1. HookScreen'
        BY <1>0, <1>n, <1>9 DEF LeaveHooks, HookScreen
    <2> QED
        BY <1>9, <2>1, HookLeft DEF LeaveHooks, FormKinds
<1>10. CASE HooksRefresh
    <2>0. UNCHANGED <<hooks, tests, delivered, tab, hookForm, rotated, deleting>>
        BY <1>10 DEF HooksRefresh
    <2>1. HookScreen'
        <3>1. CASE hookList' = hooks /\ broken' = FALSE
            <4>1. broken' \in BOOLEAN
                BY <3>1
            <4>2. hookList' \in Seq(Endpoints) /\ Len(hookList') <= n
                BY <1>0, <3>1
            <4> QED
                BY <1>0, <2>0, <4>1, <4>2 DEF HookScreen
        <3>2. CASE broken' = ~broken /\ UNCHANGED hookList
            <4>1. broken' \in BOOLEAN
                BY <3>2
            <4> QED
                BY <1>0, <2>0, <3>2, <4>1 DEF HookScreen
        <3> QED
            BY <1>10, <3>1, <3>2 DEF HooksRefresh
    <2>2. FormAwaitsHook' /\ TabAwaitsSecret'
        BY <1>0, <1>10 DEF HooksRefresh, FormAwaitsHook, TabAwaitsSecret
    <2> QED
        BY <1>10, <2>1, <2>2, HookScreenStep DEF HooksRefresh
<1>11. CASE DeliveriesRefresh
    <2>1. HookScreen'
        BY <1>0, <1>11 DEF DeliveriesRefresh, HookScreen, HookInv
    <2>2. FormAwaitsHook' /\ TabAwaitsSecret'
        BY <1>0, <1>11 DEF DeliveriesRefresh, FormAwaitsHook, TabAwaitsSecret
    <2> QED
        BY <1>11, <2>1, <2>2, HookScreenStep DEF DeliveriesRefresh
<1>12. ASSUME NEW r \in hookJobs.flying, TakeHookJob(r) PROVE HookInv'
    <2> DEFINE h == r.on[1]
    <2>0. /\ r.at = "asked" /\ UNCHANGED <<caches, tab, dialogs, left>>
          /\ r.on \in HookOns(n) /\ (r.kind # "create" => h \in 1 .. n) /\ r.on = <<h, r.on[2]>>
          /\ n <= n
        BY <1>0, <1>12, HookJobParts DEF TakeHookJob
    <2>1. CASE /\ r.kind = "create" /\ Len(hooks) < MaxHooks
               /\ hooks' = Append(hooks, [secret |-> 1, is |-> "on"])
               /\ hookJobs' = Answered(hookJobs, r, "done", <<Len(hooks) + 1, 1>>)
               /\ UNCHANGED tests
        <3>1. [secret |-> 1, is |-> "on"] \in Endpoints
            BY DEF Endpoints
        <3>2. hooks' \in Seq(Endpoints) /\ Len(hooks') = n + 1
            BY <1>0, <2>1, <3>1, AppendProperties
        <3>3. n + 1 \in Nat /\ n <= n + 1 /\ n + 1 <= MaxHooks /\ <<n + 1, 1>> \in HookOns(n + 1)
            BY <1>0, <2>1, HooksAssumption DEF HookOns
        <3> QED
            BY <2>0, <2>1, <3>2, <3>3, HookTaken
    <2>2. CASE /\ r.kind = "rotate" /\ hooks[h].is # "gone"
               /\ hooks' = [hooks EXCEPT ![h].secret = @ + 1]
               /\ hookJobs' = Answered(hookJobs, r, "done", <<h, hooks'[h].secret>>)
               /\ UNCHANGED tests
        <3>1. h \in 1 .. n /\ hooks[h] \in Endpoints
            BY <1>0, <2>0, <2>2
        <3> DEFINE e == [hooks[h] EXCEPT !.secret = @ + 1]
        <3>2. e \in Endpoints
            BY <3>1 DEF Endpoints
        <3>3. hooks' = [hooks EXCEPT ![h] = e]
            BY <2>2
        <3> HIDE DEF e
        <3>4. hooks' \in Seq(Endpoints) /\ Len(hooks') = n /\ hooks'[h] = e
            BY <1>0, <3>1, <3>2, <3>3, ExceptSeq
        <3>5. <<h, hooks'[h].secret>> \in HookOns(n) /\ h # 0
            BY <1>0, <3>1, <3>2, <3>4 DEF HookOns, Endpoints
        <3> HIDE DEF n, h
        <3>6. <<h, hooks'[h].secret>>[1] # 0
            BY <3>5
        <3> QED
            BY <1>0, <2>0, <2>2, <3>4, <3>5, <3>6, HookTaken DEF n
    <2>3. CASE /\ r.kind \in {"update", "toggle", "remove", "test"} /\ hooks[h].is # "gone"
               /\ hooks' = [hooks EXCEPT ![h].is =
                      IF r.kind = "remove" THEN "gone"
                      ELSE IF r.kind = "toggle" THEN (IF r.on[2] = 1 THEN "on" ELSE "off") ELSE @]
               /\ tests' = IF r.kind = "test" THEN tests + 1 ELSE tests
               /\ hookJobs' = Answered(hookJobs, r, "done", r.on)
        <3>1. h \in 1 .. n /\ hooks[h] \in Endpoints
            BY <1>0, <2>0, <2>3
        <3> DEFINE is == IF r.kind = "remove" THEN "gone"
                         ELSE IF r.kind = "toggle" THEN (IF r.on[2] = 1 THEN "on" ELSE "off")
                         ELSE hooks[h].is
                   e == [hooks[h] EXCEPT !.is = is]
        <3>2. is \in {"on", "off", "gone"}
            BY <3>1 DEF Endpoints
        <3>3. hooks' = [hooks EXCEPT ![h] = e]
            BY <2>3
        <3> HIDE DEF is
        <3>4. e \in Endpoints
            BY <3>1, <3>2 DEF Endpoints
        <3> HIDE DEF e
        <3>5. hooks' \in Seq(Endpoints) /\ Len(hooks') = n
            BY <1>0, <3>1, <3>3, <3>4, ExceptSeq
        <3>6. tests' \in {tests, tests + 1} /\ h # 0
            BY <2>3, <3>1
        <3> HIDE DEF n
        <3> QED
            BY <1>0, <2>0, <2>3, <3>5, <3>6, HookTaken DEF n
    <2>4. CASE hookJobs' = Answered(hookJobs, r, "refused", r.on) /\ UNCHANGED server
        <3>1. r.kind # "create" => h # 0
            BY <2>0
        <3>2. hooks' \in Seq(Endpoints) /\ Len(hooks') = n /\ tests' = tests
            BY <1>0, <2>4
        <3> HIDE DEF n
        <3> QED
            BY <1>0, <2>0, <2>4, <3>1, <3>2, HookTaken DEF n
    <2> QED
        BY <1>12, <2>1, <2>2, <2>3, <2>4 DEF TakeHookJob
<1>13. ASSUME NEW r \in hookJobs.flying, hookJobs' = Over(hookJobs, r)
       PROVE  /\ \A k \in HookKinds : hookJobs'.heard[k] =
                     IF k = r.kind /\ hookJobs.heard[k] = r.no THEN 0 ELSE hookJobs.heard[k]
              /\ "create" \in HookKinds /\ "update" \in HookKinds /\ "rotate" \in HookKinds
    BY <1>13, OverJobs DEF HookInv, HookKinds, FormKinds, TabKinds
<1>14. ASSUME NEW r \in hookJobs.flying, HookJobFails(r) PROVE HookInv'
    <2>1. hookJobs' = Over(hookJobs, r) /\ UNCHANGED <<server, caches, tab, dialogs, left>>
        BY <1>14 DEF HookJobFails
    <2>2. FormAwaitsHook' /\ TabAwaitsSecret' /\ HookScreen'
        BY <1>0, <1>13, <2>1 DEF FormAwaitsHook, TabAwaitsSecret, Pending, HookScreen
    <2> QED
        BY <2>1, <2>2, HookOver
<1>15. ASSUME NEW r \in hookJobs.flying, HookJobDone(r) PROVE HookInv'
    <2>1. hookJobs' = Over(hookJobs, r) /\ UNCHANGED <<server, caches, tab, left>>
        BY <1>15 DEF HookJobDone
    <2>2. CASE ~Heard(hookJobs, r)
        <3>1. UNCHANGED dialogs
            BY <1>15, <2>2 DEF HookJobDone
        <3>2. FormAwaitsHook' /\ TabAwaitsSecret' /\ HookScreen'
            BY <1>0, <1>13, <2>1, <3>1 DEF FormAwaitsHook, TabAwaitsSecret, Pending, HookScreen
        <3> QED
            BY <2>1, <3>2, HookOver
    <2>3. CASE Heard(hookJobs, r)
        <3>0. React(r) /\ r.on[1] \in 0 .. n /\ r.on[2] \in Nat /\ r.no # 0
            BY <1>15, <2>3, HookJobParts DEF HookJobDone
        <3>1. rotated' \in Rotations(n) /\ deleting' \in 0 .. n
            BY <1>0, <3>0 DEF React, Rotations
        <3>2. hookForm' \in HookForms(n)
            BY <1>0, <1>n, <3>0 DEF React, HookForms
        <3>3. HookScreen'
            BY <1>0, <2>1, <3>1, <3>2 DEF HookScreen
        <3>4. FormAwaitsHook'
            <4>1. CASE r.kind = "create"
                <5>1. hookForm.open /\ hookForm' = [hookForm EXCEPT !.shows = r.on[2]]
                    BY <1>0, <2>3, <3>0, <4>1 DEF FormAwaitsHook, Pending, Heard, React
                <5>2. hookForm'.open /\ hookJobs'.heard["create"] = 0
                    BY <1>0, <1>13, <2>1, <2>3, <4>1, <5>1 DEF HookForms, Heard
                <5> QED
                    BY <5>2 DEF FormAwaitsHook, Pending
            <4>2. CASE r.kind = "update"
                <5>1. hookForm' = NoForm /\ Pending(hookJobs, "update")
                    BY <2>3, <3>0, <4>2 DEF React, Heard, Pending
                <5>2. hookJobs'.heard["create"] = 0
                    BY <1>0, <1>13, <2>1, <4>2, <5>1 DEF FormAwaitsHook, Pending
                <5> QED
                    BY <1>n, <5>1, <5>2 DEF FormAwaitsHook, Pending
            <4>3. CASE r.kind \notin {"create", "update"}
                <5>1. hookForm' = hookForm
                    BY <3>0, <4>3 DEF React
                <5>2. /\ hookJobs'.heard["create"] = hookJobs.heard["create"]
                      /\ hookJobs'.heard["update"] = hookJobs.heard["update"]
                    BY <1>13, <2>1, <4>3
                <5> QED
                    BY <1>0, <5>1, <5>2 DEF FormAwaitsHook, Pending
            <4> QED
                BY <4>1, <4>2, <4>3
        <3>5. TabAwaitsSecret'
            <4>1. CASE r.kind = "rotate"
                BY <1>13, <2>1, <2>3, <4>1 DEF TabAwaitsSecret, Pending, Heard
            <4>2. CASE r.kind # "rotate"
                BY <1>0, <1>13, <2>1, <3>0, <4>2 DEF TabAwaitsSecret, Pending, React
            <4> QED
                BY <4>1, <4>2
        <3> QED
            BY <2>1, <3>3, <3>4, <3>5, HookOver
    <2> QED
        BY <2>2, <2>3
<1>16. CASE UNCHANGED hookVars
    BY <1>0, <1>16, HookScreenStep
       DEF hookVars, HookScreen, FormAwaitsHook, TabAwaitsSecret
<1> QED
    BY <1>1, <1>2, <1>3, <1>4, <1>5, <1>6, <1>7, <1>8, <1>9, <1>10, <1>11, <1>12, <1>14,
       <1>15, <1>16 DEF HookNext

(* A secret that was made comes to what asked for it.                       *)
LEMMA SecretComes ==
    ASSUME HookInv, NEW r \in hookJobs.flying, HookJobDone(r),
           r.kind \in {"create", "rotate"}, r.no \notin left
    PROVE  IF r.kind = "create" THEN hookForm'.open /\ hookForm'.shows = r.on[2]
           ELSE rotated'.on = r.on[1] /\ rotated'.shows = r.on[2]
<1>1. Heard(hookJobs, r) /\ r.no # 0
    BY HookJobParts DEF HookInv, HeardUnless, Heard
<1>2. React(r)
    BY <1>1 DEF HookJobDone
<1>3. CASE r.kind = "create"
    <2>1. hookForm.open /\ hookForm \in HookForms(Len(hooks))
        BY <1>1, <1>3 DEF HookInv, HookScreen, FormAwaitsHook, Pending, Heard
    <2>2. hookForm' = [hookForm EXCEPT !.shows = r.on[2]]
        BY <1>2, <1>3 DEF React
    <2> QED
        BY <1>3, <2>1, <2>2 DEF HookForms
<1>4. CASE r.kind = "rotate"
    BY <1>2, <1>4 DEF React
<1> QED
    BY <1>3, <1>4

(* And stays there until the reader closes it.                              *)
LEMMA SecretStays ==
    ASSUME HookInv, [HookNext]_hookVars
    PROVE  /\ hookForm.shows # 0 => (hookForm' = hookForm \/ ~hookForm'.open)
           /\ rotated.shows # 0 => (rotated' = rotated \/ rotated'.shows = 0)
<1> DEFINE Stays == /\ hookForm.shows # 0 => (hookForm' = hookForm \/ ~hookForm'.open)
                    /\ rotated.shows # 0 => (rotated' = rotated \/ rotated'.shows = 0)
<1> USE DEF server, caches, dialogs
<1>0. FormAwaitsHook /\ TabAwaitsSecret
    BY DEF HookInv
<1>n. ~NoForm.open
    BY DEF NoForm
<1>1. ASSUME NEW h \in {0} \cup DOMAIN hookList, OpenForm(h) PROVE Stays
    BY <1>0, <1>1 DEF OpenForm, OnRow, Uncovered, FormAwaitsHook
<1>2. CASE CloseForm \/ LeaveHooks \/ SwitchTab \/ CloseRotated
    BY <1>n, <1>2 DEF CloseForm, LeaveHooks, SwitchTab, CloseRotated
<1>3. ASSUME NEW r \in hookJobs.flying, HookJobDone(r) PROVE Stays
    <2>1. CASE ~Heard(hookJobs, r)
        BY <1>3, <2>1 DEF HookJobDone
    <2>2. CASE Heard(hookJobs, r)
        <3>1. React(r) /\ Pending(hookJobs, r.kind)
            BY <1>3, <2>2, HookJobParts DEF HookJobDone, Heard, Pending
        <3> QED
            BY <1>0, <1>n, <3>1 DEF React, FormAwaitsHook, TabAwaitsSecret
    <2> QED
        BY <2>1, <2>2
<1> QED
    BY <1>1, <1>2, <1>3
       DEF HookNext, SubmitForm, AskDelete, PressRow, ConfirmDelete, DropDelete, HooksRefresh,
           DeliveriesRefresh, TakeHookJob, HookJobFails, hookVars

-----------------------------------------------------------------------------
(* Billing.                                                                 *)
Subs == [offer : Offer \cup {NoOffer}, ends : BOOLEAN, next : Offer \cup {NoOffer}]
PaidStates == {"open", "applied", "failed"}
Checkouts == [offer : Offer, at : PaidStates]
Backs(n) == [on : 0 .. n, slow : BOOLEAN, dismissed : BOOLEAN]
Periods == [is : Period, seeded : BOOLEAN]
Confirms == {<<"none">>, <<"cancel">>} \cup {<<"change", o>> : o \in Offer}
Aways(n) == {<<>>} \cup {<<c>> : c \in 0 .. n}
Stays == {<<"stay">> \o o : o \in Offer}
BillOns(n) == Offer \cup Stays \cup {NoOffer} \cup {<<c>> : c \in 0 .. n}

(* What a request is about, by its kind and how far it is.                  *)
OnOf(kind, at, n) ==
    IF kind = "checkout" THEN (IF at = "done" THEN {<<c>> : c \in 1 .. n} ELSE Offer)
    ELSE IF kind = "portal" THEN (IF at = "done" THEN {<<0>>} ELSE {NoOffer})
    ELSE IF kind = "change" THEN Offer \cup Stays
    ELSE {NoOffer}

OnsFit == \A r \in billJobs.flying : r.on \in OnOf(r.kind, r.at, Len(checkouts))

(* The dialog a change is confirmed in.                                     *)
DialogOf(kind, on) == IF kind = "cancel" THEN <<"cancel">> ELSE <<kind, on>>

(* While a change is made no dialog is open but its own.                    *)
DialogsFit ==
    \A r \in billJobs.flying :
        r.kind \in Changing => confirming \in {<<"none">>, DialogOf(r.kind, r.on)}

(* Every change on its way is listened to.                                  *)
ChangesHeard == \A k \in Changing : HeardUnless(billJobs, k, {})

BillScreen ==
    /\ bill \in Entries({0}, Subs) /\ paid \in Entries(1 .. Len(checkouts), PaidStates)
    /\ back \in Backs(Len(checkouts)) /\ period \in Periods
    /\ confirming \in Confirms /\ buying \in Offer \cup {NoOffer}
    /\ away \in Aways(Len(checkouts))

BillInv ==
    /\ sub \in Subs /\ (sub.offer = NoOffer => sub = Free)
    /\ checkouts \in Seq(Checkouts)
    /\ BillScreen
    /\ billJobs \in Jobs(BillKinds, BillOns(Len(checkouts)))
    /\ OnsFit /\ DialogsFit /\ ChangesHeard

(* What "stay" before an offer makes.                                       *)
LEMMA StayBefore ==
    ASSUME NEW p, NEW i
    PROVE  <<"stay">> \o <<p, i>> = <<"stay", p, i>>
<1> DEFINE S == {"stay", p, i}
           a == <<"stay">>
           o == <<p, i>>
           t == a \o o
           u == <<"stay", p, i>>
<1>1. a \in Seq(S) /\ Len(a) = 1 /\ a[1] = "stay"
    OBVIOUS
<1>2. o \in Seq(S) /\ Len(o) = 2 /\ o[1] = p /\ o[2] = i
    OBVIOUS
<1>3. u \in Seq(S) /\ Len(u) = 3 /\ u[1] = "stay" /\ u[2] = p /\ u[3] = i
    OBVIOUS
<1> HIDE DEF S, a, o, u
<1>4. /\ t \in Seq(S) /\ Len(t) = Len(a) + Len(o)
      /\ \A j \in 1 .. Len(a) + Len(o) : t[j] = IF j <= Len(a) THEN a[j] ELSE o[j - Len(a)]
    BY <1>1, <1>2, ConcatProperties
<1> HIDE DEF t
<1>5. Len(t) = 3 /\ t[1] = a[1] /\ t[2] = o[1] /\ t[3] = o[2]
    BY <1>1, <1>2, <1>4
<1>6. Len(t) = Len(u) /\ \A j \in 1 .. Len(u) : t[j] = u[j]
    BY <1>1, <1>2, <1>3, <1>5
<1>7. t = u
    BY <1>3, <1>4, <1>6, SeqEqual
<1> QED
    BY <1>7 DEF t, u, a, o

(* An offer is a pair, so it is not nothing, and "stay" before it comes off *)
(* again.                                                                   *)
LEMMA OfferParts ==
    ASSUME NEW o \in Offer
    PROVE  o # NoOffer /\ o[2] \in Period /\ Tail(<<"stay">> \o o) = o
<1>1. PICK p \in Plan, i \in Period : o = <<p, i>>
    BY DEF Offer
<1>2. o # NoOffer /\ o[2] \in Period
    BY <1>1 DEF NoOffer
<1>3. Tail(<<"stay">> \o o) = o
    <2>1. <<"stay">> \o <<p, i>> = <<"stay", p, i>>
        BY StayBefore
    <2>2. Tail(<<"stay", p, i>>) = <<p, i>>
        OBVIOUS
    <2> QED
        BY <1>1, <2>1, <2>2, Zenon
<1> QED
    BY <1>2, <1>3

(* What may be bought makes a subscription that is not free.                *)
LEMMA BoughtSub ==
    ASSUME NEW o \in Offer
    PROVE  Bought(o) \in Subs /\ Bought(o).offer = o /\ o # NoOffer
BY OfferParts DEF Bought, Free, Subs

(* To be free is to have no offer.                                          *)
LEMMA FreeSub == Free \in Subs /\ Free.offer = NoOffer
BY DEF Free, Subs

(* More checkouts leave room for what there was.                            *)
LEMMA OnsGrow ==
    ASSUME NEW n \in Nat, NEW m \in Nat, n <= m
    PROVE  /\ BillOns(n) \subseteq BillOns(m) /\ Backs(n) \subseteq Backs(m)
           /\ Aways(n) \subseteq Aways(m)
           /\ Entries(1 .. n, PaidStates) \subseteq Entries(1 .. m, PaidStates)
           /\ \A kind, at : OnOf(kind, at, n) \subseteq OnOf(kind, at, m)
<1>1. 0 .. n \subseteq 0 .. m /\ 1 .. n \subseteq 1 .. m
    OBVIOUS
<1>2. Entries(1 .. n, PaidStates) \subseteq Entries(1 .. m, PaidStates)
    BY <1>1, EntriesGrow
<1>3. BillOns(n) \subseteq BillOns(m)
    BY <1>1 DEF BillOns
<1>4. Backs(n) \subseteq Backs(m) /\ Aways(n) \subseteq Aways(m)
    BY <1>1 DEF Backs, Aways
<1>5. \A kind, at : OnOf(kind, at, n) \subseteq OnOf(kind, at, m)
    BY <1>1 DEF OnOf
<1> QED
    BY <1>2, <1>3, <1>4, <1>5

(* What requests are about is among what they may be about.                 *)
LEMMA OnOfIs ==
    ASSUME NEW n \in Nat, NEW kind, NEW at
    PROVE  OnOf(kind, at, n) \subseteq BillOns(n)
BY DEF OnOf, BillOns

(* The parts of a request, and what follows for a change.                   *)
LEMMA BillJobParts ==
    ASSUME BillInv, NEW r \in billJobs.flying
    PROVE  /\ r.no \in 1 .. billJobs.count /\ r.kind \in BillKinds /\ r.at \in JobStates
           /\ r.on \in OnOf(r.kind, r.at, Len(checkouts)) /\ Len(checkouts) \in Nat
           /\ r.kind \in Changing => /\ Pending(billJobs, r.kind)
                                     /\ confirming \in {<<"none">>, DialogOf(r.kind, r.on)}
<1>1. /\ r.no \in 1 .. billJobs.count /\ r.kind \in BillKinds /\ r.at \in JobStates
      /\ r.on \in OnOf(r.kind, r.at, Len(checkouts))
    BY JobsParts DEF BillInv, OnsFit, Requests
<1>2. r.kind \in Changing => billJobs.heard[r.kind] = r.no
    BY DEF BillInv, ChangesHeard, HeardUnless
<1>3. r.kind \in Changing => confirming \in {<<"none">>, DialogOf(r.kind, r.on)}
    BY DEF BillInv, DialogsFit
<1>4. Len(checkouts) \in Nat
    BY DEF BillInv
<1> QED
    BY <1>1, <1>2, <1>3, <1>4 DEF Pending

(* The page of billing begins without a request.                            *)
LEMMA BillStarts == BillInit => BillInv
<1> SUFFICES ASSUME BillInit PROVE BillInv
    OBVIOUS
<1>1. sub \in Subs /\ (sub.offer = NoOffer => sub = Free)
    BY FreeSub, BoughtSub DEF BillInit, Bought
<1>2. checkouts = <<>> /\ checkouts \in Seq(Checkouts) /\ Len(checkouts) = 0
    BY DEF BillInit
<1>3. bill \in Entries({0}, Subs) /\ paid \in Entries(1 .. Len(checkouts), PaidStates)
    BY EmptyEntry DEF BillInit
<1>4. back \in Backs(Len(checkouts)) /\ period \in Periods /\ away \in Aways(Len(checkouts))
    BY <1>2 DEF BillInit, Backs, WaitFor, Periods, Unseeded, Period, Aways
<1>5. confirming \in Confirms /\ buying \in Offer \cup {NoOffer}
    BY DEF BillInit, Confirms
<1>6. billJobs \in Jobs(BillKinds, BillOns(Len(checkouts))) /\ billJobs.flying = {}
    BY NoJobs DEF BillInit, NoRequests
<1>7. OnsFit /\ DialogsFit /\ ChangesHeard
    BY <1>6 DEF OnsFit, DialogsFit, ChangesHeard, HeardUnless
<1> QED
    BY <1>1, <1>2, <1>3, <1>4, <1>5, <1>6, <1>7 DEF BillInv, BillScreen

(* The type invariant is part of it.                                        *)
LEMMA BillTyped == BillInv => BillTypeOK
<1> SUFFICES ASSUME BillInv PROVE BillTypeOK
    OBVIOUS
<1>1. \A r \in billJobs.flying : r.no \in 1 .. billJobs.count
    BY BillJobParts
<1>2. /\ sub.offer \in Offer \cup {NoOffer} /\ sub.next \in Offer \cup {NoOffer}
      /\ sub.offer = NoOffer => sub = Free
    BY DEF BillInv, Subs
<1>3. \A c \in DOMAIN checkouts : checkouts[c].at \in {"open", "applied", "failed"}
    <2>1. checkouts \in Seq(Checkouts)
        BY DEF BillInv
    <2>2. \A c \in DOMAIN checkouts : checkouts[c] \in Checkouts
        BY <2>1
    <2> QED
        BY <2>2 DEF Checkouts, PaidStates
<1>4. HasData(bill) => bill.data[1].offer \in Offer \cup {NoOffer}
    <2>1. HasData(bill) => bill.data[1] \in Subs
        BY EntryParts DEF BillInv, BillScreen
    <2> QED
        BY <2>1 DEF Subs
<1>5. /\ back.on \in 0 .. Len(checkouts) /\ back.slow \in BOOLEAN /\ back.dismissed \in BOOLEAN
      /\ period \in [is : Period, seeded : BOOLEAN]
    BY DEF BillInv, BillScreen, Backs, Periods
<1>6. confirming[1] \in {"none", "change", "cancel"}
    BY DEF BillInv, BillScreen, Confirms
<1>7. away \in {<<>>} \cup {<<c>> : c \in 0 .. Len(checkouts)}
    BY DEF BillInv, BillScreen, Aways
<1> QED
    BY <1>1, <1>2, <1>3, <1>4, <1>5, <1>6, <1>7 DEF BillInv, BillScreen, BillTypeOK

(* The page and the caches change, the requests do not.                     *)
LEMMA BillScreenStep ==
    ASSUME BillInv, UNCHANGED <<billApi, billJobs>>, BillScreen', DialogsFit'
    PROVE  BillInv'
BY DEF BillInv, OnsFit, ChangesHeard, HeardUnless, billApi

(* A press; a change is pressed in its own dialog, or with none open.       *)
LEMMA BillPressed ==
    ASSUME BillInv, NEW kind \in BillKinds, NEW on \in OnOf(kind, "asked", Len(checkouts)),
           PressBill(kind, on),
           kind \in Changing => /\ ~Pending(billJobs, kind)
                                /\ confirming \in {<<"none">>, DialogOf(kind, on)},
           UNCHANGED <<billApi, bill, paid, back, period, confirming, away>>,
           buying' \in Offer \cup {NoOffer}
    PROVE  BillInv'
<1> DEFINE n == Len(checkouts)
           new == [no |-> billJobs.count + 1, kind |-> kind, on |-> on, at |-> "asked"]
<1>1. billJobs \in Jobs(BillKinds, BillOns(n)) /\ n \in Nat /\ on \in BillOns(n)
    BY OnOfIs DEF BillInv
<1>2. billJobs' = Press(billJobs, kind, on)
    BY DEF PressBill
<1>3. billJobs' \in Jobs(BillKinds, BillOns(n)) /\ billJobs'.flying = billJobs.flying \cup {new}
    BY <1>1, <1>2, PressJobs
<1>4. new.kind = kind /\ new.on = on /\ new.at = "asked"
    OBVIOUS
<1> HIDE DEF new
<1>5. OnsFit'
    BY <1>3, <1>4 DEF BillInv, OnsFit, billApi
<1>6. DialogsFit'
    BY <1>3, <1>4 DEF BillInv, DialogsFit
<1>7. ChangesHeard'
    <2>1. ASSUME NEW k \in Changing PROVE HeardUnless(billJobs', k, {})
        <3>1. k \in BillKinds /\ HeardUnless(billJobs, k, {})
            BY DEF BillInv, ChangesHeard, BillKinds
        <3>2. kind = k => billJobs.heard[k] = 0
            BY DEF Pending
        <3> QED
            BY <1>1, <1>2, <3>1, <3>2, PressHeard
    <2> QED
        BY <2>1 DEF ChangesHeard
<1>8. BillScreen'
    BY DEF BillInv, BillScreen, billApi
<1> QED
    BY <1>3, <1>5, <1>6, <1>7, <1>8 DEF BillInv, billApi

(* The API takes a request and answers it.                                  *)
LEMMA BillTaken ==
    ASSUME BillInv, NEW r \in billJobs.flying, NEW at \in JobStates,
           checkouts' \in Seq(Checkouts), Len(checkouts) <= Len(checkouts'),
           NEW on \in OnOf(r.kind, at, Len(checkouts')), r.kind \in Changing => on = r.on,
           billJobs' = Answered(billJobs, r, at, on),
           sub' \in Subs, sub'.offer = NoOffer => sub' = Free,
           UNCHANGED <<bill, paid, back, period, confirming, buying, away>>
    PROVE  BillInv'
<1> DEFINE n == Len(checkouts)
           m == Len(checkouts')
           new == [no |-> r.no, kind |-> r.kind, on |-> on, at |-> at]
<1>1. n \in Nat /\ m \in Nat /\ n <= m
    BY DEF BillInv
<1>2. billJobs \in Jobs(BillKinds, BillOns(m)) /\ on \in BillOns(m)
    BY <1>1, OnsGrow, JobsGrow, OnOfIs DEF BillInv
<1>3. /\ billJobs' \in Jobs(BillKinds, BillOns(m))
      /\ billJobs'.flying = (billJobs.flying \ {r}) \cup {new}
    BY <1>2, AnsweredJobs
<1>4. new.kind = r.kind /\ new.on = on /\ new.at = at
    OBVIOUS
<1> HIDE DEF new
<1>5. OnsFit'
    BY <1>1, <1>3, <1>4, OnsGrow DEF BillInv, OnsFit
<1>6. DialogsFit'
    BY <1>3, <1>4 DEF BillInv, DialogsFit
<1>7. ChangesHeard'
    BY <1>2, AnsweredHeard DEF BillInv, ChangesHeard
<1>8. BillScreen'
    BY <1>1, OnsGrow DEF BillInv, BillScreen
<1> QED
    BY <1>3, <1>5, <1>6, <1>7, <1>8 DEF BillInv

(* An answer comes back, or none does.                                      *)
LEMMA BillOver ==
    ASSUME BillInv, NEW r \in billJobs.flying, billJobs' = Over(billJobs, r),
           UNCHANGED billApi, confirming' \in {confirming, <<"none">>}, BillScreen'
    PROVE  BillInv'
<1>1. billJobs \in Jobs(BillKinds, BillOns(Len(checkouts)))
    BY DEF BillInv
<1>2. /\ billJobs' \in Jobs(BillKinds, BillOns(Len(checkouts)))
      /\ billJobs'.flying = billJobs.flying \ {r}
    BY <1>1, OverJobs
<1>3. OnsFit' /\ DialogsFit'
    BY <1>2 DEF BillInv, OnsFit, DialogsFit, billApi
<1>4. ChangesHeard'
    <2>1. ASSUME NEW k \in Changing PROVE HeardUnless(billJobs', k, {})
        <3>1. k \in BillKinds /\ HeardUnless(billJobs, k, {})
            BY DEF BillInv, ChangesHeard, BillKinds
        <3> QED
            BY <1>1, <3>1, OverHeard
    <2> QED
        BY <2>1 DEF ChangesHeard
<1> QED
    BY <1>2, <1>3, <1>4 DEF BillInv, billApi

(* A change leaves a subscription, and one that is paid for.                *)
LEMMA ChangedSub ==
    ASSUME BillInv, NEW r \in billJobs.flying, r.kind \in Changing, sub.offer # NoOffer,
           NEW s \in Changed(r)
    PROVE  s \in Subs /\ s.offer # NoOffer
<1>1. sub \in Subs /\ sub.offer \in Offer
    BY DEF BillInv, Subs
<1>2. CASE r.kind = "cancel"
    <2>1. s = [sub EXCEPT !.ends = TRUE, !.next = NoOffer]
        BY <1>2 DEF Changed
    <2> QED
        BY <1>1, <2>1 DEF Subs
<1>3. CASE r.kind = "resume"
    <2>1. s = [sub EXCEPT !.ends = FALSE]
        BY <1>3 DEF Changed
    <2> QED
        BY <1>1, <2>1 DEF Subs
<1>4. CASE r.kind = "change"
    <2> DEFINE o == IF r.on \in Offer THEN r.on ELSE Tail(r.on)
    <2>1. r.on \in Offer \cup Stays
        BY <1>4, BillJobParts DEF OnOf
    <2>2. o \in Offer
        BY <2>1, OfferParts DEF Stays
    <2>3. s \in {Bought(o), [sub EXCEPT !.next = o]}
        BY <1>4 DEF Changed
    <2> HIDE DEF o
    <2>4. [sub EXCEPT !.next = o] \in Subs /\ [sub EXCEPT !.next = o].offer = sub.offer
        BY <1>1, <2>2 DEF Subs
    <2> QED
        BY <1>1, <2>2, <2>3, <2>4, BoughtSub
<1> QED
    BY <1>2, <1>3, <1>4 DEF Changing

(* Who may ask for a change has no dialog open, and no change is on its     *)
(* way; the plan there is to change is on the screen.                       *)
LEMMA MayAskParts ==
    ASSUME BillInv, MayAsk
    PROVE  /\ confirming = <<"none">> /\ \A r \in billJobs.flying : r.kind \notin Changing
           /\ \A k \in Changing : ~Pending(billJobs, k)
           /\ Shown \in Subs /\ Shown.offer \in Offer
<1>1. confirming = <<"none">>
    BY DEF MayAsk, Managed, Dialog
<1>2. \A k \in Changing : ~Pending(billJobs, k)
    BY DEF MayAsk, Changes
<1>3. \A r \in billJobs.flying : r.kind \notin Changing
    BY <1>2, BillJobParts
<1>4. Shown \in Subs
    BY EntryParts DEF BillInv, BillScreen, MayAsk, Managed, Listed, Shown
<1>5. Shown.offer \in Offer
    BY <1>4 DEF MayAsk, Managed, Subs
<1> QED
    BY <1>1, <1>2, <1>3, <1>4, <1>5

(* The reader's steps that ask the API for nothing.                         *)
LEMMA BillReaderStep ==
    ASSUME BillInv,
           \/ \E i \in Period : ChoosePeriod(i)
           \/ \E p \in Plan : AskChange(p)
           \/ AskCancel \/ DropConfirm
    PROVE  BillInv'
<1>0. BillScreen /\ DialogsFit
    BY DEF BillInv
<1>1. ASSUME NEW i \in Period, ChoosePeriod(i) PROVE BillInv'
    <2>1. period' \in Periods
        BY <1>0, <1>1 DEF ChoosePeriod, BillScreen, Periods
    <2>2. BillScreen' /\ DialogsFit'
        BY <1>0, <1>1, <2>1 DEF ChoosePeriod, BillScreen, DialogsFit, billApi
    <2> QED
        BY <1>1, <2>2, BillScreenStep DEF ChoosePeriod
<1>2. ASSUME NEW p \in Plan, AskChange(p) PROVE BillInv'
    <2>1. <<p, period.is>> \in Offer
        BY <1>0 DEF BillScreen, Periods, Offer
    <2>2. confirming' \in Confirms
        BY <1>2, <2>1 DEF AskChange, Confirms
    <2>3. DialogsFit'
        BY <1>2, MayAskParts DEF AskChange, DialogsFit
    <2>4. BillScreen'
        BY <1>0, <1>2, <2>2 DEF AskChange, BillScreen, billApi
    <2> QED
        BY <1>2, <2>3, <2>4, BillScreenStep DEF AskChange
<1>3. CASE AskCancel
    <2>1. DialogsFit'
        BY <1>3, MayAskParts DEF AskCancel, DialogsFit
    <2>2. BillScreen'
        BY <1>0, <1>3 DEF AskCancel, BillScreen, Confirms, billApi
    <2> QED
        BY <1>3, <2>1, <2>2, BillScreenStep DEF AskCancel
<1>4. CASE DropConfirm
    <2>1. DialogsFit' /\ BillScreen'
        BY <1>0, <1>4 DEF DropConfirm, DialogsFit, BillScreen, Confirms, billApi
    <2> QED
        BY <1>4, <2>1, BillScreenStep DEF DropConfirm
<1> QED
    BY <1>1, <1>2, <1>3, <1>4

(* The reader's steps that send a request.                                  *)
LEMMA BillPressStep ==
    ASSUME BillInv, (\E p \in Plan : Buy(p)) \/ Confirm \/ Undo \/ OpenPortal
    PROVE  BillInv'
<1>0. BillScreen
    BY DEF BillInv
<1>1. ASSUME NEW p \in Plan, Buy(p) PROVE BillInv'
    <2>1. /\ <<p, period.is>> \in OnOf("checkout", "asked", Len(checkouts))
          /\ <<p, period.is>> \in Offer
        BY <1>0 DEF BillScreen, Periods, Offer, OnOf
    <2>2. "checkout" \in BillKinds /\ "checkout" \notin Changing
        BY DEF BillKinds, Changing
    <2> QED
        BY <1>1, <2>1, <2>2, BillPressed DEF Buy
<1>2. CASE Confirm
    <2>1. CASE confirming[1] = "change" /\ ~Pending(billJobs, "change")
               /\ PressBill("change", confirming[2])
        <3>1. PICK o \in Offer : confirming = <<"change", o>>
            BY <1>0, <2>1 DEF BillScreen, Confirms
        <3>2. confirming[2] = o /\ confirming = DialogOf("change", o)
            BY <3>1 DEF DialogOf
        <3>3. "change" \in BillKinds /\ o \in OnOf("change", "asked", Len(checkouts))
            BY DEF BillKinds, Changing, OnOf
        <3>4. PressBill("change", o)
            BY <2>1, <3>2
        <3> QED
            BY <1>0, <1>2, <2>1, <3>2, <3>3, <3>4, BillPressed DEF Confirm, BillScreen
    <2>2. CASE confirming[1] = "cancel" /\ ~Pending(billJobs, "cancel")
               /\ PressBill("cancel", NoOffer)
        <3>1. confirming = DialogOf("cancel", NoOffer)
            BY <1>0, <2>2 DEF BillScreen, Confirms, DialogOf
        <3>2. "cancel" \in BillKinds /\ NoOffer \in OnOf("cancel", "asked", Len(checkouts))
            BY DEF BillKinds, Changing, OnOf
        <3> QED
            BY <1>0, <1>2, <2>2, <3>1, <3>2, BillPressed DEF Confirm, BillScreen
    <2> QED
        BY <1>2, <2>1, <2>2 DEF Confirm
<1>3. CASE Undo
    <2>0. /\ confirming = <<"none">> /\ \A k \in Changing : ~Pending(billJobs, k)
          /\ Shown.offer \in Offer
        BY <1>3, MayAskParts DEF Undo
    <2>1. CASE PressBill("resume", NoOffer)
        <3>1. "resume" \in BillKinds /\ NoOffer \in OnOf("resume", "asked", Len(checkouts))
            BY DEF BillKinds, Changing, OnOf
        <3> QED
            BY <1>0, <1>3, <2>0, <2>1, <3>1, BillPressed DEF Undo, BillScreen
    <2>2. CASE PressBill("change", <<"stay">> \o Shown.offer)
        <3> DEFINE on == <<"stay">> \o Shown.offer
        <3>1. "change" \in BillKinds /\ on \in OnOf("change", "asked", Len(checkouts))
            BY <2>0 DEF BillKinds, Changing, OnOf, Stays
        <3> HIDE DEF on
        <3>2. PressBill("change", on)
            BY <2>2 DEF on
        <3> QED
            BY <1>0, <1>3, <2>0, <3>1, <3>2, BillPressed DEF Undo, BillScreen
    <2> QED
        BY <1>3, <2>1, <2>2 DEF Undo
<1>4. CASE OpenPortal
    <2>1. /\ "portal" \in BillKinds /\ "portal" \notin Changing
          /\ NoOffer \in OnOf("portal", "asked", Len(checkouts))
        BY DEF BillKinds, Changing, OnOf
    <2> QED
        BY <1>0, <1>4, <2>1, BillPressed DEF OpenPortal, BillScreen
<1> QED
    BY <1>1, <1>2, <1>3, <1>4

(* What the page does on its own: the caches, and the return from the       *)
(* provider.                                                                *)
LEMMA BillPageStep ==
    ASSUME BillInv,
           \/ PaidSettles \/ PaidIsSlow \/ PaidDismissed \/ PollPaid \/ PaidAnswered \/ PaidFails
           \/ BillAnswered \/ BillFails \/ BillRefetch \/ ServeBill \/ ServePaid
    PROVE  BillInv'
<1> DEFINE n == Len(checkouts)
<1>0. /\ BillScreen /\ DialogsFit /\ n \in Nat /\ sub \in Subs /\ checkouts \in Seq(Checkouts)
      /\ bill \in Entries({0}, Subs) /\ paid \in Entries(1 .. n, PaidStates)
      /\ back \in Backs(n) /\ period \in Periods
    BY DEF BillInv, BillScreen
<1>1. ASSUME UNCHANGED <<billApi, confirming, buying, billJobs, away>>,
             bill' \in Entries({0}, Subs), paid' \in Entries(1 .. n, PaidStates),
             back' \in Backs(n), period' \in Periods
      PROVE  BillInv'
    <2>1. BillScreen' /\ DialogsFit'
        BY <1>0, <1>1 DEF BillScreen, DialogsFit, billApi
    <2> QED
        BY <1>1, <2>1, BillScreenStep
<1>b. WaitFor(0) \in Backs(n) /\ [WaitFor(0) EXCEPT !.dismissed = TRUE] \in Backs(n)
    <2>1. WaitFor(0) \in Backs(n)
        BY <1>0 DEF WaitFor, Backs
    <2>2. \A w \in Backs(n) : [w EXCEPT !.dismissed = TRUE] \in Backs(n)
        BY DEF Backs
    <2> QED
        BY <2>1, <2>2
<1>2. CASE PaidSettles
    <2>1. bill' \in Entries({0}, Subs)
        BY <1>0, <1>2, AskEntry DEF PaidSettles, Announce
    <2> QED
        BY <1>0, <1>1, <1>2, <1>b, <2>1 DEF PaidSettles
<1>3. CASE PaidIsSlow
    <2>1. back' \in Backs(n)
        BY <1>0, <1>3 DEF PaidIsSlow, Backs
    <2> QED
        BY <1>0, <1>1, <1>3, <2>1 DEF PaidIsSlow
<1>4. CASE PaidDismissed
    BY <1>0, <1>1, <1>4, <1>b DEF PaidDismissed
<1>5. CASE PollPaid
    <2>1. back.on \in 1 .. n
        BY <1>0, <1>5 DEF PollPaid, Waits, Backs
    <2>2. paid' \in Entries(1 .. n, PaidStates)
        BY <1>0, <1>5, <2>1, AskEntry DEF PollPaid
    <2> QED
        BY <1>0, <1>1, <1>5, <2>2 DEF PollPaid
<1>6. CASE PaidAnswered
    BY <1>0, <1>1, <1>6, InstallEntry DEF PaidAnswered
<1>7. CASE PaidFails
    BY <1>0, <1>1, <1>7, FailEntry DEF PaidFails
<1>8. CASE BillAnswered
    <2>1. bill' \in Entries({0}, Subs) /\ HasData(bill')
        BY <1>0, <1>8, InstallEntry DEF BillAnswered
    <2>2. bill'.data[1] \in Subs
        BY <2>1, EntryParts
    <2>3. bill'.data[1].offer # NoOffer => bill'.data[1].offer[2] \in Period
        BY <2>2, OfferParts DEF Subs
    <2>4. period' \in Periods
        BY <1>0, <1>8, <2>3 DEF BillAnswered, Seed, Periods
    <2> QED
        BY <1>0, <1>1, <1>8, <2>1, <2>4 DEF BillAnswered
<1>9. CASE BillFails
    BY <1>0, <1>1, <1>9, FailEntry DEF BillFails
<1>10. CASE BillRefetch
    BY <1>0, <1>1, <1>10, AskEntry DEF BillRefetch
<1>11. CASE ServeBill
    BY <1>0, <1>1, <1>11, ServeEntry DEF ServeBill
<1>12. CASE ServePaid
    <2>1. paid.wire[2] \in 1 .. n
        BY <1>0, <1>12, EntryParts DEF ServePaid
    <2>2. checkouts[paid.wire[2]] \in Checkouts
        BY <1>0, <2>1
    <2>3. paid' \in Entries(1 .. n, PaidStates)
        BY <1>0, <1>12, <2>2, ServeEntry DEF ServePaid, Checkouts
    <2> QED
        BY <1>0, <1>1, <1>12, <2>3 DEF ServePaid
<1> QED
    BY <1>2, <1>3, <1>4, <1>5, <1>6, <1>7, <1>8, <1>9, <1>10, <1>11, <1>12

(* The API takes a request.                                                 *)
LEMMA BillTakeStep ==
    ASSUME BillInv, NEW r \in billJobs.flying, TakeBillJob(r)
    PROVE  BillInv'
<1> DEFINE n == Len(checkouts)
<1>0. /\ sub \in Subs /\ (sub.offer = NoOffer => sub = Free)
      /\ checkouts \in Seq(Checkouts) /\ n \in Nat /\ n <= n
      /\ r.kind \in BillKinds /\ r.on \in OnOf(r.kind, "asked", n)
    BY BillJobParts DEF BillInv, TakeBillJob
<1>s. "done" \in JobStates /\ "refused" \in JobStates
    BY DEF JobStates
<1>1. CASE /\ r.kind = "checkout" /\ sub = Free
           /\ checkouts' = Append(checkouts, [offer |-> r.on, at |-> "open"])
           /\ billJobs' = Answered(billJobs, r, "done", <<Len(checkouts')>>) /\ UNCHANGED sub
    <2> DEFINE new == [offer |-> r.on, at |-> "open"]
               on == <<Len(checkouts')>>
    <2>1. new \in Checkouts
        BY <1>0, <1>1 DEF OnOf, Checkouts, PaidStates
    <2> HIDE DEF new
    <2>2. checkouts' = Append(checkouts, new)
        BY <1>1 DEF new
    <2>3. checkouts' \in Seq(Checkouts) /\ Len(checkouts') = n + 1
        BY <1>0, <2>1, <2>2, AppendProperties
    <2>4. n <= Len(checkouts') /\ Len(checkouts') \in 1 .. Len(checkouts')
        BY <1>0, <2>3
    <2>5. on \in OnOf(r.kind, "done", Len(checkouts')) /\ r.kind \notin Changing
        BY <1>1, <2>4 DEF OnOf, Changing
    <2>6. billJobs' = Answered(billJobs, r, "done", on)
        BY <1>1
    <2> HIDE DEF on
    <2>7. UNCHANGED <<bill, paid, back, period, confirming, buying, away>>
        BY DEF TakeBillJob
    <2>8. sub' \in Subs /\ (sub'.offer = NoOffer => sub' = Free)
        BY <1>0, <1>1
    <2> QED
        BY <1>s, <2>3, <2>4, <2>5, <2>6, <2>7, <2>8, BillTaken
<1>2. CASE r.kind = "portal" /\ billJobs' = Answered(billJobs, r, "done", <<0>>)
           /\ UNCHANGED billApi
    <2>1. <<0>> \in OnOf(r.kind, "done", Len(checkouts')) /\ r.kind \notin Changing
        BY <1>2 DEF OnOf, Changing
    <2>2. checkouts' = checkouts /\ sub' = sub
        BY <1>2 DEF billApi
    <2> QED
        BY <1>0, <1>2, <1>s, <2>1, <2>2, BillTaken DEF TakeBillJob
<1>3. CASE r.kind \in Changing /\ sub.offer # NoOffer /\ sub' \in Changed(r)
           /\ billJobs' = Answered(billJobs, r, "done", r.on) /\ UNCHANGED checkouts
    <2>1. sub' \in Subs /\ sub'.offer # NoOffer
        BY <1>3, ChangedSub
    <2>2. r.on \in OnOf(r.kind, "done", Len(checkouts'))
        BY <1>0, <1>3 DEF OnOf, Changing
    <2> QED
        BY <1>0, <1>3, <1>s, <2>1, <2>2, BillTaken DEF TakeBillJob
<1>4. CASE billJobs' = Answered(billJobs, r, "refused", r.on) /\ UNCHANGED billApi
    <2>1. checkouts' = checkouts /\ sub' = sub
        BY <1>4 DEF billApi
    <2>2. r.on \in OnOf(r.kind, "refused", Len(checkouts'))
        BY <1>0, <2>1 DEF OnOf
    <2> QED
        BY <1>0, <1>4, <1>s, <2>1, <2>2, BillTaken DEF TakeBillJob
<1> QED
    BY <1>1, <1>2, <1>3, <1>4 DEF TakeBillJob

(* The provider and the end of the period.                                  *)
LEMMA BillApiStep ==
    ASSUME BillInv, (\E c \in DOMAIN checkouts : CheckoutEnds(c)) \/ PeriodEnds
    PROVE  BillInv'
<1> DEFINE n == Len(checkouts)
<1>0. /\ sub \in Subs /\ checkouts \in Seq(Checkouts) /\ n \in Nat /\ DOMAIN checkouts = 1 .. n
    BY DEF BillInv
<1>1. ASSUME checkouts' \in Seq(Checkouts), Len(checkouts') = n, sub' \in Subs,
             sub'.offer = NoOffer => sub' = Free,
             UNCHANGED <<bill, paid, back, period, confirming, buying, billJobs, away>>
      PROVE  BillInv'
    BY <1>1 DEF BillInv, BillScreen, OnsFit, DialogsFit, ChangesHeard, HeardUnless
<1>2. ASSUME NEW c \in DOMAIN checkouts, CheckoutEnds(c) PROVE BillInv'
    <2>1. checkouts[c] \in Checkouts /\ c \in 1 .. n
        BY <1>0
    <2>2. PICK at \in {"failed", "applied"} : checkouts' = [checkouts EXCEPT ![c].at = at]
        BY <1>2 DEF CheckoutEnds
    <2> DEFINE e == [checkouts[c] EXCEPT !.at = at]
    <2>3. checkouts' = [checkouts EXCEPT ![c] = e]
        BY <2>2
    <2>4. e \in Checkouts
        BY <2>1 DEF Checkouts, PaidStates
    <2> HIDE DEF e
    <2>5. checkouts' \in Seq(Checkouts) /\ Len(checkouts') = n
        BY <1>0, <2>1, <2>3, <2>4, ExceptSeq
    <2>6. sub' \in Subs /\ (sub'.offer = NoOffer => sub' = Free)
        <3>1. checkouts[c].offer \in Offer
            BY <2>1 DEF Checkouts
        <3>2. sub' \in {sub, Bought(checkouts[c].offer)}
            BY <1>2 DEF CheckoutEnds
        <3>3. sub.offer = NoOffer => sub = Free
            BY DEF BillInv
        <3> QED
            BY <1>0, <3>1, <3>2, <3>3, BoughtSub
    <2> QED
        BY <1>1, <1>2, <2>5, <2>6 DEF CheckoutEnds
<1>3. CASE PeriodEnds
    <2>1. sub' \in Subs /\ (sub'.offer = NoOffer => sub' = Free)
        <3>1. CASE sub.ends
            BY <1>3, <3>1, FreeSub DEF PeriodEnds
        <3>2. CASE ~sub.ends
            <4>1. sub.next \in Offer /\ sub' = Bought(sub.next)
                BY <1>0, <1>3, <3>2 DEF PeriodEnds, Subs
            <4> QED
                BY <4>1, BoughtSub
        <3> QED
            BY <3>1, <3>2
    <2> QED
        BY <1>0, <1>1, <1>3, <2>1 DEF PeriodEnds
<1> QED
    BY <1>2, <1>3

(* The end of a request.                                                    *)
LEMMA BillEndStep ==
    ASSUME BillInv, NEW r \in billJobs.flying, BillJobDone(r) \/ BillJobFails(r)
    PROVE  BillInv'
<1> DEFINE n == Len(checkouts)
<1>0. BillScreen /\ n \in Nat /\ bill \in Entries({0}, Subs)
    BY DEF BillInv, BillScreen
<1>1. CASE BillJobDone(r)
    <2>1. bill' \in Entries({0}, Subs)
        BY <1>0, <1>1, AskEntry DEF BillJobDone
    <2>2. away' \in Aways(n)
        <3>1. r.on \in OnOf(r.kind, "done", n)
            BY <1>1, BillJobParts DEF BillJobDone
        <3>2. r.kind \in {"checkout", "portal"} => r.on \in {<<c>> : c \in 0 .. n}
            BY <1>0, <3>1 DEF OnOf
        <3> QED
            BY <1>1, <3>2 DEF BillJobDone, Aways
    <2>3. confirming' \in {confirming, <<"none">>} /\ <<"none">> \in Confirms
        BY <1>1 DEF BillJobDone, Confirms
    <2>4. BillScreen'
        BY <1>0, <1>1, <2>1, <2>2, <2>3 DEF BillJobDone, BillScreen, billApi
    <2> QED
        BY <1>1, <2>3, <2>4, BillOver DEF BillJobDone
<1>2. CASE BillJobFails(r)
    <2>1. BillScreen'
        BY <1>0, <1>2 DEF BillJobFails, BillScreen, billApi
    <2> QED
        BY <1>2, <2>1, BillOver DEF BillJobFails
<1> QED
    BY <1>1, <1>2

(* The page that is opened again starts anew.                               *)
LEMMA ComeBackStep ==
    ASSUME BillInv, ComeBack
    PROVE  BillInv'
<1> DEFINE n == Len(checkouts)
           J == Jobs(BillKinds, BillOns(n))
           m == Unhear(billJobs, BillKinds)
<1>0. n \in Nat /\ billJobs \in J /\ away \in Aways(n) /\ UNCHANGED <<sub, checkouts>>
    BY DEF BillInv, BillScreen, ComeBack, billApi
<1>1. away[1] \in 0 .. n
    BY <1>0 DEF ComeBack, Here, Aways
<1>2. m \in J
    BY <1>0, UnhearJobs
<1>3. billJobs' = [m EXCEPT !.flying = {}]
    BY DEF ComeBack
<1> HIDE DEF m, J
<1>4. m = [flying |-> m.flying, heard |-> m.heard, count |-> m.count]
      /\ m.heard \in [BillKinds -> Nat] /\ m.count \in Nat
    BY <1>2, JobsParts DEF J
<1>5. billJobs' = [flying |-> {}, heard |-> m.heard, count |-> m.count]
    BY <1>3, <1>4
<1>6. billJobs' \in J /\ billJobs'.flying = {}
    BY <1>4, <1>5, JobsMade DEF J
<1>7. OnsFit' /\ DialogsFit' /\ ChangesHeard'
    BY <1>6 DEF OnsFit, DialogsFit, ChangesHeard, HeardUnless
<1>8. bill' \in Entries({0}, Subs) /\ paid' \in Entries(1 .. n, PaidStates)
    BY <1>0, <1>1, EmptyEntry, AskEntry DEF ComeBack
<1>9. back' \in Backs(n) /\ period' \in Periods
    BY <1>1 DEF ComeBack, WaitFor, Backs, Unseeded, Period, Periods
<1>10. confirming' \in Confirms /\ buying' \in Offer \cup {NoOffer} /\ away' \in Aways(n)
    BY DEF ComeBack, Confirms, Aways
<1>11. BillScreen'
    BY <1>0, <1>8, <1>9, <1>10 DEF BillScreen
<1> QED
    BY <1>0, <1>6, <1>7, <1>11 DEF BillInv, J

(* Every step of the page of billing keeps the invariant.                   *)
LEMMA BillStep ==
    ASSUME BillInv, [BillNext]_billVars
    PROVE  BillInv'
<1>1. CASE UNCHANGED billVars
    BY <1>1 DEF billVars, BillInv, BillScreen, OnsFit, DialogsFit, ChangesHeard, HeardUnless
<1>2. CASE BillNext
    BY <1>2, BillReaderStep, BillPressStep, BillPageStep, BillTakeStep, BillApiStep, BillEndStep,
       ComeBackStep DEF BillNext
<1> QED
    BY <1>1, <1>2

(* A dialog that an answer closes is the answer's own.                      *)
LEMMA OwnDialog ==
    ASSUME BillInv, NEW r \in billJobs.flying, BillJobDone(r),
           confirming # <<"none">>, confirming' = <<"none">>
    PROVE  confirming = IF r.kind = "cancel" THEN <<"cancel">> ELSE <<r.kind, r.on>>
<1>1. r.kind \in Changing
    BY DEF BillJobDone, Changing
<1>2. confirming = DialogOf(r.kind, r.on)
    BY <1>1, BillJobParts
<1> QED
    BY <1>2 DEF DialogOf

-----------------------------------------------------------------------------
(* The dashboard: the page that is open takes its steps, the others wait.   *)
Pages == {"messages", "phone", "phones", "keys", "webhooks", "billing"}

Inv ==
    /\ SendInv /\ DeviceInv /\ PairInv /\ KeyInv /\ HookInv /\ BillInv
    /\ page \in Pages

(* Every page begins as it must.                                            *)
LEMMA Starts == Init => Inv
BY SendStarts, DeviceStarts, PairStarts, KeyStarts, HookStarts, BillStarts DEF Init, Inv, Pages

(* A step is one of every page, or leaves that page as it is.               *)
LEMMA StepOfEach ==
    ASSUME [Next]_vars
    PROVE  /\ [SendNext]_sendVars /\ [DeviceNext]_deviceVars /\ [PairNext]_pairVars
           /\ [KeyNext]_keyVars /\ [HookNext]_hookVars /\ [BillNext]_billVars
           /\ UNCHANGED page
BY DEF Next, vars

(* So every page keeps its invariant.                                       *)
LEMMA Step ==
    ASSUME Inv, [Next]_vars
    PROVE  Inv'
<1>1. /\ [SendNext]_sendVars /\ [DeviceNext]_deviceVars /\ [PairNext]_pairVars
      /\ [KeyNext]_keyVars /\ [HookNext]_hookVars /\ [BillNext]_billVars
      /\ UNCHANGED page
    BY StepOfEach
<1>2. SendInv' /\ DeviceInv' /\ PairInv'
    BY <1>1, SendStep, DeviceStep, PairStep DEF Inv
<1>3. KeyInv' /\ HookInv' /\ BillInv'
    BY <1>1, KeyStep, HookStep, BillStep DEF Inv
<1> QED
    BY <1>1, <1>2, <1>3 DEF Inv

(* All of it holds for as long as the tab is open.                          *)
LEMMA Invariance == Init /\ [][Next]_vars => []Inv
BY Starts, Step, PTL

(* Nothing but the steps matters to what is proved here.                    *)
LEMMA StepsOnly == FairSpec => Init /\ [][Next]_vars
BY DEF FairSpec

(* Every page is in one of its states: the caches hold what the API can     *)
(* have said, a dialog is about something that exists.                      *)
THEOREM TypeCorrect == FairSpec => []TypeOK
<1>1. Inv => TypeOK
    BY SendTyped, DeviceTyped, PairTyped, KeyTyped, HookTyped, BillTyped DEF Inv, TypeOK, Pages
<1> QED
    BY <1>1, Invariance, StepsOnly, PTL

(* What the reader has typed is kept: the answer to a draft they dismissed  *)
(* leaves the dialog they have open, and a phone that changes under the     *)
(* form leaves the fields they are editing, marked where both have moved.   *)
THEOREM TypedIsKeptHolds == FairSpec => TypedIsKept
<1> DEFINE Heeds == \A d \in dismissed : (PostAccepted(d) \/ PostFailed(d)) => dialog' = dialog
           Edits == \A x \in Field :
                        (DeviceAnswered /\ form.at = "shown" /\ form'.at = "shown"
                            /\ form.text[x] # form.seen.fields[x]) =>
                        /\ form'.text[x] = form.text[x]
                        /\ form'.seen.fields[x] # form.seen.fields[x] => form'.moved
<1>1. Inv => [Heeds]_sendVars
    BY DismissedUnheard DEF Inv
<1>2. Inv => [Edits]_deviceVars
    BY EditedStays DEF Inv
<1>3. [][Heeds]_sendVars /\ [][Edits]_deviceVars => TypedIsKept
    BY DEF TypedIsKept, FreshDraftKept, EditsKept
<1> HIDE DEF Heeds, Edits
<1>4. FairSpec => [][Heeds]_sendVars /\ [][Edits]_deviceVars
    BY <1>1, <1>2, Invariance, StepsOnly, PTL
<1> QED
    BY <1>3, <1>4, PTL

(* A secret the API tells once reaches the dialog that asked for it, unless *)
(* the reader has closed that dialog, and stays until they close it.        *)
THEOREM SecretKeptHolds == FairSpec => SecretKept
<1> DEFINE KeyIn == \A r \in keyJobs.flying :
                        (KeyJobDone(r) /\ r.kind = "create" /\ r.no \notin given) =>
                            making'.open /\ making'.shows = r.on
           KeyOn == making.shows # 0 => (making'.shows = making.shows \/ ~making'.open)
           HookIn == \A r \in hookJobs.flying :
                         (HookJobDone(r) /\ r.kind \in {"create", "rotate"} /\ r.no \notin left) =>
                             IF r.kind = "create"
                             THEN hookForm'.open /\ hookForm'.shows = r.on[2]
                             ELSE rotated'.on = r.on[1] /\ rotated'.shows = r.on[2]
           FormOn == hookForm.shows # 0 => (hookForm' = hookForm \/ ~hookForm'.open)
           TabOn == rotated.shows # 0 => (rotated' = rotated \/ rotated'.shows = 0)
<1>1. Inv => [KeyIn]_keyVars
    BY KeyComes DEF Inv
<1>2. Inv /\ [Next]_vars => [KeyOn]_keyVars
    BY KeyStays, StepOfEach DEF Inv
<1>3. Inv => [HookIn]_hookVars
    BY SecretComes DEF Inv
<1>4. Inv /\ [Next]_vars => [FormOn]_hookVars /\ [TabOn]_hookVars
    BY SecretStays, StepOfEach DEF Inv
<1>5. /\ [][KeyIn]_keyVars /\ [][KeyOn]_keyVars
      /\ [][HookIn]_hookVars /\ [][FormOn]_hookVars /\ [][TabOn]_hookVars
      => SecretKept
    BY DEF SecretKept, KeySecretKept, HookSecretKept
<1> HIDE DEF KeyIn, KeyOn, HookIn, FormOn, TabOn
<1>6. FairSpec => /\ [][KeyIn]_keyVars /\ [][KeyOn]_keyVars
                  /\ [][HookIn]_hookVars /\ [][FormOn]_hookVars /\ [][TabOn]_hookVars
    BY <1>1, <1>2, <1>3, <1>4, Invariance, StepsOnly, PTL
<1> QED
    BY <1>5, <1>6, PTL

(* The answer to a change of the plan closes the dialog it was confirmed    *)
(* in, never one opened since.                                              *)
THEOREM OwnDialogClosesHolds == FairSpec => OwnDialogCloses
<1> DEFINE Own == \A r \in billJobs.flying :
                      (BillJobDone(r) /\ confirming # <<"none">> /\ confirming' = <<"none">>) =>
                          confirming = IF r.kind = "cancel" THEN <<"cancel">>
                                       ELSE <<r.kind, r.on>>
<1>1. Inv => [Own]_billVars
    BY OwnDialog DEF Inv
<1>2. [][Own]_billVars => OwnDialogCloses
    BY DEF OwnDialogCloses
<1> HIDE DEF Own
<1>3. FairSpec => [][Own]_billVars
    BY <1>1, Invariance, StepsOnly, PTL
<1> QED
    BY <1>2, <1>3, PTL

=============================================================================
