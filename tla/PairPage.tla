------------------------------ MODULE PairPage ------------------------------
(***************************************************************************)
(* The list of phones and the dialog that pairs another.  Sources: src/web: *)
(* app/(app)/devices/page.tsx, components/devices/pair-dialog.tsx and their *)
(* hooks in lib/queries.ts.                                                 *)
(*                                                                          *)
(* A code stands for the phone that uses it.  The countdown is left out: an *)
(* expired code stays on the screen, and is watched on.                     *)
(***************************************************************************)
EXTENDS Naturals, Sequences, FiniteSets, QueryClient

CONSTANTS
    MaxCodes        \* bound: pairing codes ever made

ASSUME CodesAssumption == MaxCodes \in Nat

VARIABLES
    pairing,    \* PairFlow: the code it shows, the request for one
    codes,      \* the API: each pairing code, waiting, used or expired
    watch,      \* the cache: the code shown
    phones      \* the cache: how many phones the list shows

pairVars == <<pairing, codes, watch, phones>>

Used == {c \in DOMAIN codes : codes[c] = "used"}

PairTypeOK ==
    /\ pairing.shows \in 0 .. Len(codes)
    /\ pairing.wire[1] \in {"closed", "idle", "asked", "made"}
    /\ Len(codes) <= MaxCodes
    /\ \A c \in DOMAIN codes : codes[c] \in {"waiting", "used", "expired"}
    /\ watch.data \in {<<>>, <<"waiting">>, <<"used">>, <<"expired">>}
    /\ phones \in 0 .. Cardinality(Used)

PairInit ==
    /\ pairing = [shows |-> 0, wire |-> <<"closed">>]
    /\ codes = <<>> /\ watch = Empty /\ phones = 0

-----------------------------------------------------------------------------
(* The dialog makes a code when it opens, and forgets it when it closes. *)

AskForCode ==
    pairing' = [shows |-> 0, wire |-> <<"asked">>] /\ watch' = Empty /\ UNCHANGED <<codes, phones>>

OpenPair == pairing.wire = <<"closed">> /\ AskForCode

ClosePair ==
    /\ pairing.wire # <<"closed">>
    /\ pairing' = [shows |-> 0, wire |-> <<"closed">>] /\ watch' = Empty
    /\ UNCHANGED <<codes, phones>>

Paired == HasData(watch) /\ watch.data[1] = "used"

(* "New code", or "Try again": the code shown so far goes at once. *)
NewCode == pairing.wire = <<"idle">> /\ ~Paired /\ AskForCode

CodeArrives ==
    /\ pairing.wire[1] = "made"
    /\ pairing' = [shows |-> pairing.wire[2], wire |-> <<"idle">>]
    /\ watch' = Ask(Empty, pairing.wire[2])
    /\ UNCHANGED <<codes, phones>>

CodeFails ==
    /\ pairing.wire[1] \in {"asked", "made"}
    /\ pairing' = [shows |-> 0, wire |-> <<"idle">>]
    /\ UNCHANGED <<codes, watch, phones>>

(* A bug to catch: the first answer, "not used yet", ends the watch. *)
WatchesUnanswered == pairing.shows # 0 /\ ~HasData(watch)

Watches == pairing.shows # 0 /\ ~Paired

PollCode ==
    /\ Watches /\ watch.wire = Quiet /\ watch' = Ask(watch, pairing.shows)
    /\ UNCHANGED <<pairing, codes, phones>>

(* Once a phone has paired, the list of phones asks again. *)
WatchAnswered ==
    /\ IsAnswered(watch) /\ watch' = Install(watch)
    /\ phones' \in IF watch'.data = <<"used">> THEN {phones, Cardinality(Used)} ELSE {phones}
    /\ UNCHANGED <<pairing, codes>>

WatchFails ==
    /\ watch.wire # Quiet /\ watch' = Fail(watch)
    /\ UNCHANGED <<pairing, codes, phones>>

(* The list is asked for every quarter of a minute. *)
PhonesRefresh ==
    /\ phones # Cardinality(Used) /\ phones' = Cardinality(Used)
    /\ UNCHANGED <<pairing, codes, watch>>

-----------------------------------------------------------------------------
(* The API and the phones. *)

MakeCode ==
    /\ pairing.wire = <<"asked">> /\ Len(codes) < MaxCodes
    /\ codes' = Append(codes, "waiting")
    /\ pairing' = [pairing EXCEPT !.wire = <<"made", Len(codes) + 1>>]
    /\ UNCHANGED <<watch, phones>>

PhoneUses(c) ==
    /\ codes[c] = "waiting" /\ codes' = [codes EXCEPT ![c] = "used"]
    /\ UNCHANGED <<pairing, watch, phones>>

CodeExpires(c) ==
    /\ codes[c] = "waiting" /\ codes' = [codes EXCEPT ![c] = "expired"]
    /\ UNCHANGED <<pairing, watch, phones>>

ServeCode ==
    /\ IsAsked(watch) /\ watch' = Serve(watch, codes[watch.wire[2]])
    /\ UNCHANGED <<pairing, codes, phones>>

PairNext ==
    \/ OpenPair \/ ClosePair \/ NewCode \/ MakeCode \/ CodeArrives \/ CodeFails
    \/ PollCode \/ ServeCode \/ WatchAnswered \/ WatchFails \/ PhonesRefresh
    \/ \E c \in DOMAIN codes : PhoneUses(c) \/ CodeExpires(c)

(* Timers go off; of the requests sent again and again, some are answered. *)
PairFairness ==
    WF_pairVars(PollCode) /\ SF_pairVars(ServeCode) /\ SF_pairVars(WatchAnswered)

-----------------------------------------------------------------------------
(* A phone has used the code on the screen: it is announced there. *)
CodeUsed(c) == pairing.shows = c /\ codes[c] = "used"
PairingSaid(c) == pairing.shows # c \/ Paired

=============================================================================
