----------------------------- MODULE Mutations -----------------------------
(***************************************************************************)
(* The mutations of one page (useMutation of TanStack Query), as the code  *)
(* in src/web relies on them.  Every press is a request, numbered; of each *)
(* kind the page hears the latest, until it resets the mutation or goes    *)
(* away.  A request that is no longer heard still reaches the API.         *)
(*                                                                         *)
(*   flying  the requests on their way, "asked" there or answered "done"   *)
(*           or "refused" and on the way back                              *)
(*   heard   for each kind, the number of the request it waits for, or 0   *)
(*   count   requests made                                                 *)
(***************************************************************************)
EXTENDS Naturals

NoRequests(kinds) == [flying |-> {}, heard |-> [k \in kinds |-> 0], count |-> 0]

Pending(m, kind) == m.heard[kind] # 0

Press(m, kind, on) ==
    LET no == m.count + 1 IN
    [flying |-> m.flying \cup {[no |-> no, kind |-> kind, on |-> on, at |-> "asked"]},
     heard |-> [m.heard EXCEPT ![kind] = no],
     count |-> no]

(* reset(), or the component goes. *)
Unhear(m, kinds) ==
    [m EXCEPT !.heard = [k \in DOMAIN @ |-> IF k \in kinds THEN 0 ELSE @[k]]]

Heard(m, r) == m.heard[r.kind] = r.no

(* The API has dealt with it, making `on` what the request was about. *)
Answered(m, r, at, on) ==
    [m EXCEPT !.flying = (@ \ {r}) \cup {[r EXCEPT !.at = at, !.on = on]}]

Over(m, r) ==
    [m EXCEPT !.flying = @ \ {r},
              !.heard[r.kind] = IF @ = r.no THEN 0 ELSE @]

=============================================================================
