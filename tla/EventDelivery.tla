---------------------------- MODULE EventDelivery ----------------------------
(***************************************************************************)
(* What the server promises about the delivery of one event to one         *)
(* webhook: once it is owed the endpoint is called until the delivery is   *)
(* over, it is called delivered only if the endpoint acknowledged it, and  *)
(* nothing happens to it after its end.  Deliveries that are owed together *)
(* were created in one transaction.                                        *)
(***************************************************************************)
EXTENDS Naturals

CONSTANT Delivery

VARIABLES state, heard, calls

Init ==
    /\ state = [d \in Delivery |-> "none"]
    /\ heard = {}
    /\ calls = [d \in Delivery |-> 0]

Owe(ds) ==
    /\ \A d \in ds : state[d] = "none"
    /\ state' = [d \in Delivery |-> IF d \in ds THEN "owed" ELSE state[d]]
    /\ UNCHANGED <<heard, calls>>

(* The endpoint is called, and may acknowledge the event. *)
Call(d) ==
    /\ state[d] = "owed"
    /\ calls' = [calls EXCEPT ![d] = @ + 1]
    /\ heard' \in {heard, heard \cup {d}}
    /\ UNCHANGED state

End(d, verdict) ==
    /\ state[d] = "owed"
    /\ verdict = "delivered" => d \in heard
    /\ state' = [state EXCEPT ![d] = verdict]
    /\ UNCHANGED <<heard, calls>>

Next ==
    \/ \E ds \in SUBSET Delivery : Owe(ds)
    \/ \E d \in Delivery : Call(d) \/ \E verdict \in {"delivered", "failed"} : End(d, verdict)

Spec == Init /\ [][Next]_<<state, heard, calls>>

=============================================================================
