---------------------------- MODULE MessageStates ----------------------------
(***************************************************************************)
(* What the API promises about one outbound message: the states it is seen *)
(* in and the moves between them.  Any number of messages may move in one  *)
(* step.  "guessed" is a failure the phone reported only because its radio *)
(* went quiet (error code interrupted).                                    *)
(***************************************************************************)
CONSTANT Message

VARIABLE state

(* From a state, where the message may go. *)
After(s) ==
    CASE s = "none"       -> {"queued"}
      [] s = "queued"     -> {"dispatched", "sent", "delivered", "failed", "guessed", "unknown"}
      [] s = "dispatched" -> {"sent", "delivered", "failed", "guessed", "unknown"}
      [] s = "sent"       -> {"delivered", "failed", "guessed"}
      [] s = "unknown"    -> {"sent", "delivered", "failed", "guessed"}
      [] s = "guessed"    -> {"sent", "delivered"}
      [] OTHER            -> {}

Init == state = [m \in Message |-> "none"]

Move == \A m \in Message : state'[m] = state[m] \/ state'[m] \in After(state[m])

Spec == Init /\ [][Move]_state

=============================================================================
