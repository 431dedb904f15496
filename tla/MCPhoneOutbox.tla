---------------------------- MODULE MCPhoneOutbox ----------------------------
(* A text of two parts, and in the larger instance one of a single part. *)
EXTENDS PhoneOutbox

CONSTANTS long, short

MCSegments == [m \in Message |-> IF m = long THEN 2 ELSE 1]

=============================================================================
