---------------------------- MODULE MCDashboard ----------------------------
(* One field with two values, one paid plan with its two periods. *)
EXTENDS Dashboard

CONSTANTS name, basic

OneField == {name}
TwoValues == 0 .. 1
OnePlan == {basic}

=============================================================================
