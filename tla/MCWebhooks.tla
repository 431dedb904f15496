------------------------------ MODULE MCWebhooks ------------------------------
(* The specification as it is; the constants are sets of model values. *)
EXTENDS Webhooks

CONSTANTS e1, e2, h1

=============================================================================
