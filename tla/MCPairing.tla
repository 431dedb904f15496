------------------------------ MODULE MCPairing ------------------------------
(* Two accounts and two handsets; the first account makes two codes. *)
EXTENDS Pairing, TLC

CONSTANTS a1, a2, h1, h2, c1, c2, c3, p1, p2, p3

OneCodeEach == [c \in Code |-> IF c = c3 THEN a2 ELSE a1]

Requests == Permutations(Request)

=============================================================================
