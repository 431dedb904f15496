---------------------------- MODULE MCMcpServer ----------------------------
(* Times small enough that a read, its retries and the deadline all meet. *)
EXTENDS McpServer

PausesOneOrTwo == {1, 2}

=============================================================================
