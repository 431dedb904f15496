---------------------------- MODULE QueryClient ----------------------------
(***************************************************************************)
(* One entry of the dashboard's query cache (TanStack Query), as the code  *)
(* in src/web relies on it.                                                *)
(*                                                                         *)
(*   data    <<>> or <<value>>, kept when a later request fails            *)
(*   wire    <<"quiet">>, <<"asked", x>>: a request that left carrying x,  *)
(*           <<"answered", value>>: its answer, on the way back            *)
(*   failed  the last request to end failed, after its retries             *)
(***************************************************************************)
EXTENDS Sequences

Quiet == <<"quiet">>
Empty == [data |-> <<>>, wire |-> Quiet, failed |-> FALSE]

HasData(q) == q.data # <<>>
IsAsked(q) == q.wire[1] = "asked"
IsAnswered(q) == q.wire[1] = "answered"
IsPending(q) == ~HasData(q) /\ ~q.failed

(* fetch: one request at a time. *)
Ask(q, x) == IF q.wire = Quiet THEN [q EXCEPT !.wire = <<"asked", x>>] ELSE q

(* invalidateQueries on a query some component is showing: an answer already *)
(* on its way is dropped and asked for again, unless it is the very first.   *)
Invalidate(q, x) ==
    IF HasData(q) THEN [q EXCEPT !.wire = <<"asked", x>>] ELSE Ask(q, x)

(* The API reads its state; the browser does not know yet. *)
Serve(q, value) == [q EXCEPT !.wire = <<"answered", value>>]

Install(q) == [data |-> <<q.wire[2]>>, wire |-> Quiet, failed |-> FALSE]
Fail(q) == [q EXCEPT !.wire = Quiet, !.failed = TRUE]

(* setQueryData: what is on the wire still arrives. *)
SetData(q, value) == [q EXCEPT !.data = <<value>>, !.failed = FALSE]

=============================================================================
