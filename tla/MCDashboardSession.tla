------------------------- MODULE MCDashboardSession -------------------------
(* Two accounts, whose addresses may or may not be verified, in one tab. *)
EXTENDS DashboardSession

CONSTANTS ann, bob

OnlyAnn == {ann}

(* The gate and the cookies, with a page loaded afresh or gone back to and a *)
(* dropped request; and what the pages ask for, one thing at a time.         *)
Redirecting(s) == [setup |-> s, verified |-> OnlyAnn, asks |-> {},
                   sessions |-> 2, visits |-> 1, strays |-> 1]
Asking(s, what, n) == [setup |-> s, verified |-> {ann, bob}, asks |-> {what},
                       sessions |-> n, visits |-> 0, strays |-> 0]

AllScenes == {Redirecting("on"), Redirecting("apart"),
              Asking("off", "rows", 2), Asking("on", "password", 1)}

(* One visitor, one page gone back to, every setup. *)
AloneInTheApp ==
    {[setup |-> s, verified |-> OnlyAnn, asks |-> {}, sessions |-> 1, visits |-> 1, strays |-> 0] :
        s \in {"off", "on", "apart"}}

=============================================================================
