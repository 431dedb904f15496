---------------------------- MODULE WebhookPage ----------------------------
(***************************************************************************)
(* The webhooks page: the endpoints, the form that adds or edits one, the  *)
(* signing secrets shown once, the deliveries.  Sources: src/web:          *)
(* app/(app)/webhooks/page.tsx, components/webhooks/webhook-dialog.tsx and *)
(* their hooks in lib/queries.ts.                                          *)
(*                                                                         *)
(* An endpoint is its secret, numbered, and whether it is on; its name,    *)
(* address and events are data of the form.  Of the deliveries only how    *)
(* many test events there are counts; filters only choose what is shown.   *)
(***************************************************************************)
EXTENDS Naturals, Sequences, Mutations

CONSTANTS
    MaxHooks,       \* bound: endpoints ever made
    MaxHookPresses  \* bound: requests the reader makes

ASSUME HooksAssumption == MaxHooks \in Nat \ {0} /\ MaxHookPresses \in Nat

VARIABLES
    hooks,      \* the API: the endpoints
    tests,      \* the API: deliveries of test events
    hookList,   \* the cache: the endpoints as they are shown
    broken,     \* the cache: the last request for them failed
    delivered,  \* the cache: the deliveries shown
    tab,        \* "endpoints" or "deliveries"
    hookForm,   \* WebhookDialog: closed, or for endpoint `on` (0: a new one)
    rotated,    \* EndpointsTab: the endpoint whose new secret it shows
    deleting,   \* EndpointsTab: the endpoint asked about
    hookJobs,   \* the mutations of the page
    left        \* ghost: requests whose form or tab the reader has left since

hookVars == <<hooks, tests, hookList, broken, delivered, tab, hookForm, rotated, deleting,
              hookJobs, left>>
server == <<hooks, tests>>
caches == <<hookList, broken, delivered>>
dialogs == <<hookForm, rotated, deleting>>

FormKinds == {"create", "update"}
TabKinds == {"toggle", "rotate", "test", "remove"}
NoForm == [open |-> FALSE, on |-> 0, shows |-> 0]

HookTypeOK ==
    /\ Len(hooks) <= MaxHooks
    /\ \A h \in DOMAIN hooks : hooks[h] \in [secret : Nat, is : {"on", "off", "gone"}]
    /\ tests \in 0 .. MaxHookPresses /\ delivered \in 0 .. tests
    /\ Len(hookList) <= Len(hooks) /\ broken \in BOOLEAN
    /\ tab \in {"endpoints", "deliveries"}
    /\ hookForm \in [open : BOOLEAN, on : 0 .. Len(hooks), shows : Nat]
    /\ rotated \in [on : 0 .. Len(hooks), shows : Nat]
    /\ deleting \in 0 .. Len(hooks)
    /\ \A r \in hookJobs.flying : r.no \in 1 .. hookJobs.count
    /\ left \subseteq 1 .. hookJobs.count

HookInit ==
    /\ hooks \in {<<>>, <<[secret |-> 1, is |-> "on"]>>} /\ tests = 0
    /\ hookList = <<>> /\ broken = FALSE /\ delivered = 0
    /\ tab = "endpoints" /\ hookForm = NoForm
    /\ rotated = [on |-> 0, shows |-> 0] /\ deleting = 0
    /\ hookJobs = NoRequests(FormKinds \cup TabKinds) /\ left = {}

Leaving(kinds) == left' = left \cup {r.no : r \in {f \in hookJobs.flying : f.kind \in kinds}}

(* An error, or "No endpoints yet", comes in the place of the list and of    *)
(* the tab's dialogs.                                                       *)
HooksListed == ~broken /\ \E h \in DOMAIN hookList : hookList[h].is # "gone"

(* The dialogs are modal: what lies under one cannot be pressed. *)
Uncovered == ~hookForm.open /\ (HooksListed => rotated.shows = 0 /\ deleting = 0)

OnRow(h) == tab = "endpoints" /\ Uncovered /\ HooksListed /\ hookList[h].is # "gone"

PressHook(kind, h) ==
    /\ hookJobs.count < MaxHookPresses
    /\ hookJobs' = Press(hookJobs, kind,
           <<h, IF kind = "toggle" /\ hookList[h].is = "off" THEN 1 ELSE 0>>)

-----------------------------------------------------------------------------
(* WebhookDialog and its form, which is there only while it is open. *)

OpenForm(h) ==
    /\ IF h = 0 THEN Uncovered ELSE OnRow(h)
    /\ hookForm' = [NoForm EXCEPT !.open = TRUE, !.on = h]
    /\ UNCHANGED <<server, caches, tab, rotated, deleting, hookJobs, left>>

SubmitForm ==
    /\ hookForm.open /\ hookForm.shows = 0 /\ \A k \in FormKinds : ~Pending(hookJobs, k)
    /\ PressHook(IF hookForm.on = 0 THEN "create" ELSE "update", hookForm.on)
    /\ UNCHANGED <<server, caches, tab, dialogs, left>>

(* Cancel, Done, Escape.  The form goes, and what it was waiting for. *)
CloseForm ==
    /\ hookForm.open /\ hookForm' = NoForm
    /\ hookJobs' = Unhear(hookJobs, FormKinds) /\ Leaving(FormKinds)
    /\ UNCHANGED <<server, caches, tab, rotated, deleting>>

-----------------------------------------------------------------------------
(* EndpointsTab. *)

(* A bug to catch: the secret can be rotated again before the answer. *)
MayRotateAgain(kind) == kind = "rotate" \/ ~Pending(hookJobs, kind)

MayPress(kind) == ~Pending(hookJobs, kind)

PressRow(kind, h) ==
    /\ OnRow(h) /\ kind \in {"toggle", "rotate", "test"} /\ MayPress(kind)
    /\ PressHook(kind, h)
    /\ UNCHANGED <<server, caches, tab, dialogs, left>>

AskDelete(h) ==
    /\ OnRow(h) /\ deleting' = h
    /\ UNCHANGED <<server, caches, tab, hookForm, rotated, hookJobs, left>>

ConfirmDelete ==
    /\ deleting # 0 /\ HooksListed /\ ~Pending(hookJobs, "remove")
    /\ PressHook("remove", deleting)
    /\ UNCHANGED <<server, caches, tab, dialogs, left>>

DropDelete ==
    /\ deleting # 0 /\ HooksListed /\ deleting' = 0
    /\ UNCHANGED <<server, caches, tab, hookForm, rotated, hookJobs, left>>

CloseRotated ==
    /\ rotated.shows # 0 /\ HooksListed /\ rotated' = [on |-> 0, shows |-> 0]
    /\ UNCHANGED <<server, caches, tab, hookForm, deleting, hookJobs, left>>

(* The other tab, or another page: the tab forgets its dialogs and requests. *)
SwitchTab ==
    /\ Uncovered
    /\ tab' = IF tab = "endpoints" THEN "deliveries" ELSE "endpoints"
    /\ rotated' = [on |-> 0, shows |-> 0] /\ deleting' = 0
    /\ hookJobs' = Unhear(hookJobs, TabKinds) /\ Leaving(TabKinds)
    /\ UNCHANGED <<server, caches, hookForm>>

LeaveHooks ==
    /\ hookForm' = NoForm /\ rotated' = [on |-> 0, shows |-> 0] /\ deleting' = 0
    /\ hookJobs' = Unhear(hookJobs, FormKinds \cup TabKinds) /\ Leaving(FormKinds \cup TabKinds)
    /\ tab' = "endpoints"
    /\ UNCHANGED <<server, caches>>

-----------------------------------------------------------------------------
(* The caches, and the answers. *)

HooksRefresh ==
    /\ \/ hookList # hooks /\ hookList' = hooks /\ broken' = FALSE
       \/ broken' = ~broken /\ UNCHANGED hookList
    /\ UNCHANGED <<server, delivered, tab, dialogs, hookJobs, left>>

DeliveriesRefresh ==
    /\ tab = "deliveries" /\ delivered # tests /\ delivered' = tests
    /\ UNCHANGED <<server, hookList, broken, tab, dialogs, hookJobs, left>>

(* What the page does with an answer it still waits for. *)
React(r) ==
    /\ hookForm' =
           IF r.kind = "create" THEN [hookForm EXCEPT !.shows = r.on[2]]
           ELSE IF r.kind = "update" THEN NoForm ELSE hookForm
    /\ rotated' = IF r.kind = "rotate" THEN [on |-> r.on[1], shows |-> r.on[2]] ELSE rotated
    /\ deleting' = IF r.kind = "remove" THEN 0 ELSE deleting

HookJobDone(r) ==
    /\ r.at = "done" /\ hookJobs' = Over(hookJobs, r)
    /\ IF Heard(hookJobs, r) THEN React(r) ELSE UNCHANGED dialogs
    /\ UNCHANGED <<server, caches, tab, left>>

(* A toast or the form says so; everything stays. *)
HookJobFails(r) ==
    /\ hookJobs' = Over(hookJobs, r)
    /\ UNCHANGED <<server, caches, tab, dialogs, left>>

-----------------------------------------------------------------------------
(* The API. *)

TakeHookJob(r) ==
    /\ r.at = "asked"
    /\ LET h == r.on[1] IN
        \/ /\ r.kind = "create" /\ Len(hooks) < MaxHooks
           /\ hooks' = Append(hooks, [secret |-> 1, is |-> "on"])
           /\ hookJobs' = Answered(hookJobs, r, "done", <<Len(hooks) + 1, 1>>)
           /\ UNCHANGED tests
        \/ /\ r.kind = "rotate" /\ hooks[h].is # "gone"
           /\ hooks' = [hooks EXCEPT ![h].secret = @ + 1]
           /\ hookJobs' = Answered(hookJobs, r, "done", <<h, hooks'[h].secret>>)
           /\ UNCHANGED tests
        \/ /\ r.kind \in {"update", "toggle", "remove", "test"} /\ hooks[h].is # "gone"
           /\ hooks' = [hooks EXCEPT ![h].is =
                  IF r.kind = "remove" THEN "gone"
                  ELSE IF r.kind = "toggle" THEN (IF r.on[2] = 1 THEN "on" ELSE "off") ELSE @]
           /\ tests' = IF r.kind = "test" THEN tests + 1 ELSE tests
           /\ hookJobs' = Answered(hookJobs, r, "done", r.on)
        \/ hookJobs' = Answered(hookJobs, r, "refused", r.on) /\ UNCHANGED server
    /\ UNCHANGED <<caches, tab, dialogs, left>>

HookNext ==
    \/ \E h \in {0} \cup DOMAIN hookList : OpenForm(h)
    \/ SubmitForm \/ CloseForm
    \/ \E h \in DOMAIN hookList : AskDelete(h) \/ \E kind \in TabKinds : PressRow(kind, h)
    \/ ConfirmDelete \/ DropDelete \/ CloseRotated \/ SwitchTab \/ LeaveHooks
    \/ HooksRefresh \/ DeliveriesRefresh
    \/ \E r \in hookJobs.flying : TakeHookJob(r) \/ HookJobDone(r) \/ HookJobFails(r)

-----------------------------------------------------------------------------
(* A signing secret the API has made is shown by the form or the tab that   *)
(* asked for it, unless the reader has left that since, and stays in place  *)
(* until they close it, also while the list behind it cannot be had or has  *)
(* nothing in it.                                                           *)
HookSecretKept ==
    /\ [][\A r \in hookJobs.flying :
            (HookJobDone(r) /\ r.kind \in {"create", "rotate"} /\ r.no \notin left) =>
                IF r.kind = "create" THEN hookForm'.open /\ hookForm'.shows = r.on[2]
                ELSE rotated'.on = r.on[1] /\ rotated'.shows = r.on[2]]_hookVars
    /\ [][hookForm.shows # 0 => (hookForm' = hookForm \/ ~hookForm'.open)]_hookVars
    /\ [][rotated.shows # 0 => (rotated' = rotated \/ rotated'.shows = 0)]_hookVars

=============================================================================
