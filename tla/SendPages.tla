----------------------------- MODULE SendPages -----------------------------
(***************************************************************************)
(* The messages page with its send dialog, and the page of one send.       *)
(* Sources: src/web: components/messages/send-dialog.tsx,                  *)
(* app/(app)/messages/page.tsx, app/(app)/sends/[id]/page.tsx and their    *)
(* hooks in lib/queries.ts.                                                *)
(*                                                                         *)
(* A draft is what stands in the form, numbered: every edit makes another. *)
(* The list stands for the messages and the sends, which are asked for     *)
(* alike; it and the recipients of a send are refreshed in one step.  A    *)
(* send moves at the API as MessageLifecycle says; here only its status    *)
(* counts, "final" for one that is neither queued nor processing.          *)
(***************************************************************************)
EXTENDS Naturals, Sequences, QueryClient

CONSTANTS
    MaxDrafts,      \* bound: texts ever typed into the dialog
    MaxSends        \* bound: sends the API ever takes

ASSUME SendsAssumption == MaxDrafts \in Nat /\ MaxSends \in Nat

VARIABLES
    view,       \* "list": the messages page; "send": the page of one send
    dialog,     \* open, its draft (0: empty), the post it listens to, an error
    drafts,     \* drafts typed so far
    posts,      \* the post of each draft
    sends,      \* the API: the status of each send
    offered,    \* the send the toast offers to follow, 0 for none
    watched,    \* the send whose page is or was open
    list,       \* the cache: how many sends the list shows
    batch,      \* the cache: the send watched
    rows,       \* the cache: the status its recipients are shown with
    dismissed   \* ghost: drafts whose dialog was dismissed, not cancelled

sendVars == <<view, dialog, drafts, posts, sends, offered, watched, list, batch, rows, dismissed>>

Draft == 1 .. MaxDrafts
Moving == {"queued", "processing"}
NoPost == <<"none">>
Fresh == [open |-> FALSE, draft |-> 0, heard |-> 0, error |-> FALSE]

SendTypeOK ==
    /\ view \in {"list", "send"}
    /\ dialog \in [open : BOOLEAN, draft : 0 .. drafts, heard : 0 .. drafts, error : BOOLEAN]
    /\ drafts \in 0 .. MaxDrafts
    /\ \A d \in Draft : posts[d][1] \in {"none", "asked", "refused", "taken"}
    /\ Len(sends) <= MaxSends /\ \A s \in DOMAIN sends : sends[s] \in Moving \cup {"final"}
    /\ offered \in 0 .. Len(sends) /\ watched \in 0 .. Len(sends)
    /\ list \in 0 .. Len(sends)
    /\ batch.data \in {<<>>} \cup {<<t>> : t \in Moving \cup {"final"}}
    /\ rows \in Moving \cup {"none", "final"}
    /\ dismissed \subseteq 1 .. drafts

SendInit ==
    /\ view = "list" /\ dialog = Fresh /\ drafts = 0
    /\ posts = [d \in Draft |-> NoPost]
    /\ sends = <<>> /\ offered = 0 /\ watched = 0
    /\ list = 0 /\ batch = Empty /\ rows = "none"
    /\ dismissed = {}

-----------------------------------------------------------------------------
(* The dialog. *)

OpenDialog ==
    /\ view = "list" /\ ~dialog.open
    /\ dialog' = [dialog EXCEPT !.open = TRUE]
    /\ UNCHANGED <<view, drafts, posts, sends, offered, watched, list, batch, rows, dismissed>>

(* The fields stay open to the reader while a send is being queued. *)
Type ==
    /\ view = "list" /\ dialog.open /\ drafts < MaxDrafts
    /\ drafts' = drafts + 1
    /\ dialog' = [dialog EXCEPT !.draft = drafts + 1]
    /\ UNCHANGED <<view, posts, sends, offered, watched, list, batch, rows, dismissed>>

SubmitSend ==
    /\ view = "list" /\ dialog.open /\ dialog.draft # 0 /\ dialog.heard = 0
    /\ posts[dialog.draft] = NoPost
    /\ posts' = [posts EXCEPT ![dialog.draft] = <<"asked">>]
    /\ dialog' = [dialog EXCEPT !.heard = dialog.draft, !.error = FALSE]
    /\ UNCHANGED <<view, drafts, sends, offered, watched, list, batch, rows, dismissed>>

(* The Cancel button only closes: the draft, and the post, stay. *)
CancelDialog ==
    /\ view = "list" /\ dialog.open
    /\ dialog' = [dialog EXCEPT !.open = FALSE]
    /\ UNCHANGED <<view, drafts, posts, sends, offered, watched, list, batch, rows, dismissed>>

(* A bug to catch: reset() leaves the mutation as it is. *)
ResetFields(heard) == [Fresh EXCEPT !.heard = heard]

(* reset(): the fields, and with send.reset() the post is no longer heard. *)
Reset(heard) == Fresh

(* Escape, the cross, or a press outside. *)
DismissDialog ==
    /\ view = "list" /\ dialog.open
    /\ dialog' = Reset(dialog.heard)
    /\ dismissed' = dismissed \cup ({dialog.heard} \ {0})
    /\ UNCHANGED <<view, drafts, posts, sends, offered, watched, list, batch, rows>>

Hears(d) == view = "list" /\ dialog.heard = d

(* useSendMessage: whether it is heard or not, everything that shows        *)
(* messages or sends asks again.                                            *)
PostAccepted(d) ==
    /\ posts[d][1] = "taken"
    /\ posts' = [posts EXCEPT ![d] = NoPost]
    /\ \/ view = "list" /\ list' = Len(sends) /\ UNCHANGED batch
       \/ view = "list" /\ UNCHANGED <<list, batch>>
       \/ view = "send" /\ batch' = Invalidate(batch, watched) /\ UNCHANGED list
    /\ IF Hears(d) THEN dialog' = Reset(0) /\ offered' = posts[d][2]
       ELSE UNCHANGED <<dialog, offered>>
    /\ UNCHANGED <<view, drafts, sends, watched, rows, dismissed>>

PostFailed(d) ==
    /\ posts[d] # NoPost
    /\ posts' = [posts EXCEPT ![d] = NoPost]
    /\ dialog' = IF Hears(d) THEN [dialog EXCEPT !.heard = 0, !.error = TRUE] ELSE dialog
    /\ UNCHANGED <<view, drafts, sends, offered, watched, list, batch, rows, dismissed>>

-----------------------------------------------------------------------------
(* From page to page: the component that goes forgets its state. *)

ShowSend(s) ==
    /\ view' = "send" /\ watched' = s
    /\ dialog' = Fresh
    /\ batch' = Ask(IF s = watched THEN batch ELSE Empty, s)
    /\ rows' = IF s = watched THEN rows ELSE "none"
    /\ UNCHANGED <<drafts, posts, sends, offered, list, dismissed>>

FollowToast == offered # 0 /\ ShowSend(offered)

(* A row of the list; the dialog lies over them while it is open. *)
OpenRow(s) ==
    /\ view = "list" /\ ~dialog.open
    /\ s \in 1 .. list
    /\ ShowSend(s)

BackToList ==
    /\ view = "send" /\ view' = "list"
    /\ UNCHANGED <<dialog, drafts, posts, sends, offered, watched, list, batch, rows, dismissed>>

-----------------------------------------------------------------------------
(* The queries. *)

(* A bug to catch: a send the phone is working on counts as settled. *)
BatchLiveQueued(data) == data # <<>> => data[1] = "queued"

BatchLive(data) == data # <<>> => data[1] \in Moving

PollBatch ==
    /\ view = "send" /\ BatchLive(batch.data) /\ batch.wire = Quiet
    /\ batch' = Ask(batch, watched)
    /\ UNCHANGED <<view, dialog, drafts, posts, sends, offered, watched, list, rows, dismissed>>

(* The window is focused again, or "Try again" is pressed. *)
FocusBatch ==
    /\ view = "send" /\ batch.wire = Quiet
    /\ batch' = Ask(batch, watched)
    /\ UNCHANGED <<view, dialog, drafts, posts, sends, offered, watched, list, rows, dismissed>>

BatchAnswered ==
    /\ IsAnswered(batch)
    /\ batch' = Install(batch)
    /\ UNCHANGED <<view, dialog, drafts, posts, sends, offered, watched, list, rows, dismissed>>

BatchFails ==
    /\ batch.wire # Quiet
    /\ batch' = Fail(batch)
    /\ UNCHANGED <<view, dialog, drafts, posts, sends, offered, watched, list, rows, dismissed>>

(* The recipients are asked for as long as the send is taken to be moving,  *)
(* and on focus: what they show last may be older than its status.          *)
RowsRefresh ==
    /\ view = "send" /\ rows' = sends[watched]
    /\ UNCHANGED <<view, dialog, drafts, posts, sends, offered, watched, list, batch, dismissed>>

ListRefresh ==
    /\ view = "list" /\ list' = Len(sends)
    /\ UNCHANGED <<view, dialog, drafts, posts, sends, offered, watched, batch, rows, dismissed>>

-----------------------------------------------------------------------------
(* The API. *)

TakePost(d) ==
    /\ posts[d] = <<"asked">>
    /\ \/ posts' = [posts EXCEPT ![d] = <<"refused">>] /\ UNCHANGED sends
       \/ /\ Len(sends) < MaxSends
          /\ sends' = Append(sends, "queued")
          /\ posts' = [posts EXCEPT ![d] = <<"taken", Len(sends) + 1>>]
    /\ UNCHANGED <<view, dialog, drafts, offered, watched, list, batch, rows, dismissed>>

SendMoves(s) ==
    /\ sends[s] \in Moving
    /\ \E to \in {"processing", "final"} \ {sends[s]} : sends' = [sends EXCEPT ![s] = to]
    /\ UNCHANGED <<view, dialog, drafts, posts, offered, watched, list, batch, rows, dismissed>>

ServeBatch ==
    /\ IsAsked(batch)
    /\ batch' = Serve(batch, sends[batch.wire[2]])
    /\ UNCHANGED <<view, dialog, drafts, posts, sends, offered, watched, list, rows, dismissed>>

SendNext ==
    \/ OpenDialog \/ Type \/ SubmitSend \/ CancelDialog \/ DismissDialog
    \/ \E d \in Draft : TakePost(d) \/ PostAccepted(d) \/ PostFailed(d)
    \/ FollowToast \/ BackToList
    \/ \E s \in DOMAIN sends : OpenRow(s) \/ SendMoves(s)
    \/ PollBatch \/ FocusBatch \/ ServeBatch \/ BatchAnswered \/ BatchFails
    \/ RowsRefresh \/ ListRefresh

(* Timers go off; of the requests sent again and again, some are answered. *)
SendFairness ==
    WF_sendVars(PollBatch) /\ SF_sendVars(ServeBatch) /\ SF_sendVars(BatchAnswered)

-----------------------------------------------------------------------------
(* The answer to a send the reader has dismissed neither closes nor clears  *)
(* the dialog they have opened, and filled in, since.                       *)
FreshDraftKept ==
    [][\A d \in dismissed :
        (PostAccepted(d) \/ PostFailed(d)) => dialog' = dialog]_sendVars

(* The page of a send is open, and the send is over: it comes to say so. *)
SendOver(s) == view = "send" /\ watched = s /\ sends[s] = "final"
SendSaysSo(s) == view # "send" \/ watched # s \/ batch.data = <<"final">>

=============================================================================
