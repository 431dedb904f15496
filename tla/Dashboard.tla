----------------------------- MODULE Dashboard -----------------------------
(***************************************************************************)
(* The pages of the dashboard, one of them open in a tab.  Each is a       *)
(* module: what it keeps, its queries and mutations, and the part of the   *)
(* API it talks to.  The pages share no state but the cache, and no two of *)
(* them write the same entry of it but by asking the API again.            *)
(* Which of them a visitor may see is DashboardSession.                    *)
(***************************************************************************)
EXTENDS SendPages, DevicePage, PairPage, KeyPage, WebhookPage, BillingPage

VARIABLE page       \* the page that is open

vars == <<page, sendVars, deviceVars, pairVars, keyVars, hookVars, billVars>>

TypeOK ==
    /\ SendTypeOK /\ DeviceTypeOK /\ PairTypeOK /\ KeyTypeOK /\ HookTypeOK /\ BillTypeOK
    /\ page \in {"messages", "phone", "phones", "keys", "webhooks", "billing"}

AnyValue == CHOOSE x \in Value : TRUE

(* What the API starts with matters to the open page only. *)
Init ==
    /\ page \in {"messages", "phone", "phones", "keys", "webhooks", "billing"}
    /\ SendInit /\ DeviceInit /\ PairInit /\ KeyInit /\ HookInit /\ BillInit
    /\ page # "phone" => row.fields = [f \in Field |-> AnyValue]
    /\ page # "keys" => keys = <<>>
    /\ page # "webhooks" => hooks = <<>>
    /\ page # "billing" => sub = Free

Next ==
    /\ UNCHANGED page
    /\ \/ /\ page = "messages" /\ SendNext
          /\ UNCHANGED <<deviceVars, pairVars, keyVars, hookVars, billVars>>
       \/ /\ page = "phone" /\ DeviceNext
          /\ UNCHANGED <<sendVars, pairVars, keyVars, hookVars, billVars>>
       \/ /\ page = "phones" /\ PairNext
          /\ UNCHANGED <<sendVars, deviceVars, keyVars, hookVars, billVars>>
       \/ /\ page = "keys" /\ KeyNext
          /\ UNCHANGED <<sendVars, deviceVars, pairVars, hookVars, billVars>>
       \/ /\ page = "webhooks" /\ HookNext
          /\ UNCHANGED <<sendVars, deviceVars, pairVars, keyVars, billVars>>
       \/ /\ page = "billing" /\ BillNext
          /\ UNCHANGED <<sendVars, deviceVars, pairVars, keyVars, hookVars>>

(* A page that is not open waits for nothing, and asks no fairness. *)
FairSpec ==
    Init /\ [][Next]_vars /\ SendFairness /\ PairFairness /\ BillFairness

-----------------------------------------------------------------------------
(* What the reader has typed is kept: a draft opened since the last one was *)
(* dismissed, and the fields being edited while their phone changes.        *)
TypedIsKept == FreshDraftKept /\ EditsKept

(* What the API makes known once, a new key or signing secret, is shown to *)
(* the reader or they have closed what would have shown it.                *)
SecretKept == KeySecretKept /\ HookSecretKept

(* What the open page waits for at the API comes to be shown, or the page  *)
(* waits for something else: the end of a send, the phone that paired with *)
(* the code on the screen, the plan paid for.                              *)
Awaited(n) ==
    \/ page = "messages" /\ SendOver(n)
    \/ page = "phones" /\ CodeUsed(n)
    \/ page = "billing" /\ PaidFor

Seen(n) ==
    /\ page = "messages" => SendSaysSo(n)
    /\ page = "phones" => PairingSaid(n)
    /\ page = "billing" => PlanShown

Numbers == 1 .. (IF MaxSends > MaxCodes THEN MaxSends ELSE MaxCodes)

WatchedIsSeen == \A n \in Numbers : Awaited(n) ~> Seen(n)

=============================================================================
