---------------------------- MODULE BillingPage ----------------------------
(***************************************************************************)
(* The billing page: the plan, buying one at the payment provider and      *)
(* coming back, changing, cancelling and keeping it.  Sources: src/web:    *)
(* app/(app)/billing/page.tsx and its hooks in lib/queries.ts.             *)
(*                                                                         *)
(* An offer is a plan with its period.  Which changes start now and which  *)
(* at the end of the period, and what they cost, the API decides; a        *)
(* subscription that grants nothing yet, or is set up by hand, is left out, *)
(* and so is the list of plans, which never changes.                       *)
(***************************************************************************)
EXTENDS Naturals, Sequences, QueryClient, Mutations

CONSTANTS
    Plan,           \* the paid plans
    MaxBillPresses  \* bound: requests the reader makes

ASSUME BillingAssumption == MaxBillPresses \in Nat

VARIABLES
    sub,        \* the API: the subscription
    checkouts,  \* the API: the checkouts made, the offer and the state of each
    bill,       \* the cache: the subscription
    paid,       \* the cache: the checkout the browser came back from
    back,       \* CheckoutReturn: the checkout it waits for, or 0; slow; dismissed
    period,     \* the period chosen, and whether the subscription has set it
    confirming, \* the dialog that confirms a change
    buying,     \* the offer whose checkout is being opened
    billJobs,   \* the mutations of the page
    away        \* the browser is elsewhere: at the checkout <<c>>, or <<0>>

billVars == <<sub, checkouts, bill, paid, back, period, confirming, buying, billJobs, away>>
billApi == <<sub, checkouts>>

Period == {"month", "year"}
Offer == Plan \X Period
NoOffer == <<>>
Free == [offer |-> NoOffer, ends |-> FALSE, next |-> NoOffer]
Changing == {"change", "cancel", "resume"}
BillKinds == {"checkout", "portal"} \cup Changing

BillTypeOK ==
    /\ sub.offer \in Offer \cup {NoOffer} /\ sub.next \in Offer \cup {NoOffer}
    /\ sub.offer = NoOffer => sub = Free
    /\ \A c \in DOMAIN checkouts : checkouts[c].at \in {"open", "applied", "failed"}
    /\ HasData(bill) => bill.data[1].offer \in Offer \cup {NoOffer}
    /\ back.on \in 0 .. Len(checkouts) /\ back.slow \in BOOLEAN /\ back.dismissed \in BOOLEAN
    /\ period \in [is : Period, seeded : BOOLEAN]
    /\ confirming[1] \in {"none", "change", "cancel"}
    /\ buying \in Offer \cup {NoOffer}
    /\ \A r \in billJobs.flying : r.no \in 1 .. billJobs.count
    /\ away \in {<<>>} \cup {<<c>> : c \in 0 .. Len(checkouts)}

Unseeded == [is |-> "month", seeded |-> FALSE]
WaitFor(c) == [on |-> c, slow |-> FALSE, dismissed |-> FALSE]

BillInit ==
    /\ sub \in {Free} \cup {[Free EXCEPT !.offer = o] : o \in Offer}
    /\ checkouts = <<>>
    /\ bill = Empty /\ period = Unseeded
    /\ paid = Empty /\ back = WaitFor(0)
    /\ confirming = <<"none">> /\ buying = NoOffer
    /\ billJobs = NoRequests(BillKinds) /\ away = <<0>>

-----------------------------------------------------------------------------
(* What the page shows: a plan is there to be bought or changed to only on  *)
(* the list, which is shown once the subscription is known.                 *)
Here == away = <<>>
Listed == Here /\ HasData(bill) /\ ~bill.failed
Shown == bill.data[1]
Managed == Listed /\ Shown.offer # NoOffer
Changes == \E k \in Changing : Pending(billJobs, k)

(* The dialog to cancel is there only while there is something to cancel. *)
Dialog == confirming # <<"none">> /\ (confirming = <<"cancel">> => Shown.offer # NoOffer)

PressBill(kind, on) ==
    /\ billJobs.count < MaxBillPresses
    /\ billJobs' = Press(billJobs, kind, on)

ChoosePeriod(i) ==
    /\ Listed /\ ~Dialog /\ period.is # i
    /\ period' = [period EXCEPT !.is = i]
    /\ UNCHANGED <<billApi, bill, paid, back, confirming, buying, billJobs, away>>

Buy(p) ==
    /\ Listed /\ Shown = Free /\ ~Dialog /\ buying = NoOffer
    /\ PressBill("checkout", <<p, period.is>>)
    /\ buying' = <<p, period.is>>
    /\ UNCHANGED <<billApi, bill, paid, back, period, confirming, away>>

(* A bug to catch: another dialog can be opened while a change is made. *)
MayAskAlways == Managed /\ ~Dialog

MayAsk == Managed /\ ~Dialog /\ ~Changes

AskChange(p) ==
    /\ MayAsk /\ ~Shown.ends
    /\ <<p, period.is>> \notin {Shown.offer, Shown.next}
    /\ confirming' = <<"change", <<p, period.is>>>>
    /\ UNCHANGED <<billApi, bill, paid, back, period, buying, billJobs, away>>

AskCancel ==
    /\ MayAsk /\ ~Shown.ends
    /\ confirming' = <<"cancel">>
    /\ UNCHANGED <<billApi, bill, paid, back, period, buying, billJobs, away>>

(* Keep, Escape, a press outside: also while the change is being made. *)
DropConfirm ==
    /\ Here /\ Dialog /\ confirming' = <<"none">>
    /\ UNCHANGED <<billApi, bill, paid, back, period, buying, billJobs, away>>

Confirm ==
    /\ Here /\ Dialog
    /\ \/ /\ confirming[1] = "change" /\ ~Pending(billJobs, "change")
          /\ PressBill("change", confirming[2])
       \/ /\ confirming[1] = "cancel" /\ ~Pending(billJobs, "cancel")
          /\ PressBill("cancel", NoOffer)
    /\ UNCHANGED <<billApi, bill, paid, back, period, confirming, buying, away>>

(* "Keep" a plan that ends, "Stay on" one that would change: at once. *)
Undo ==
    /\ MayAsk
    /\ \/ Shown.ends /\ PressBill("resume", NoOffer)
       \/ ~Shown.ends /\ Shown.next # NoOffer /\ PressBill("change", <<"stay">> \o Shown.offer)
    /\ UNCHANGED <<billApi, bill, paid, back, period, confirming, buying, away>>

OpenPortal ==
    /\ Listed /\ ~Dialog /\ ~Pending(billJobs, "portal")
    /\ PressBill("portal", NoOffer)
    /\ UNCHANGED <<billApi, bill, paid, back, period, confirming, buying, away>>

-----------------------------------------------------------------------------
(* CheckoutReturn. *)

(* A bug to catch: the page goes on showing the plan it had. *)
AnnounceOnly == bill' = bill

Announce == bill' = IF paid.data = <<"applied">> THEN Invalidate(bill, 0) ELSE bill

Waits == Here /\ back.on # 0

PaidSettles ==
    /\ Waits
    /\ paid.data \in {<<"applied">>, <<"failed">>}
    /\ back' = WaitFor(0) /\ Announce
    /\ UNCHANGED <<billApi, paid, period, confirming, buying, billJobs, away>>

PaidIsSlow ==
    /\ Waits /\ ~back.slow /\ back' = [back EXCEPT !.slow = TRUE]
    /\ UNCHANGED <<billApi, bill, paid, period, confirming, buying, billJobs, away>>

PaidDismissed ==
    /\ Waits /\ (back.slow \/ paid.failed)
    /\ back' = [WaitFor(0) EXCEPT !.dismissed = TRUE]
    /\ UNCHANGED <<billApi, bill, paid, period, confirming, buying, billJobs, away>>

PollPaid ==
    /\ Waits /\ paid.wire = Quiet
    /\ paid.data \notin {<<"applied">>, <<"failed">>}
    /\ paid' = Ask(paid, back.on)
    /\ UNCHANGED <<billApi, bill, back, period, confirming, buying, billJobs, away>>

PaidAnswered ==
    /\ IsAnswered(paid) /\ paid' = Install(paid)
    /\ UNCHANGED <<billApi, bill, back, period, confirming, buying, billJobs, away>>

PaidFails ==
    /\ paid.wire # Quiet /\ paid' = Fail(paid)
    /\ UNCHANGED <<billApi, bill, back, period, confirming, buying, billJobs, away>>

-----------------------------------------------------------------------------
(* The subscription, and the answers. *)

(* The first subscription the page sees sets the period. *)
Seed(q) ==
    IF ~period.seeded /\ q.data[1].offer # NoOffer
    THEN [is |-> q.data[1].offer[2], seeded |-> TRUE]
    ELSE period

BillAnswered ==
    /\ IsAnswered(bill) /\ bill' = Install(bill) /\ period' = Seed(bill')
    /\ UNCHANGED <<billApi, paid, back, confirming, buying, billJobs, away>>

BillFails ==
    /\ bill.wire # Quiet /\ bill' = Fail(bill)
    /\ UNCHANGED <<billApi, paid, back, period, confirming, buying, billJobs, away>>

(* The window is focused again, or "Try again" is pressed. *)
BillRefetch ==
    /\ Here /\ bill.wire = Quiet /\ bill' = Ask(bill, 0)
    /\ UNCHANGED <<billApi, paid, back, period, confirming, buying, billJobs, away>>

(* A checkout or the portal takes the browser away; the rest is refreshed,  *)
(* and a change made in a dialog closes it.                                 *)
BillJobDone(r) ==
    /\ Here /\ r.at = "done" /\ billJobs' = Over(billJobs, r)
    /\ bill' = IF r.kind \in Changing THEN Invalidate(bill, 0) ELSE bill
    /\ away' = IF r.kind \in {"checkout", "portal"} THEN r.on ELSE <<>>
    /\ confirming' =
           IF r.kind = "cancel" \/ (r.kind = "change" /\ r.on \in Offer)
           THEN <<"none">> ELSE confirming
    /\ UNCHANGED <<billApi, paid, back, period, buying>>

BillJobFails(r) ==
    /\ Here /\ billJobs' = Over(billJobs, r)
    /\ buying' = IF r.kind = "checkout" THEN NoOffer ELSE buying
    /\ UNCHANGED <<billApi, bill, paid, back, period, confirming, away>>

(* The page is opened, by the reader or by the provider sending the browser *)
(* back to it: it starts anew.                                              *)
ComeBack ==
    /\ ~Here /\ away' = <<>>
    /\ bill' = Ask(Empty, 0) /\ period' = Unseeded
    /\ back' = WaitFor(away[1])
    /\ paid' = IF away[1] = 0 THEN Empty ELSE Ask(Empty, away[1])
    /\ confirming' = <<"none">> /\ buying' = NoOffer
    /\ billJobs' = [Unhear(billJobs, BillKinds) EXCEPT !.flying = {}]
    /\ UNCHANGED billApi

-----------------------------------------------------------------------------
(* The API and the provider. *)

Bought(o) == [Free EXCEPT !.offer = o]

Changed(r) ==
    LET o == IF r.on \in Offer THEN r.on ELSE Tail(r.on) IN
    CASE r.kind = "cancel" -> {[sub EXCEPT !.ends = TRUE, !.next = NoOffer]}
      [] r.kind = "resume" -> {[sub EXCEPT !.ends = FALSE]}
      [] r.kind = "change" -> IF sub.ends THEN {}
                              ELSE {Bought(o)} \cup
                                   (IF o = sub.offer THEN {} ELSE {[sub EXCEPT !.next = o]})

TakeBillJob(r) ==
    /\ r.at = "asked"
    /\ \/ /\ r.kind = "checkout" /\ sub = Free
          /\ checkouts' = Append(checkouts, [offer |-> r.on, at |-> "open"])
          /\ billJobs' = Answered(billJobs, r, "done", <<Len(checkouts')>>) /\ UNCHANGED sub
       \/ /\ r.kind = "portal"
          /\ billJobs' = Answered(billJobs, r, "done", <<0>>) /\ UNCHANGED billApi
       \/ /\ r.kind \in Changing /\ sub.offer # NoOffer /\ sub' \in Changed(r)
          /\ billJobs' = Answered(billJobs, r, "done", r.on) /\ UNCHANGED checkouts
       \/ billJobs' = Answered(billJobs, r, "refused", r.on) /\ UNCHANGED billApi
    /\ UNCHANGED <<bill, paid, back, period, confirming, buying, away>>

CheckoutEnds(c) ==
    /\ checkouts[c].at = "open"
    /\ \/ checkouts' = [checkouts EXCEPT ![c].at = "failed"] /\ UNCHANGED sub
       \/ checkouts' = [checkouts EXCEPT ![c].at = "applied"] /\ sub' = Bought(checkouts[c].offer)
    /\ UNCHANGED <<bill, paid, back, period, confirming, buying, billJobs, away>>

(* The end of the period. *)
PeriodEnds ==
    /\ sub.ends \/ sub.next # NoOffer
    /\ sub' = IF sub.ends THEN Free ELSE Bought(sub.next)
    /\ UNCHANGED <<checkouts, bill, paid, back, period, confirming, buying, billJobs, away>>

ServeBill ==
    /\ IsAsked(bill) /\ bill' = Serve(bill, sub)
    /\ UNCHANGED <<billApi, paid, back, period, confirming, buying, billJobs, away>>

ServePaid ==
    /\ IsAsked(paid) /\ paid' = Serve(paid, checkouts[paid.wire[2]].at)
    /\ UNCHANGED <<billApi, bill, back, period, confirming, buying, billJobs, away>>

BillNext ==
    \/ \E i \in Period : ChoosePeriod(i)
    \/ \E p \in Plan : Buy(p) \/ AskChange(p)
    \/ AskCancel \/ DropConfirm \/ Confirm \/ Undo \/ OpenPortal
    \/ PaidSettles \/ PaidIsSlow \/ PaidDismissed \/ PollPaid \/ PaidAnswered \/ PaidFails
    \/ BillAnswered \/ BillFails \/ BillRefetch
    \/ \E r \in billJobs.flying : TakeBillJob(r) \/ BillJobDone(r) \/ BillJobFails(r)
    \/ \E c \in DOMAIN checkouts : CheckoutEnds(c)
    \/ ComeBack \/ PeriodEnds \/ ServeBill \/ ServePaid

(* Timers go off and effects run; of the requests sent again and again some *)
(* are answered, and a request either is or fails.                          *)
BillFairness ==
    /\ WF_billVars(PollPaid) /\ WF_billVars(PaidSettles)
    /\ SF_billVars(ServePaid) /\ SF_billVars(PaidAnswered)
    /\ WF_billVars(ServeBill) /\ WF_billVars(BillAnswered)

-----------------------------------------------------------------------------
(* A checkout the reader waits for is paid, and the page had a plan to show *)
(* before: it comes to show the plan that was bought, unless it cannot be   *)
(* read or the notice is dismissed.  A page still waiting for its first     *)
(* answer may be given the old plan, and keeps it: invalidateQueries does   *)
(* not replace that request (QueryClient).                                  *)
PaidFor == Waits /\ checkouts[back.on].at = "applied" /\ sub # Free /\ HasData(bill)

PlanShown ==
    \/ ~Here \/ back.dismissed \/ bill.failed \/ sub = Free
    \/ HasData(bill) /\ Shown # Free

(* The answer to a change closes the dialog that change was confirmed in,   *)
(* never one the reader has opened since.                                   *)
OwnDialogCloses ==
    [][\A r \in billJobs.flying :
        (BillJobDone(r) /\ confirming # <<"none">> /\ confirming' = <<"none">>) =>
            confirming = IF r.kind = "cancel" THEN <<"cancel">> ELSE <<r.kind, r.on>>]_billVars

=============================================================================
