---------------------------- MODULE Subscription ----------------------------
(***************************************************************************)
(* The subscription of one tenant and the invoices of its billing periods. *)
(*                                                                         *)
(* Every operation of SubscriptionService and BillingService.renew reads   *)
(* the row into a SubscriptionAggregate, lets the aggregate decide, and    *)
(* saves all of its columns in a later transaction, without asking whether *)
(* the row changed in between; a renewal issues its invoice in yet another *)
(* one.  Webhooks settle invoices and write the status in one step (see    *)
(* PaymentRequests), and a platform administrator schedules a plan with a  *)
(* compare-and-set on the plan columns.                                    *)
(*                                                                         *)
(* Months are numbers and an invoice is named by the month it bills.       *)
(***************************************************************************)
EXTENDS InvoiceLifecycle, Naturals, Sequences

CONSTANTS
    SubCalls,       \* calls of the endpoints
    Plans,          \* plans, and what each costs
    Price,
    NoPlan,         \* no plan change is scheduled
    MaxMonth        \* bound: the last month that is billed

ASSUME SubscriptionConstants ==
    /\ MaxMonth \in Nat \ {0}
    /\ Invoices = 1..MaxMonth
    /\ Price \in [Plans -> Nat]
    /\ NoPlan \notin Plans

VARIABLES
    plan, pendingPlan,  \* Subscription.planId and pendingPlanId
    endedAt,            \* last month paid for, 0 for NULL
    month,              \* the clock
    amount,             \* Invoice.amountCents
    subStep,            \* where each call stands
    subOp,              \* which endpoint it is, and the plan it names
    copy,               \* the aggregate it holds
    period,             \* the month it bills
    fresh               \* calls since whose read the row was not written

rowVars == <<standing, plan, pendingPlan, endedAt>>
subscriptionVars ==
    <<lifecycleVars, plan, pendingPlan, endedAt, month, amount, subStep, subOp,
      copy, period, fresh>>

SubOps ==
    [op : {"cancel", "suspend", "resume", "renew", "executeBilling"},
     plan : {NoPlan}]
    \cup [op : {"changePlan", "changeTenantPlan"}, plan : Plans]
SubStep == {"new", "save", "schedule", "invoice", "returned", "error"}

Row == [status |-> standing, plan |-> plan, pending |-> pendingPlan,
        end |-> endedAt]
RowType == [status : SubscriptionStatus, plan : Plans,
            pending : Plans \cup {NoPlan}, end : 0..MaxMonth]

SubscriptionTypeOK ==
    /\ invoice \in [Invoices -> InvoiceStatus]
    /\ Row \in RowType
    /\ month \in Invoices
    /\ amount \in [Invoices -> Nat]
    /\ subStep \in [SubCalls -> SubStep]
    /\ subOp \in [SubCalls -> SubOps]
    /\ copy \in [SubCalls -> RowType]
    /\ period \in [SubCalls -> Invoices]
    /\ fresh \subseteq SubCalls

(* The row as createSubscription leaves it.                                *)
SubscriptionInit ==
    /\ LifecycleInit
    /\ plan \in Plans
    /\ pendingPlan = NoPlan
    /\ endedAt = 0
    /\ month = 1
    /\ amount = [i \in Invoices |-> 0]
    /\ subStep = [c \in SubCalls |-> "new"]
    /\ subOp \in [SubCalls -> SubOps]
    /\ copy = [c \in SubCalls |-> Row]
    /\ period = [c \in SubCalls |-> 1]
    /\ fresh = {}
-----------------------------------------------------------------------------
isExpired(s) == s.end # 0 /\ month > s.end
isActive(s) == s.status = "ACTIVE" /\ ~isExpired(s)
canActivate(s) ==
    s.status \in {"TRIAL", "PAST_DUE", "SUSPENDED"} /\ ~isExpired(s)

(* The methods of the aggregate: may s be changed, and what becomes of it. *)
MayCancel(s) == s.status # "EXPIRED"
MaySuspend(s) == s.status \notin {"CANCELLED", "EXPIRED"}

(* Mutant: a cancelled subscription is renewed like any other.             *)
MayRenew_cancelled(s) == s.status \in SubscriptionStatus

MayRenew(s) == s.status # "CANCELLED"

(* schedulePlanChange: choosing the current plan clears the schedule.      *)
schedulePlanChange(s, p) ==
    [s EXCEPT !.pending = IF p = s.plan THEN NoPlan ELSE p]

(* renew has nothing left to do for a period that is paid for already.     *)
Covered(s, p) == s.status = "ACTIVE" /\ s.end # 0 /\ s.end >= p

renew(s, p) ==
    IF Covered(s, p) THEN s
    ELSE [status |-> "ACTIVE", pending |-> NoPlan, end |-> p,
          plan |-> IF s.pending = NoPlan THEN s.plan ELSE s.pending]

(* A call has read the row, and its aggregate now holds s and bills b.     *)
Loads(c, s, b, next) ==
    /\ copy' = [copy EXCEPT ![c] = s]
    /\ period' = [period EXCEPT ![c] = b]
    /\ fresh' = fresh \cup {c}
    /\ subStep' = [subStep EXCEPT ![c] = next]
    /\ UNCHANGED <<lifecycleVars, plan, pendingPlan, endedAt, month, amount,
                   subOp>>

LoadAggregate(c) ==
    LET s == Row
        op == subOp[c].op
        p == subOp[c].plan IN
    /\ subStep[c] = "new"
    /\ \/ /\ op = "cancel" /\ MayCancel(s)
          /\ Loads(c, [s EXCEPT !.status = "CANCELLED"], month, "save")
       \/ /\ op = "suspend" /\ MaySuspend(s)
          /\ Loads(c, [s EXCEPT !.status = "SUSPENDED"], month, "save")
       \/ /\ op = "resume" /\ canActivate(s)
          /\ Loads(c, [s EXCEPT !.status = "ACTIVE"], month, "save")
       \/ /\ op = "changePlan" /\ isActive(s)
          /\ Loads(c, schedulePlanChange(s, p), month, "save")
       \/ /\ op = "changeTenantPlan"
          /\ Loads(c, s, month, "schedule")
       \/ /\ op = "executeBilling" /\ isActive(s)
          /\ Loads(c, s, month, "invoice")
       \/ /\ op = "renew" /\ MayRenew(s) /\ month < MaxMonth
          /\ Loads(c, renew(s, month + 1), month + 1, "save")

(* The aggregate throws.                                                   *)
AggregateThrows(c) ==
    LET op == subOp[c].op IN
    /\ subStep[c] = "new"
    /\ \/ op = "cancel" /\ ~MayCancel(Row)
       \/ op = "suspend" /\ ~MaySuspend(Row)
       \/ op = "resume" /\ ~canActivate(Row)
       \/ op \in {"changePlan", "executeBilling"} /\ ~isActive(Row)
       \/ op = "renew" /\ ~MayRenew(Row)
    /\ subStep' = [subStep EXCEPT ![c] = "error"]
    /\ UNCHANGED <<lifecycleVars, plan, pendingPlan, endedAt, month, amount,
                   subOp, copy, period, fresh>>
-----------------------------------------------------------------------------
(* SubscriptionRepository.save writes every column of the copy, those it   *)
(* changed and those it only read.                                         *)
WriteRow(s) ==
    /\ standing' = s.status
    /\ plan' = s.plan
    /\ pendingPlan' = s.pending
    /\ endedAt' = s.end
    /\ fresh' = {}

saveSubscription(c) ==
    /\ subStep[c] = "save"
    /\ WriteRow(copy[c])
    /\ subStep' = [subStep EXCEPT ![c] =
                    IF subOp[c].op = "renew" THEN "invoice" ELSE "returned"]
    /\ UNCHANGED <<invoice, month, amount, subOp, copy, period>>

(* The platform's plan change is applied to the columns it has read.       *)
changeTenantPlan(c) ==
    LET s == copy[c]
        want == schedulePlanChange(s, subOp[c].plan) IN
    /\ subStep[c] = "schedule"
    /\ IF want = s
       THEN /\ subStep' = [subStep EXCEPT ![c] = "returned"]
            /\ UNCHANGED <<rowVars, fresh>>
       ELSE IF plan = s.plan /\ pendingPlan = s.pending
       THEN /\ WriteRow([Row EXCEPT !.pending = want.pending])
            /\ subStep' = [subStep EXCEPT ![c] = "returned"]
       ELSE /\ subStep' = [subStep EXCEPT ![c] = "error"]
            /\ UNCHANGED <<rowVars, fresh>>
    /\ UNCHANGED <<invoice, month, amount, subOp, copy, period>>

(* createInvoiceForPeriod: nothing for a free plan, the invoice of the     *)
(* period if there is one, else a new one at the price of the copy's plan. *)
createInvoiceForBillingPeriod(c) ==
    LET i == period[c]
        price == Price[copy[c].plan] IN
    /\ subStep[c] = "invoice"
    /\ IF price > 0 /\ invoice[i] = "NONE"
       THEN Issue(i) /\ amount' = [amount EXCEPT ![i] = price]
       ELSE UNCHANGED <<lifecycleVars, amount>>
    /\ subStep' = [subStep EXCEPT ![c] = "returned"]
    /\ UNCHANGED <<plan, pendingPlan, endedAt, month, subOp, copy,
                   period, fresh>>

(* The process dies before the save, or between the save and the invoice.  *)
SubDies(c) ==
    /\ subStep[c] \in {"save", "schedule", "invoice"}
    /\ subStep' = [subStep EXCEPT ![c] = "error"]
    /\ UNCHANGED <<lifecycleVars, plan, pendingPlan, endedAt, month, amount,
                   subOp, copy, period, fresh>>

(* A webhook settles an invoice, whatever the subscription is by then.     *)
settleInvoice(i) ==
    /\ Settle(i, "PAID") \/ Settle(i, "FAILED")
    /\ fresh' = {}
    /\ UNCHANGED <<plan, pendingPlan, endedAt, month, amount, subStep,
                   subOp, copy, period>>

cancelInvoice(i) ==
    /\ Cancel(i)
    /\ UNCHANGED <<plan, pendingPlan, endedAt, month, amount, subStep,
                   subOp, copy, period, fresh>>

MonthEnds ==
    /\ month < MaxMonth
    /\ month' = month + 1
    /\ UNCHANGED <<lifecycleVars, plan, pendingPlan, endedAt, amount, subStep, subOp, copy, period, fresh>>

SubscriptionNext ==
    \/ \E c \in SubCalls :
            \/ LoadAggregate(c) \/ AggregateThrows(c) \/ saveSubscription(c)
            \/ changeTenantPlan(c) \/ createInvoiceForBillingPeriod(c) \/ SubDies(c)
    \/ \E i \in Invoices : settleInvoice(i) \/ cancelInvoice(i)
    \/ MonthEnds

SubscriptionSpec == SubscriptionInit /\ [][SubscriptionNext]_subscriptionVars
-----------------------------------------------------------------------------
(* A save whose copy is older than the row.                                *)
StaleSave ==
    \E c \in SubCalls \ fresh :
        subStep[c] = "save" /\ subStep'[c] \in {"invoice", "returned"}

(* A cancelled subscription comes back in two ways only: a webhook settles *)
(* an invoice issued before, or a call that read the row before the        *)
(* cancellation saves its copy after it.  No sequence of calls one after   *)
(* the other revives it.                                                   *)
CancelledLeftBy ==
    [][standing = "CANCELLED" /\ standing' # "CANCELLED" =>
            \/ StaleSave
            \/ \E i \in Invoices :
                    /\ invoice[i] = "PENDING"
                    /\ invoice'[i] \in {"PAID", "FAILED"}]_subscriptionVars

(* The plan in force only ever changes to the plan that was scheduled, or  *)
(* when a stale copy is saved: no interleaving of the tenant's and the     *)
(* platform's scheduling puts a plan into force by itself.                 *)
PlanFollowsSchedule ==
    [][plan' # plan => plan' = pendingPlan \/ StaleSave]_subscriptionVars

(* A renewal that answered has an invoice for its period, also when an     *)
(* earlier attempt died between its save and its invoice and this one      *)
(* found nothing left to renew.                                            *)
RenewalIsInvoiced ==
    \A c \in SubCalls :
        /\ subOp[c].op = "renew"
        /\ subStep[c] = "returned"
        /\ Price[copy[c].plan] > 0
        => invoice[period[c]] # "NONE"

(* Standing and plan change only the way the subscription's rules say,     *)
(* stale saves excepted, and renewals are invoiced.                        *)
SubscriptionIsSound ==
    /\ [](SubscriptionTypeOK /\ RenewalIsInvoiced)
    /\ CancelledLeftBy /\ PlanFollowsSchedule
=============================================================================
