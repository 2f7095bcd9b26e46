-------------------------- MODULE InvoiceLifecycle --------------------------
(***************************************************************************)
(* What billing promises about the invoices of one subscription: an        *)
(* invoice is issued once, stays open until it is cancelled or the         *)
(* provider reports how the payment ended, and what it became it stays.    *)
(* The report also moves the subscription, in the same step, and a         *)
(* cancellation does not.                                                  *)
(***************************************************************************)
CONSTANT Invoices   \* one for each billing period

VARIABLES
    invoice,        \* Invoice.status, "NONE" before the row exists
    standing        \* Subscription.status

lifecycleVars == <<invoice, standing>>

InvoiceStatus == {"NONE", "PENDING", "PAID", "FAILED", "CANCELLED"}
SubscriptionStatus ==
    {"TRIAL", "ACTIVE", "PAST_DUE", "SUSPENDED", "CANCELLED", "EXPIRED"}

LifecycleInit ==
    /\ invoice = [i \in Invoices |-> "NONE"]
    /\ standing = "ACTIVE"

Issue(i) ==
    /\ invoice[i] = "NONE"
    /\ invoice' = [invoice EXCEPT ![i] = "PENDING"]
    /\ UNCHANGED standing

Cancel(i) ==
    /\ invoice[i] = "PENDING"
    /\ invoice' = [invoice EXCEPT ![i] = "CANCELLED"]
    /\ UNCHANGED standing

(* The standing that a final status of an invoice gives the subscription.  *)
StandingAfter == [PAID |-> "ACTIVE", FAILED |-> "PAST_DUE"]

Settle(i, final) ==
    /\ invoice[i] = "PENDING"
    /\ invoice' = [invoice EXCEPT ![i] = final]
    /\ standing' = StandingAfter[final]

LifecycleNext ==
    \E i \in Invoices :
        Issue(i) \/ Cancel(i) \/ Settle(i, "PAID") \/ Settle(i, "FAILED")

(* Every step of PaymentRequests is one of these or leaves both alone:     *)
(* retried webhooks, races of two webhooks and of a webhook with a         *)
(* cancellation settle an invoice once and never move the subscription a   *)
(* second time.                                                            *)
LifecycleSpec == LifecycleInit /\ [][LifecycleNext]_lifecycleVars
=============================================================================
