--------------------------- MODULE PaymentRequests ---------------------------
(***************************************************************************)
(* Paying an invoice through Xendit: BillingService and BillingRepository. *)
(*                                                                         *)
(* createXenditPaymentRequest asks the provider for a payment request.     *)
(* The answer can be lost, the process can die and several calls can run   *)
(* at once, so a row XenditPaymentRequestAttempt is claimed before the     *)
(* provider is called and tells later calls what is known of the outcome.  *)
(* Webhooks report payments; the provider repeats and reorders them.       *)
(*                                                                         *)
(* A payment request is identified by the call whose charge created it and *)
(* holds one payment.  The database serialises transactions that lock the  *)
(* same invoice row; the filter of the cancelling UPDATE on the attempt is *)
(* evaluated on the statement's snapshot, before it waits for that row.    *)
(***************************************************************************)
EXTENDS InvoiceLifecycle, Naturals, Sequences

CONSTANTS
    PayCalls,       \* calls of createXenditPaymentRequest
    NoRequest       \* no payment request id stored

ASSUME PaymentConstants == NoRequest \notin PayCalls

VARIABLES
    requestId,      \* Invoice.providerPaymentRequestId
    attempt,        \* XenditPaymentRequestAttempt.state, "NONE" without a row
    attemptId,      \* its providerPaymentRequestId
    payStep,        \* where each call stands
    payFor,         \* the invoice it was called for
    cancelStep,     \* where DELETE of each invoice stands
    payment,        \* the provider's payment of each request
    webhookReceipts,       \* XenditWebhookReceipt: reports processed or ignored
    billed          \* types of the outbox rows about each invoice, in order

attemptVars == <<requestId, attempt, attemptId>>
paymentVars ==
    <<lifecycleVars, attemptVars, payStep, payFor, cancelStep, payment,
      webhookReceipts, billed>>

AttemptState == {"NONE", "IN_PROGRESS", "REJECTED", "UNKNOWN", "COMPLETED"}
Paying == {"attempt", "claim", "charge", "correlate", "rejected", "unknown",
           "retain", "reread", "reattempt", "recover"}
PayStep == Paying \cup {"new", "returned", "error", "died"}
Report == {"AUTHORIZED", "SUCCEEDED", "FAILED"}
BilledType == {"INVOICE_CREATED", "PAYMENT_REQUIRED", "INVOICE_CANCELLED",
               "INVOICE_PAID", "INVOICE_FAILED", "SUBSCRIPTION_PAST_DUE"}

PaymentTypeOK ==
    /\ invoice \in [Invoices -> InvoiceStatus]
    /\ standing \in SubscriptionStatus
    /\ requestId \in [Invoices -> PayCalls \cup {NoRequest}]
    /\ attempt \in [Invoices -> AttemptState]
    /\ attemptId \in [Invoices -> PayCalls \cup {NoRequest}]
    /\ payStep \in [PayCalls -> PayStep]
    /\ payFor \in [PayCalls -> Invoices]
    /\ cancelStep \in [Invoices -> {"idle", "filtered"}]
    /\ payment \in [PayCalls -> {"NONE", "OPEN", "SUCCEEDED", "FAILED"}]
    /\ webhookReceipts \subseteq PayCalls \X Report
    /\ billed \in [Invoices -> Seq(BilledType)]

PaymentInit ==
    /\ LifecycleInit
    /\ requestId = [i \in Invoices |-> NoRequest]
    /\ attempt = [i \in Invoices |-> "NONE"]
    /\ attemptId = [i \in Invoices |-> NoRequest]
    /\ payStep = [c \in PayCalls |-> "new"]
    /\ payFor \in [PayCalls -> Invoices]
    /\ cancelStep = [i \in Invoices |-> "idle"]
    /\ payment = [c \in PayCalls |-> "NONE"]
    /\ webhookReceipts = {}
    /\ billed = [i \in Invoices |-> <<>>]
-----------------------------------------------------------------------------
PayGoto(c, s) == payStep' = [payStep EXCEPT ![c] = s]
Bill(i, events) == billed' = [billed EXCEPT ![i] = @ \o events]

(* createInvoiceForBillingPeriod with its two outbox rows.                 *)
createInvoiceForPeriod(i) ==
    /\ Issue(i)
    /\ Bill(i, <<"INVOICE_CREATED", "PAYMENT_REQUIRED">>)
    /\ UNCHANGED <<attemptVars, payStep, payFor, cancelStep, payment, webhookReceipts>>

(* The checks of createXenditPaymentRequest before it claims: each is a    *)
(* read of its own.                                                        *)
readInvoice(c) ==
    LET i == payFor[c] IN
    /\ payStep[c] = "new"
    /\ PayGoto(c, IF invoice[i] # "PENDING" THEN "error"
                  ELSE IF requestId[i] # NoRequest THEN "returned"
                  ELSE "attempt")
    /\ UNCHANGED <<lifecycleVars, attemptVars, payFor, cancelStep, payment,
                   webhookReceipts, billed>>

readAttempt(c) ==
    LET i == payFor[c] IN
    /\ payStep[c] = "attempt"
    /\ PayGoto(c, IF attemptId[i] # NoRequest THEN "recover"
                  ELSE IF attempt[i] \notin {"NONE", "REJECTED"} THEN "error"
                  ELSE "claim")
    /\ UNCHANGED <<lifecycleVars, attemptVars, payFor, cancelStep, payment,
                   webhookReceipts, billed>>

(* Mutant: an attempt whose outcome is not known can be claimed again.     *)
claimXenditPaymentRequest_unknown(c) ==
    LET i == payFor[c] IN
    /\ payStep[c] = "claim"
    /\ IF /\ invoice[i] = "PENDING"
          /\ requestId[i] = NoRequest
          /\ attempt[i] \in {"NONE", "REJECTED", "UNKNOWN"}
       THEN /\ attempt' = [attempt EXCEPT ![i] = "IN_PROGRESS"]
            /\ PayGoto(c, "charge")
       ELSE /\ PayGoto(c, "reread")
            /\ UNCHANGED attempt
    /\ UNCHANGED <<lifecycleVars, requestId, attemptId, payFor, cancelStep,
                   payment, webhookReceipts, billed>>

claimXenditPaymentRequest(c) ==
    LET i == payFor[c] IN
    /\ payStep[c] = "claim"
    /\ IF /\ invoice[i] = "PENDING"
          /\ requestId[i] = NoRequest
          /\ attempt[i] \in {"NONE", "REJECTED"}
       THEN /\ attempt' = [attempt EXCEPT ![i] = "IN_PROGRESS"]
            /\ PayGoto(c, "charge")
       ELSE /\ PayGoto(c, "reread")
            /\ UNCHANGED attempt
    /\ UNCHANGED <<lifecycleVars, requestId, attemptId, payFor, cancelStep,
                   payment, webhookReceipts, billed>>

(* The two reads of a call that lost the claim.                            *)
rereadInvoice(c) ==
    /\ payStep[c] = "reread"
    /\ PayGoto(c, IF requestId[payFor[c]] # NoRequest THEN "returned"
                  ELSE "reattempt")
    /\ UNCHANGED <<lifecycleVars, attemptVars, payFor, cancelStep, payment,
                   webhookReceipts, billed>>

rereadAttempt(c) ==
    /\ payStep[c] = "reattempt"
    /\ PayGoto(c, IF attemptId[payFor[c]] # NoRequest THEN "recover"
                  ELSE "error")
    /\ UNCHANGED <<lifecycleVars, attemptVars, payFor, cancelStep, payment,
                   webhookReceipts, billed>>

(* XenditPaymentGateway.charge, seen from both ends: the provider creates  *)
(* the request or not, and the gateway learns its id, that it was refused, *)
(* or nothing it can rely on.                                              *)
charge(c) ==
    /\ payStep[c] = "charge"
    /\ \/ /\ payment' = [payment EXCEPT ![c] = "OPEN"]
          /\ PayGoto(c, "correlate") \/ PayGoto(c, "unknown")
       \/ /\ PayGoto(c, "rejected") \/ PayGoto(c, "unknown")
          /\ UNCHANGED payment
    /\ UNCHANGED <<lifecycleVars, attemptVars, payFor, cancelStep, webhookReceipts,
                   billed>>
-----------------------------------------------------------------------------
(* The transaction of completeXenditPaymentRequest for request r.          *)
Completable(i, r) ==
    /\ invoice[i] = "PENDING"
    /\ requestId[i] = NoRequest
    /\ attempt[i] \in {"IN_PROGRESS", "UNKNOWN"}
    /\ attemptId[i] \in {NoRequest, r}

Complete(i, r) ==
    /\ Completable(i, r)
    /\ requestId' = [requestId EXCEPT ![i] = r]
    /\ attempt' = [attempt EXCEPT ![i] = "COMPLETED"]
    /\ attemptId' = [attemptId EXCEPT ![i] = r]

(* The call that was given the id stores it; the transaction finds a row   *)
(* changed, or the database fails, and the id is retained if possible.     *)
completeXenditPaymentRequest(c) ==
    /\ payStep[c] = "correlate"
    /\ \/ Complete(payFor[c], c) /\ PayGoto(c, "returned")
       \/ PayGoto(c, "retain") /\ UNCHANGED attemptVars
    /\ UNCHANGED <<lifecycleVars, payFor, cancelStep, payment, webhookReceipts, billed>>

recoverXenditPaymentRequest(c) ==
    LET i == payFor[c] IN
    /\ payStep[c] = "recover"
    /\ \/ Complete(i, attemptId[i]) /\ PayGoto(c, "returned")
       \/ PayGoto(c, "error") /\ UNCHANGED attemptVars
    /\ UNCHANGED <<lifecycleVars, payFor, cancelStep, payment, webhookReceipts, billed>>

(* recordPaymentRequestOutcome swallows a failure of its own update.       *)
recordPaymentRequestOutcome(c) ==
    LET i == payFor[c]
        refused == payStep[c] = "rejected" IN
    /\ payStep[c] \in {"rejected", "unknown", "retain"}
    /\ \/ /\ attempt[i] = "IN_PROGRESS"
          /\ attempt' = [attempt EXCEPT ![i] = IF refused THEN "REJECTED"
                                               ELSE "UNKNOWN"]
          /\ attemptId' = IF payStep[c] = "retain"
                          THEN [attemptId EXCEPT ![i] = c] ELSE attemptId
       \/ UNCHANGED <<attempt, attemptId>>
    /\ PayGoto(c, "error")
    /\ UNCHANGED <<lifecycleVars, requestId, payFor, cancelStep, payment,
                   webhookReceipts, billed>>

(* The process dies in the middle of a call.                               *)
PayDies(c) ==
    /\ payStep[c] \in Paying
    /\ PayGoto(c, "died")
    /\ UNCHANGED <<lifecycleVars, attemptVars, payFor, cancelStep, payment,
                   webhookReceipts, billed>>
-----------------------------------------------------------------------------
(* cancelPendingInvoice evaluates its filter on the attempt ...            *)
cancelFilter(i) ==
    /\ cancelStep[i] = "idle"
    /\ invoice[i] = "PENDING"
    /\ requestId[i] = NoRequest
    /\ attempt[i] \in {"NONE", "REJECTED"}
    /\ cancelStep' = [cancelStep EXCEPT ![i] = "filtered"]
    /\ UNCHANGED <<lifecycleVars, attemptVars, payStep, payFor, payment,
                   webhookReceipts, billed>>

(* Mutant: the update only names the invoice's id.                         *)
cancelPendingInvoice_blind(i) ==
    /\ cancelStep[i] = "filtered"
    /\ cancelStep' = [cancelStep EXCEPT ![i] = "idle"]
    /\ invoice' = [invoice EXCEPT ![i] = "CANCELLED"]
    /\ Bill(i, <<"INVOICE_CANCELLED">>)
    /\ UNCHANGED <<standing, attemptVars, payStep, payFor, payment, webhookReceipts>>

(* ... and updates the row, if that still matches, once it has it.         *)
cancelPendingInvoice(i) ==
    /\ cancelStep[i] = "filtered"
    /\ cancelStep' = [cancelStep EXCEPT ![i] = "idle"]
    /\ IF requestId[i] = NoRequest /\ invoice[i] = "PENDING"
       THEN Cancel(i) /\ Bill(i, <<"INVOICE_CANCELLED">>)
       ELSE UNCHANGED <<lifecycleVars, billed>>
    /\ UNCHANGED <<attemptVars, payStep, payFor, payment, webhookReceipts>>

(* The customer pays or the request ends without a payment: external.      *)
ProviderSettles(c) ==
    /\ payment[c] = "OPEN"
    /\ \E end \in {"SUCCEEDED", "FAILED"} :
            payment' = [payment EXCEPT ![c] = end]
    /\ UNCHANGED <<lifecycleVars, attemptVars, payStep, payFor, cancelStep,
                   webhookReceipts, billed>>

(* Reports the provider sends about request c, again and in any order.     *)
Reports(c) ==
    IF payment[c] = "NONE" THEN {} ELSE {"AUTHORIZED", payment[c]} \ {"OPEN"}

FinalStatus == [SUCCEEDED |-> "PAID", FAILED |-> "FAILED"]
SettledEvents ==
    [PAID |-> <<"INVOICE_PAID">>,
     FAILED |-> <<"INVOICE_FAILED", "SUBSCRIPTION_PAST_DUE">>]

(* Mutant: the receipt is kept when no invoice carries the request's id.   *)
processXenditWebhookEvent_keeps(c, report) ==
    /\ <<c, report>> \notin webhookReceipts
    /\ webhookReceipts' = webhookReceipts \cup {<<c, report>>}
    /\ LET i == payFor[c] IN
       IF report # "AUTHORIZED" /\ invoice[i] = "PENDING" /\ requestId[i] = c
       THEN /\ Settle(i, FinalStatus[report])
            /\ Bill(i, SettledEvents[FinalStatus[report]])
       ELSE UNCHANGED <<lifecycleVars, billed>>
    /\ UNCHANGED <<attemptVars, payStep, payFor, cancelStep, payment>>

(* A report about an id no invoice carries is refused and its receipt      *)
(* rolled back, so that a later delivery is processed; a report seen       *)
(* before has no effect.                                                   *)
processXenditWebhookEvent(c, report) ==
    LET i == payFor[c] IN
    /\ <<c, report>> \notin webhookReceipts
    /\ requestId[i] = c
    /\ webhookReceipts' = webhookReceipts \cup {<<c, report>>}
    /\ IF report # "AUTHORIZED" /\ invoice[i] = "PENDING"
       THEN /\ Settle(i, FinalStatus[report])
            /\ Bill(i, SettledEvents[FinalStatus[report]])
       ELSE UNCHANGED <<lifecycleVars, billed>>
    /\ UNCHANGED <<attemptVars, payStep, payFor, cancelStep, payment>>

webhook(c) == \E report \in Reports(c) : processXenditWebhookEvent(c, report)

PayCallStep(c) ==
    \/ readInvoice(c) \/ readAttempt(c) \/ claimXenditPaymentRequest(c)
    \/ rereadInvoice(c) \/ rereadAttempt(c) \/ charge(c)
    \/ completeXenditPaymentRequest(c) \/ recoverXenditPaymentRequest(c)
    \/ recordPaymentRequestOutcome(c) \/ PayDies(c)

PaymentNext ==
    \/ \E i \in Invoices :
            createInvoiceForPeriod(i) \/ cancelFilter(i) \/ cancelPendingInvoice(i)
    \/ \E c \in PayCalls : PayCallStep(c) \/ ProviderSettles(c) \/ webhook(c)

PaymentSpec == PaymentInit /\ [][PaymentNext]_paymentVars

-----------------------------------------------------------------------------
(* Whatever is lost, dies or runs at the same time, the provider is never  *)
(* asked for a second payment request while a first one may exist: the     *)
(* customer cannot be charged twice for one invoice.                       *)
OneRequestPerInvoice ==
    \A c, d \in PayCalls :
        payFor[c] = payFor[d] /\ payment[c] # "NONE" /\ payment[d] # "NONE"
            => c = d

(* An invoice is PAID only when the provider captured the payment of the   *)
(* request stored with it, and FAILED only when that payment failed.       *)
SettledAsReported ==
    \A i \in Invoices :
        /\ invoice[i] = "PAID" =>
                \E c \in PayCalls : requestId[i] = c /\ payment[c] = "SUCCEEDED"
        /\ invoice[i] = "FAILED" =>
                \E c \in PayCalls : requestId[i] = c /\ payment[c] = "FAILED"

(* The outbox tells the invoice's life exactly once and in order.          *)
Told == [NONE |-> <<>>,
         PENDING |-> <<"INVOICE_CREATED", "PAYMENT_REQUIRED">>,
         CANCELLED |-> <<"INVOICE_CREATED", "PAYMENT_REQUIRED",
                         "INVOICE_CANCELLED">>,
         PAID |-> <<"INVOICE_CREATED", "PAYMENT_REQUIRED", "INVOICE_PAID">>,
         FAILED |-> <<"INVOICE_CREATED", "PAYMENT_REQUIRED",
                      "INVOICE_FAILED", "SUBSCRIPTION_PAST_DUE">>]
OutboxTellsInvoice == \A i \in Invoices : billed[i] = Told[invoice[i]]

(* Once the id is stored, a captured payment ends with a paid invoice,     *)
(* although reports are lost, repeated and arrive before the id is stored. *)
CapturedIsPaid ==
    \A c \in PayCalls :
        payment[c] = "SUCCEEDED" /\ requestId[payFor[c]] = c
            ~> invoice[payFor[c]] = "PAID"

(* What must hold of invoices and their payment requests at any time,      *)
(* whatever answers are lost and whichever webhooks come twice or early.   *)
PaymentsAreSound ==
    PaymentTypeOK /\ OneRequestPerInvoice /\ SettledAsReported /\ OutboxTellsInvoice
=============================================================================
