-------------------------- MODULE Services_proofs ---------------------------
(***************************************************************************)
(* The services behind the business: the delivery of the outbox for every  *)
(* set of rows, any number of overlapping dispatchers, every batch limit   *)
(* and any number of faults; paying invoices through the provider, for any *)
(* number of invoices and calls; a feature flag under any number of        *)
(* changes and evaluations; and the list of any number of workers.         *)
(***************************************************************************)
EXTENDS OutboxDispatcher, PaymentRequests, FeatureFlags, WorkerRegistry,
        SequenceTheorems, TLAPS
-----------------------------------------------------------------------------
(***************************************************************************)
(* The outbox.                                                             *)
(***************************************************************************)

(* What a run has read or is handling was written, and it acknowledges     *)
(* only what was handled.                                                  *)
RunInv ==
    \A d \in Dispatchers :
        /\ phase[d] = "idle" <=> current[d] = NoEvent
        /\ \A e \in batch[d] : row[e] # "ABSENT"
        /\ current[d] \notin batch[d]
        /\ current[d] \in Events => row[current[d]] # "ABSENT"
        /\ phase[d] = "ack" => current[d] \in handled

(* A dispatcher that can still take a row, because it has read it or may   *)
(* read it again, has handed it over at most once per fault.               *)
TriesInv ==
    \A d \in Dispatchers, e \in Events :
        /\ tries[d][e] <= 1 + faults[d]
        /\ e \in batch[d] => tries[d][e] <= faults[d]
        /\ row[e] \notin Settled /\ current[d] # e => tries[d][e] <= faults[d]

OutboxInv == OutboxTypeOK /\ ProcessedWasHandled /\ RunInv /\ TriesInv

USE OutboxConstants DEF Settled
-----------------------------------------------------------------------------
(* Initially nothing is written and nothing was tried.                     *)
LEMMA OutboxInvInit == OutboxInit => OutboxInv
  BY DEF OutboxInit, OutboxInv, OutboxTypeOK, ProcessedWasHandled, RunInv,
     TriesInv

(* Every step preserves the invariant.                                     *)
LEMMA OutboxInvNext == OutboxInv /\ [OutboxNext]_outboxVars => OutboxInv'
  <1> SUFFICES ASSUME OutboxInv, [OutboxNext]_outboxVars PROVE OutboxInv'
    OBVIOUS
  <1> USE DEF OutboxInv, OutboxTypeOK
  <1>1. ASSUME NEW e \in Events, publish(e) PROVE OutboxInv'
    BY <1>1 DEF publish, ProcessedWasHandled, RunInv, TriesInv
  <1>2. ASSUME NEW d \in Dispatchers, Fetch(d) PROVE OutboxInv'
    <2>1. PICK b \in SUBSET Events :
            /\ \A e \in b : row[e] = "PENDING"
            /\ batch' = [batch EXCEPT ![d] = b]
      BY <1>2 DEF Fetch, Batches, Pending
    <2>2. UNCHANGED <<row, current, phase, tries, handled, faults>>
      BY <1>2 DEF Fetch
    <2>3. current[d] = NoEvent
      BY <1>2 DEF Fetch, RunInv
    <2> QED
      BY <2>1, <2>2, <2>3 DEF ProcessedWasHandled, RunInv, TriesInv
  <1>3. ASSUME NEW d \in Dispatchers, NEW e \in Events, Take(d, e)
        PROVE  OutboxInv'
    <2>1. OutboxTypeOK' /\ ProcessedWasHandled' /\ RunInv'
      BY <1>3 DEF Take, ProcessedWasHandled, RunInv
    <2>2. TriesInv'
      <3>1. tries[d][e] <= faults[d]
        BY <1>3 DEF Take, TriesInv
      <3>2. current[d] = NoEvent
        BY <1>3 DEF Take, RunInv
      <3> QED
        BY <1>3, <2>1, <3>1, <3>2 DEF Take, TriesInv
    <2> QED BY <2>1, <2>2
  <1>4. ASSUME NEW d \in Dispatchers, HandlersReturn(d) \/ HandlersThrow(d)
        PROVE  OutboxInv'
    BY <1>4 DEF HandlersReturn, HandlersThrow, ProcessedWasHandled, RunInv,
                TriesInv
  <1>5. ASSUME NEW d \in Dispatchers, MarkProcessed(d) \/ MarkFailed(d)
        PROVE  OutboxInv'
    <2>1. current[d] \in Events
      BY <1>5 DEF MarkProcessed, MarkFailed, RunInv
    <2>2. PICK m \in Settled :
            Mark(d, m) /\ (m = "PROCESSED" => current[d] \in handled)
      BY <1>5 DEF MarkProcessed, MarkFailed, RunInv
    <2>3. OutboxTypeOK' /\ ProcessedWasHandled'
      BY <2>1, <2>2 DEF Mark, ProcessedWasHandled
    <2>4. RunInv'
      BY <2>1, <2>2 DEF Mark, RunInv
    <2>5. TriesInv'
      BY <2>1, <2>2 DEF Mark, TriesInv
    <2> QED BY <2>3, <2>4, <2>5
  <1>6. ASSUME NEW d \in Dispatchers, MarkProcessedThrows(d)
        PROVE  OutboxInv'
    BY <1>6 DEF MarkProcessedThrows, Faulty, ProcessedWasHandled, RunInv,
                TriesInv
  <1>7. ASSUME NEW d \in Dispatchers, Abort(d) PROVE OutboxInv'
    <2>1. OutboxTypeOK' /\ ProcessedWasHandled' /\ RunInv'
      BY <1>7 DEF Abort, Faulty, ProcessedWasHandled, RunInv
    <2>2. TriesInv'
      BY <1>7 DEF Abort, Faulty, TriesInv
    <2> QED BY <2>1, <2>2
  <1>8. CASE UNCHANGED outboxVars
    BY <1>8 DEF outboxVars, ProcessedWasHandled, RunInv, TriesInv
  <1> QED
    BY <1>1, <1>2, <1>3, <1>4, <1>5, <1>6, <1>7, <1>8 DEF OutboxNext, Run

(* The invariant holds in every reachable state.                           *)
THEOREM OutboxInvariant == OutboxSpec => []OutboxInv
  BY OutboxInvInit, OutboxInvNext, PTL DEF OutboxSpec

(***************************************************************************)
(* No row is marked PROCESSED before its subscribers have all returned,    *)
(* and one dispatcher hands a row to the bus at most once more than it had *)
(* faults, whatever the other dispatchers do with the same row.            *)
(***************************************************************************)
THEOREM DeliverySound == OutboxSpec => []DeliveryIsSound
  <1>1. OutboxInv => DeliveryIsSound
    BY DEF OutboxInv, TriesInv, RedeliveryNeedsFault, DeliveryIsSound
  <1> QED BY <1>1, OutboxInvariant, PTL

(***************************************************************************)
(* A row that was marked is never pending again.                           *)
(***************************************************************************)
THEOREM SettledStaysSettled == OutboxSpec => SettledForGood
  <1>1. OutboxInv /\ [OutboxNext]_outboxVars =>
          [\A e \in Events : row[e] \in Settled => row'[e] \in Settled]_outboxVars
    <2> SUFFICES ASSUME OutboxInv, OutboxNext, NEW e \in Events, row[e] \in Settled
                 PROVE  row'[e] \in Settled
      OBVIOUS
    <2> QED
      BY DEF OutboxInv, OutboxTypeOK, OutboxNext, Run, publish, Fetch, Take,
             HandlersReturn, HandlersThrow, MarkProcessed, MarkFailed, Mark,
             MarkProcessedThrows, Abort
  <1> QED BY <1>1, OutboxInvariant, PTL DEF OutboxSpec, SettledForGood
HIDE OutboxConstants DEF Settled
-----------------------------------------------------------------------------
(***************************************************************************)
(* Payments: the customer is not charged twice, an invoice is settled as   *)
(* the provider reported, and every step is one InvoiceLifecycle allows.   *)
(***************************************************************************)

(* A call that holds the claim on the invoice's attempt, or whose charge   *)
(* has created a payment request.                                          *)
Holds(c) ==
    \/ payStep[c] \in {"charge", "correlate", "rejected", "unknown", "retain"}
    \/ payment[c] # "NONE"

(* An attempt that may be claimed is nobody's, and one call at most holds  *)
(* the claim.                                                              *)
ClaimInv ==
    /\ \A c \in PayCalls :
         Holds(c) => attempt[payFor[c]] \notin {"NONE", "REJECTED"}
    /\ \A c, d \in PayCalls :
         Holds(c) /\ Holds(d) /\ payFor[c] = payFor[d] => c = d

(* A call asks the provider once, and one that was refused has no request. *)
ChargedInv ==
    \A c \in PayCalls :
        payment[c] # "NONE" =>
            payStep[c] \in {"correlate", "unknown", "retain", "returned",
                            "error", "died"}

PaymentInv ==
    /\ PaymentTypeOK /\ ClaimInv /\ ChargedInv
    /\ SettledAsReported /\ OutboxTellsInvoice

USE PaymentConstants DEF AttemptState, PayStep, Paying, InvoiceStatus,
    SubscriptionStatus, Report
-----------------------------------------------------------------------------
(* No invoice is issued and no call has begun.                             *)
LEMMA PaymentInvInit == PaymentInit => PaymentInv
  <1> SUFFICES ASSUME PaymentInit PROVE PaymentInv
    OBVIOUS
  <1>1. PaymentTypeOK
    BY DEF PaymentInit, LifecycleInit, PaymentTypeOK
  <1>2. ClaimInv /\ ChargedInv /\ SettledAsReported
    BY DEF PaymentInit, LifecycleInit, ClaimInv, ChargedInv, Holds,
           SettledAsReported
  <1>3. OutboxTellsInvoice
    BY DEF PaymentInit, LifecycleInit, OutboxTellsInvoice, Told
  <1> QED BY <1>1, <1>2, <1>3 DEF PaymentInv

(* A step of call c that only moves it on, and gives it no claim.          *)
LEMMA OnlyMoves ==
    ASSUME PaymentInv, NEW c \in PayCalls, NEW s \in PayStep, PayGoto(c, s),
           s \notin {"charge", "correlate", "rejected", "unknown", "retain"},
           payment[c] # "NONE" => s \in {"returned", "error", "died"},
           UNCHANGED <<lifecycleVars, attemptVars, payFor, cancelStep,
                       payment, webhookReceipts, billed>>
    PROVE  PaymentInv'
  <1> USE DEF PaymentInv, lifecycleVars, attemptVars, PayGoto
  <1>1. PaymentTypeOK'
    BY DEF PaymentTypeOK
  <1>2. ClaimInv' /\ ChargedInv'
    BY DEF PaymentTypeOK, ClaimInv, ChargedInv, Holds
  <1>3. SettledAsReported' /\ OutboxTellsInvoice'
    BY DEF SettledAsReported, OutboxTellsInvoice
  <1> QED BY <1>1, <1>2, <1>3

(* Appending to two events, element by element.                            *)
LEMMA ThreeEvents ==
    ASSUME NEW x, NEW y, NEW z
    PROVE  <<x, y>> \o <<z>> = <<x, y, z>>
  <1> DEFINE S == {x, y, z}
             c == <<x, y>> \o <<z>>
  <1>1. <<x, y>> \in Seq(S) /\ <<z>> \in Seq(S) /\ <<x, y, z>> \in Seq(S)
    OBVIOUS
  <1>2. Len(<<x, y>>) = 2 /\ Len(<<z>>) = 1 /\ Len(<<x, y, z>>) = 3
    OBVIOUS
  <1> HIDE DEF S
  <1>3. c \in Seq(S) /\ Len(c) = 3
    BY <1>1, <1>2, ConcatProperties
  <1>4. c[1] = x /\ c[2] = y
    BY <1>1, <1>2, ConcatProperties
  <1>5. c[3] = z
    BY <1>1, <1>2, ConcatProperties
  <1>6. \A i \in 1..3 : c[i] = <<x, y, z>>[i]
    BY <1>4, <1>5
  <1> HIDE DEF c
  <1>7. c = <<x, y, z>>
    BY <1>1, <1>2, <1>3, <1>6, SeqEqual
  <1> QED BY <1>7 DEF c

LEMMA FourEvents ==
    ASSUME NEW x, NEW y, NEW z, NEW w
    PROVE  <<x, y>> \o <<z, w>> = <<x, y, z, w>>
  <1> DEFINE S == {x, y, z, w}
             c == <<x, y>> \o <<z, w>>
  <1>1. /\ <<x, y>> \in Seq(S) /\ <<z, w>> \in Seq(S)
        /\ <<x, y, z, w>> \in Seq(S)
    OBVIOUS
  <1>2. Len(<<x, y>>) = 2 /\ Len(<<z, w>>) = 2 /\ Len(<<x, y, z, w>>) = 4
    OBVIOUS
  <1> HIDE DEF S
  <1>3. c \in Seq(S) /\ Len(c) = 4
    BY <1>1, <1>2, ConcatProperties
  <1>4. c[1] = x /\ c[2] = y
    BY <1>1, <1>2, ConcatProperties
  <1>5. c[3] = z /\ c[4] = w
    BY <1>1, <1>2, ConcatProperties
  <1>6. \A i \in 1..4 : c[i] = <<x, y, z, w>>[i]
    BY <1>4, <1>5
  <1> HIDE DEF c
  <1>7. c = <<x, y, z, w>>
    BY <1>1, <1>2, <1>3, <1>6, SeqEqual
  <1> QED BY <1>7 DEF c

(* What one step of an invoice appends to its events.                      *)
LEMMA ToldNext ==
    /\ Told["NONE"] \o <<"INVOICE_CREATED", "PAYMENT_REQUIRED">>
         = Told["PENDING"]
    /\ Told["PENDING"] \o <<"INVOICE_CANCELLED">> = Told["CANCELLED"]
    /\ \A f \in {"PAID", "FAILED"} :
         Told["PENDING"] \o SettledEvents[f] = Told[f]
    /\ \A s \in InvoiceStatus : Told[s] \in Seq(BilledType)
  <1>1. Told["NONE"] = <<>> /\ Told["PENDING"] =
            <<"INVOICE_CREATED", "PAYMENT_REQUIRED">>
    BY DEF Told
  <1>2. Told["CANCELLED"] = <<"INVOICE_CREATED", "PAYMENT_REQUIRED",
                              "INVOICE_CANCELLED">>
    BY DEF Told
  <1>3. Told["PAID"] = <<"INVOICE_CREATED", "PAYMENT_REQUIRED",
                         "INVOICE_PAID">>
    BY DEF Told
  <1>4. Told["FAILED"] = <<"INVOICE_CREATED", "PAYMENT_REQUIRED",
                           "INVOICE_FAILED", "SUBSCRIPTION_PAST_DUE">>
    BY DEF Told
  <1>5. /\ SettledEvents["PAID"] = <<"INVOICE_PAID">>
        /\ SettledEvents["FAILED"] =
             <<"INVOICE_FAILED", "SUBSCRIPTION_PAST_DUE">>
    BY DEF SettledEvents
  <1>6. \A x, y : <<>> \o <<x, y>> = <<x, y>>
    OBVIOUS
  <1>9. Told["NONE"] \in Seq(BilledType) /\ Told["PENDING"] \in Seq(BilledType)
    BY <1>1 DEF BilledType
  <1>10. Told["CANCELLED"] \in Seq(BilledType)
    BY <1>2 DEF BilledType
  <1>11. Told["PAID"] \in Seq(BilledType)
    BY <1>3 DEF BilledType
  <1>12. Told["FAILED"] \in Seq(BilledType)
    BY <1>4 DEF BilledType
  <1>13. Told["NONE"] \o <<"INVOICE_CREATED", "PAYMENT_REQUIRED">>
           = Told["PENDING"]
    BY <1>1, <1>6, Zenon
  <1>14. Told["PENDING"] \o <<"INVOICE_CANCELLED">> = Told["CANCELLED"]
    BY <1>1, <1>2, ThreeEvents, Zenon
  <1>15. Told["PENDING"] \o SettledEvents["PAID"] = Told["PAID"]
    BY <1>1, <1>3, <1>5, ThreeEvents, Zenon
  <1>16. Told["PENDING"] \o SettledEvents["FAILED"] = Told["FAILED"]
    BY <1>1, <1>4, <1>5, FourEvents, Zenon
  <1> QED
    BY <1>9, <1>10, <1>11, <1>12, <1>13, <1>14, <1>15, <1>16

(* A step of invoice i that appends to its events what tells its status.   *)
LEMMA Billing ==
    ASSUME PaymentInv, NEW i \in Invoices, NEW s \in InvoiceStatus,
           NEW events, Bill(i, events),
           Told[invoice[i]] \o events = Told[s],
           invoice' = [invoice EXCEPT ![i] = s],
           standing' \in SubscriptionStatus,
           s = "PAID" => \E c \in PayCalls :
               requestId[i] = c /\ payment[c] = "SUCCEEDED",
           s = "FAILED" => \E c \in PayCalls :
               requestId[i] = c /\ payment[c] = "FAILED",
           cancelStep' \in [Invoices -> {"idle", "filtered"}],
           webhookReceipts' \subseteq PayCalls \X Report,
           UNCHANGED <<attemptVars, payStep, payFor, payment>>
    PROVE  PaymentInv'
  <1> USE DEF PaymentInv, attemptVars
  <1>1. OutboxTellsInvoice'
    BY DEF OutboxTellsInvoice, Bill, PaymentTypeOK
  <1>2. \A j \in Invoices : billed'[j] \in Seq(BilledType)
    <2>1. \A j \in Invoices : invoice'[j] \in InvoiceStatus
      BY DEF PaymentTypeOK
    <2> QED BY <1>1, <2>1, ToldNext DEF OutboxTellsInvoice
  <1>3. PaymentTypeOK'
    BY <1>2 DEF PaymentTypeOK, Bill
  <1>4. ClaimInv' /\ ChargedInv'
    BY DEF ClaimInv, ChargedInv, Holds
  <1>5. SettledAsReported'
    BY DEF SettledAsReported, PaymentTypeOK
  <1> QED BY <1>1, <1>3, <1>4, <1>5

(* The claim: nobody held the attempt.                                     *)
LEMMA ClaimStep ==
    ASSUME PaymentInv, NEW c \in PayCalls, claimXenditPaymentRequest(c)
    PROVE  PaymentInv'
  <1> DEFINE i == payFor[c]
  <1>1. payment[c] = "NONE" /\ i \in Invoices
    BY DEF claimXenditPaymentRequest, PaymentInv, ChargedInv, PaymentTypeOK
  <1>2. CASE PayGoto(c, "reread") /\ UNCHANGED attempt
    BY <1>1, <1>2, OnlyMoves DEF claimXenditPaymentRequest, attemptVars
  <1>3. CASE /\ attempt[i] \in {"NONE", "REJECTED"}
             /\ attempt' = [attempt EXCEPT ![i] = "IN_PROGRESS"]
             /\ PayGoto(c, "charge")
    <2> USE DEF PaymentInv, PayGoto
    <2>1. UNCHANGED <<invoice, standing, requestId, attemptId, payFor,
                      cancelStep, payment, webhookReceipts, billed>>
      BY DEF claimXenditPaymentRequest, lifecycleVars
    <2>2. PaymentTypeOK'
      BY <1>1, <1>3, <2>1 DEF PaymentTypeOK
    <2>3. \A d \in PayCalls : payFor[d] = i => ~Holds(d)
      BY <1>3 DEF ClaimInv
    <2>4. \A d \in PayCalls \ {c} : Holds(d)' <=> Holds(d)
      BY <1>3, <2>1 DEF Holds, PaymentTypeOK
    <2>5. ClaimInv'
      BY <1>1, <1>3, <2>1, <2>3, <2>4 DEF ClaimInv, PaymentTypeOK
    <2>6. ChargedInv'
      BY <1>1, <1>3, <2>1 DEF ChargedInv, PaymentTypeOK
    <2>7. SettledAsReported' /\ OutboxTellsInvoice'
      BY <2>1 DEF SettledAsReported, OutboxTellsInvoice
    <2> QED BY <2>2, <2>5, <2>6, <2>7
  <1> QED BY <1>2, <1>3 DEF claimXenditPaymentRequest

(* The charge: the call that asks holds the claim.                         *)
LEMMA ChargeStep ==
    ASSUME PaymentInv, NEW c \in PayCalls, charge(c)
    PROVE  PaymentInv'
  <1> USE DEF PaymentInv, PayGoto
  <1>1. /\ payStep[c] = "charge" /\ payment[c] = "NONE"
        /\ UNCHANGED <<invoice, standing, requestId, attempt, attemptId,
                       payFor, cancelStep, webhookReceipts, billed>>
    BY DEF charge, lifecycleVars, attemptVars, ChargedInv
  <1>2. PICK s \in {"correlate", "unknown", "rejected"} :
          /\ payStep' = [payStep EXCEPT ![c] = s]
          /\ \/ payment' = [payment EXCEPT ![c] = "OPEN"] /\ s # "rejected"
             \/ payment' = payment
    BY DEF charge
  <1>3. PaymentTypeOK'
    BY <1>1, <1>2 DEF PaymentTypeOK
  <1>4. \A d \in PayCalls : Holds(d)' <=> Holds(d)
    BY <1>1, <1>2 DEF Holds, PaymentTypeOK
  <1>5. ClaimInv'
    BY <1>1, <1>4 DEF ClaimInv
  <1>6. ChargedInv'
    BY <1>1, <1>2 DEF ChargedInv, PaymentTypeOK
  <1>7. SettledAsReported' /\ OutboxTellsInvoice'
    BY <1>1, <1>2 DEF SettledAsReported, OutboxTellsInvoice, PaymentTypeOK
  <1> QED BY <1>3, <1>5, <1>6, <1>7

(* The id of a request is stored with its invoice, once.                   *)
LEMMA CompleteStep ==
    ASSUME PaymentInv, NEW c \in PayCalls, NEW r \in PayCalls \cup {NoRequest},
           Complete(payFor[c], r), PayGoto(c, "returned"),
           UNCHANGED <<lifecycleVars, payFor, cancelStep, payment,
                       webhookReceipts, billed>>
    PROVE  PaymentInv'
  <1> USE DEF PaymentInv, PayGoto, lifecycleVars, Complete, Completable
  <1>1. payFor[c] \in Invoices
    BY DEF PaymentTypeOK
  <1>2. PaymentTypeOK'
    BY <1>1 DEF PaymentTypeOK
  <1>3. \A d \in PayCalls : Holds(d)' => Holds(d)
    BY DEF Holds, PaymentTypeOK
  <1>4. ClaimInv'
    BY <1>1, <1>3 DEF ClaimInv, PaymentTypeOK
  <1>5. ChargedInv'
    BY DEF ChargedInv, PaymentTypeOK
  <1>6. SettledAsReported' /\ OutboxTellsInvoice'
    BY <1>1 DEF SettledAsReported, OutboxTellsInvoice, PaymentTypeOK
  <1> QED BY <1>2, <1>4, <1>5, <1>6

(* The outcome is recorded: a refused call has no request and lets go.     *)
LEMMA RecordStep ==
    ASSUME PaymentInv, NEW c \in PayCalls, recordPaymentRequestOutcome(c)
    PROVE  PaymentInv'
  <1> USE DEF PaymentInv, PayGoto
  <1> DEFINE i == payFor[c]
  <1>1. /\ i \in Invoices /\ Holds(c)
        /\ payStep[c] \in {"rejected", "unknown", "retain"}
        /\ payStep' = [payStep EXCEPT ![c] = "error"]
        /\ UNCHANGED <<invoice, standing, requestId, payFor, cancelStep,
                       payment, webhookReceipts, billed>>
    BY DEF recordPaymentRequestOutcome, lifecycleVars, PaymentTypeOK, Holds
  <1>2. \/ UNCHANGED <<attempt, attemptId>>
        \/ /\ attempt' = [attempt EXCEPT ![i] =
                 IF payStep[c] = "rejected" THEN "REJECTED" ELSE "UNKNOWN"]
           /\ attemptId' \in {attemptId, [attemptId EXCEPT ![i] = c]}
    BY DEF recordPaymentRequestOutcome
  <1>3. PaymentTypeOK'
    BY <1>1, <1>2 DEF PaymentTypeOK
  <1>4. \A d \in PayCalls : Holds(d)' => Holds(d)
    BY <1>1 DEF Holds, PaymentTypeOK
  <1>5. payStep[c] = "rejected" => \A d \in PayCalls : payFor[d] = i => ~Holds(d)'
    <2>1. payStep[c] = "rejected" => payment[c] = "NONE" /\ ~Holds(c)'
      BY <1>1 DEF ChargedInv, Holds, PaymentTypeOK
    <2> QED BY <1>1, <1>4, <2>1 DEF ClaimInv
  <1>6. ClaimInv'
    BY <1>1, <1>2, <1>4, <1>5 DEF ClaimInv, PaymentTypeOK
  <1>7. ChargedInv'
    BY <1>1 DEF ChargedInv, PaymentTypeOK
  <1>8. SettledAsReported' /\ OutboxTellsInvoice'
    BY <1>1 DEF SettledAsReported, OutboxTellsInvoice
  <1> QED BY <1>3, <1>6, <1>7, <1>8

(* A webhook settles the invoice whose request it reports on.              *)
LEMMA WebhookStep ==
    ASSUME PaymentInv, NEW c \in PayCalls, webhook(c)
    PROVE  PaymentInv'
  <1> DEFINE i == payFor[c]
  <1>1. PICK report \in Reports(c) : processXenditWebhookEvent(c, report)
    BY DEF webhook
  <1>2. /\ i \in Invoices /\ report \in Report
        /\ report # "AUTHORIZED" => report = payment[c]
    BY DEF Reports, PaymentInv, PaymentTypeOK
  <1>3. /\ requestId[i] = c
        /\ webhookReceipts' = webhookReceipts \cup {<<c, report>>}
        /\ UNCHANGED <<attemptVars, payStep, payFor, cancelStep, payment>>
    BY <1>1 DEF processXenditWebhookEvent
  <1>4. webhookReceipts' \subseteq PayCalls \X Report
    BY <1>2, <1>3 DEF PaymentInv, PaymentTypeOK
  <1>5. CASE UNCHANGED <<lifecycleVars, billed>>
    <2> USE DEF PaymentInv, lifecycleVars, attemptVars
    <2>1. PaymentTypeOK'
      BY <1>3, <1>4, <1>5 DEF PaymentTypeOK
    <2>2. ClaimInv' /\ ChargedInv'
      BY <1>3, <1>5 DEF ClaimInv, ChargedInv, Holds
    <2>3. SettledAsReported' /\ OutboxTellsInvoice'
      BY <1>3, <1>5 DEF SettledAsReported, OutboxTellsInvoice
    <2> QED BY <2>1, <2>2, <2>3
  <1>6. CASE /\ report # "AUTHORIZED" /\ invoice[i] = "PENDING"
             /\ Settle(i, FinalStatus[report])
             /\ Bill(i, SettledEvents[FinalStatus[report]])
    <2>1. /\ report \in {"SUCCEEDED", "FAILED"} /\ payment[c] = report
          /\ FinalStatus[report] \in {"PAID", "FAILED"}
          /\ FinalStatus[report] = "PAID" <=> report = "SUCCEEDED"
      BY <1>2, <1>6 DEF FinalStatus
    <2>2. standing' \in SubscriptionStatus
      BY <1>6, <2>1 DEF Settle, StandingAfter
    <2>3. cancelStep' \in [Invoices -> {"idle", "filtered"}]
      BY <1>3 DEF PaymentInv, PaymentTypeOK
    <2>4. /\ invoice' = [invoice EXCEPT ![i] = FinalStatus[report]]
          /\ Told[invoice[i]] \o SettledEvents[FinalStatus[report]]
               = Told[FinalStatus[report]]
          /\ FinalStatus[report] \in InvoiceStatus
      BY <1>6, <2>1, ToldNext DEF Settle
    <2>5. /\ FinalStatus[report] = "PAID" => \E d \in PayCalls :
               requestId[i] = d /\ payment[d] = "SUCCEEDED"
          /\ FinalStatus[report] = "FAILED" => \E d \in PayCalls :
               requestId[i] = d /\ payment[d] = "FAILED"
      BY <1>3, <2>1
    <2> QED
      BY <1>2, <1>3, <1>4, <1>6, <2>2, <2>3, <2>4, <2>5, Billing
  <1> QED BY <1>1, <1>5, <1>6 DEF processXenditWebhookEvent

(* Every step preserves the invariant.                                     *)
LEMMA PaymentInvNext == PaymentInv /\ [PaymentNext]_paymentVars => PaymentInv'
  <1> SUFFICES ASSUME PaymentInv, [PaymentNext]_paymentVars PROVE PaymentInv'
    OBVIOUS
  <1>1. ASSUME NEW i \in Invoices, createInvoiceForPeriod(i)
        PROVE  PaymentInv'
    <2>1. /\ invoice[i] = "NONE" /\ standing' = standing
          /\ invoice' = [invoice EXCEPT ![i] = "PENDING"]
          /\ Bill(i, <<"INVOICE_CREATED", "PAYMENT_REQUIRED">>)
          /\ UNCHANGED <<attemptVars, payStep, payFor, cancelStep, payment,
                         webhookReceipts>>
      BY <1>1 DEF createInvoiceForPeriod, Issue
    <2>2. /\ standing' \in SubscriptionStatus
          /\ cancelStep' \in [Invoices -> {"idle", "filtered"}]
          /\ webhookReceipts' \subseteq PayCalls \X Report
      BY <2>1 DEF PaymentInv, PaymentTypeOK
    <2> QED BY <2>1, <2>2, Billing, ToldNext
  <1>2. ASSUME NEW i \in Invoices, cancelFilter(i) PROVE PaymentInv'
    <2> USE DEF PaymentInv, cancelFilter, lifecycleVars, attemptVars
    <2>1. PaymentTypeOK'
      BY <1>2 DEF PaymentTypeOK
    <2>2. ClaimInv' /\ ChargedInv'
      BY <1>2 DEF ClaimInv, ChargedInv, Holds
    <2>3. SettledAsReported' /\ OutboxTellsInvoice'
      BY <1>2 DEF SettledAsReported, OutboxTellsInvoice
    <2> QED BY <2>1, <2>2, <2>3
  <1>3. ASSUME NEW i \in Invoices, cancelPendingInvoice(i) PROVE PaymentInv'
    <2>1. /\ cancelStep' \in [Invoices -> {"idle", "filtered"}]
          /\ UNCHANGED <<attemptVars, payStep, payFor, payment,
                         webhookReceipts>>
      BY <1>3 DEF cancelPendingInvoice, PaymentInv, PaymentTypeOK
    <2>2. CASE Cancel(i) /\ Bill(i, <<"INVOICE_CANCELLED">>)
      <3>1. /\ invoice[i] = "PENDING" /\ standing' = standing
            /\ invoice' = [invoice EXCEPT ![i] = "CANCELLED"]
        BY <2>2 DEF Cancel
      <3>2. /\ standing' \in SubscriptionStatus
            /\ webhookReceipts' \subseteq PayCalls \X Report
        BY <2>1, <3>1 DEF PaymentInv, PaymentTypeOK
      <3> QED BY <2>1, <2>2, <3>1, <3>2, Billing, ToldNext
    <2>3. CASE UNCHANGED <<lifecycleVars, billed>>
      <3> USE DEF PaymentInv, lifecycleVars, attemptVars
      <3>1. PaymentTypeOK'
        BY <2>1, <2>3 DEF PaymentTypeOK
      <3>2. ClaimInv' /\ ChargedInv'
        BY <2>1, <2>3 DEF ClaimInv, ChargedInv, Holds
      <3>3. SettledAsReported' /\ OutboxTellsInvoice'
        BY <2>1, <2>3 DEF SettledAsReported, OutboxTellsInvoice
      <3> QED BY <3>1, <3>2, <3>3
    <2> QED BY <1>3, <2>2, <2>3 DEF cancelPendingInvoice
  <1>4. ASSUME NEW c \in PayCalls,
               readInvoice(c) \/ readAttempt(c) \/ rereadInvoice(c)
                 \/ rereadAttempt(c)
        PROVE  PaymentInv'
    <2>1. payment[c] = "NONE"
      BY <1>4 DEF readInvoice, readAttempt, rereadInvoice, rereadAttempt,
                  PaymentInv, ChargedInv
    <2> QED
      BY <1>4, <2>1, OnlyMoves
      DEF readInvoice, readAttempt, rereadInvoice, rereadAttempt
  <1>5. ASSUME NEW c \in PayCalls, PayDies(c) PROVE PaymentInv'
    BY <1>5, OnlyMoves DEF PayDies
  <1>6. ASSUME NEW c \in PayCalls, completeXenditPaymentRequest(c)
        PROVE  PaymentInv'
    <2>1. CASE Complete(payFor[c], c) /\ PayGoto(c, "returned")
      BY <1>6, <2>1, CompleteStep DEF completeXenditPaymentRequest
    <2>2. CASE PayGoto(c, "retain") /\ UNCHANGED attemptVars
      <3> USE DEF PaymentInv, PayGoto, lifecycleVars, attemptVars
      <3>1. /\ payStep[c] = "correlate"
            /\ UNCHANGED <<invoice, standing, requestId, attempt, attemptId,
                           payFor, cancelStep, payment, webhookReceipts,
                           billed>>
        BY <1>6, <2>2 DEF completeXenditPaymentRequest
      <3>2. PaymentTypeOK'
        BY <2>2, <3>1 DEF PaymentTypeOK
      <3>3. \A d \in PayCalls : Holds(d)' <=> Holds(d)
        BY <2>2, <3>1 DEF Holds, PaymentTypeOK
      <3>4. ClaimInv' /\ ChargedInv'
        BY <2>2, <3>1, <3>3 DEF ClaimInv, ChargedInv, PaymentTypeOK
      <3>5. SettledAsReported' /\ OutboxTellsInvoice'
        BY <3>1 DEF SettledAsReported, OutboxTellsInvoice
      <3> QED BY <3>2, <3>4, <3>5
    <2> QED BY <1>6, <2>1, <2>2 DEF completeXenditPaymentRequest
  <1>7. ASSUME NEW c \in PayCalls, recoverXenditPaymentRequest(c)
        PROVE  PaymentInv'
    <2>1. attemptId[payFor[c]] \in PayCalls \cup {NoRequest}
      BY DEF PaymentInv, PaymentTypeOK
    <2>2. payment[c] = "NONE"
      BY <1>7 DEF recoverXenditPaymentRequest, PaymentInv, ChargedInv
    <2>3. CASE /\ Complete(payFor[c], attemptId[payFor[c]])
               /\ PayGoto(c, "returned")
      BY <1>7, <2>1, <2>3, CompleteStep DEF recoverXenditPaymentRequest
    <2>4. CASE PayGoto(c, "error") /\ UNCHANGED attemptVars
      BY <1>7, <2>2, <2>4, OnlyMoves DEF recoverXenditPaymentRequest
    <2> QED BY <1>7, <2>3, <2>4 DEF recoverXenditPaymentRequest
  <1>8. ASSUME NEW c \in PayCalls, ProviderSettles(c) PROVE PaymentInv'
    <2> USE DEF PaymentInv, lifecycleVars, attemptVars
    <2>1. PICK end \in {"SUCCEEDED", "FAILED"} :
            payment' = [payment EXCEPT ![c] = end]
      BY <1>8 DEF ProviderSettles
    <2>2. /\ payment[c] = "OPEN"
          /\ UNCHANGED <<invoice, standing, requestId, attempt, attemptId,
                         payStep, payFor, cancelStep, webhookReceipts, billed>>
      BY <1>8 DEF ProviderSettles
    <2>3. PaymentTypeOK'
      BY <2>1, <2>2 DEF PaymentTypeOK
    <2>4. \A d \in PayCalls : Holds(d)' <=> Holds(d)
      BY <2>1, <2>2 DEF Holds, PaymentTypeOK
    <2>5. ClaimInv' /\ ChargedInv'
      BY <2>1, <2>2, <2>4 DEF ClaimInv, ChargedInv, PaymentTypeOK
    <2>6. SettledAsReported' /\ OutboxTellsInvoice'
      BY <2>1, <2>2 DEF SettledAsReported, OutboxTellsInvoice, PaymentTypeOK
    <2> QED BY <2>3, <2>5, <2>6
  <1>9. CASE UNCHANGED paymentVars
    <2> USE <1>9 DEF PaymentInv, paymentVars, lifecycleVars, attemptVars
    <2>1. PaymentTypeOK'
      BY DEF PaymentTypeOK
    <2>2. ClaimInv' /\ ChargedInv'
      BY DEF ClaimInv, ChargedInv, Holds
    <2>3. SettledAsReported' /\ OutboxTellsInvoice'
      BY DEF SettledAsReported, OutboxTellsInvoice
    <2> QED BY <2>1, <2>2, <2>3
  <1> QED
    BY <1>1, <1>2, <1>3, <1>4, <1>5, <1>6, <1>7, <1>8, <1>9, ClaimStep,
       ChargeStep, RecordStep, WebhookStep
    DEF PaymentNext, PayCallStep

(* The invariant holds in every reachable state.                           *)
THEOREM PaymentInvariant == PaymentSpec => []PaymentInv
  BY PaymentInvInit, PaymentInvNext, PTL DEF PaymentSpec

(***************************************************************************)
(* For any number of invoices and of calls, whatever answers are lost and  *)
(* whichever webhooks come twice or early: one payment request per invoice *)
(* at the provider, an invoice PAID or FAILED as its payment is, and its   *)
(* events told once and in order.                                          *)
(***************************************************************************)
THEOREM PaymentsSound == PaymentSpec => []PaymentsAreSound
  <1>1. PaymentInv => PaymentsAreSound
    <2> SUFFICES ASSUME PaymentInv PROVE PaymentsAreSound
      OBVIOUS
    <2>1. OneRequestPerInvoice
      BY DEF PaymentInv, ClaimInv, Holds, OneRequestPerInvoice
    <2> QED BY <2>1 DEF PaymentInv, PaymentsAreSound
  <1> QED BY <1>1, PaymentInvariant, PTL

(***************************************************************************)
(* PaymentRequests implements InvoiceLifecycle: for any number of invoices *)
(* and calls every step issues, cancels or settles one open invoice, with  *)
(* the subscription, or leaves both alone.                                 *)
(***************************************************************************)
THEOREM ImplementsInvoiceLifecycle == PaymentSpec => LifecycleSpec
  <1>1. PaymentInit => LifecycleInit
    BY DEF PaymentInit
  <1>2. PaymentInv /\ [PaymentNext]_paymentVars =>
          [LifecycleNext]_lifecycleVars
    <2> SUFFICES ASSUME PaymentInv, PaymentNext
                 PROVE  LifecycleNext \/ UNCHANGED lifecycleVars
      BY DEF paymentVars
    <2>1. ASSUME NEW i \in Invoices,
                 createInvoiceForPeriod(i) \/ cancelFilter(i)
                   \/ cancelPendingInvoice(i)
          PROVE  LifecycleNext \/ UNCHANGED lifecycleVars
      BY <2>1 DEF createInvoiceForPeriod, cancelFilter, cancelPendingInvoice,
                  LifecycleNext
    <2>2. ASSUME NEW c \in PayCalls, PayCallStep(c) \/ ProviderSettles(c)
          PROVE  UNCHANGED lifecycleVars
      BY <2>2 DEF PayCallStep, ProviderSettles, readInvoice, readAttempt,
         claimXenditPaymentRequest, rereadInvoice, rereadAttempt, charge,
         completeXenditPaymentRequest, recoverXenditPaymentRequest,
         recordPaymentRequestOutcome, PayDies
    <2>3. ASSUME NEW c \in PayCalls, webhook(c)
          PROVE  LifecycleNext \/ UNCHANGED lifecycleVars
      <3>1. PICK report \in Reports(c) : processXenditWebhookEvent(c, report)
        BY <2>3 DEF webhook
      <3>2. payFor[c] \in Invoices /\ report \in {"AUTHORIZED", "SUCCEEDED", "FAILED"}
        BY DEF Reports, PaymentInv, PaymentTypeOK
      <3>3. CASE UNCHANGED <<lifecycleVars, billed>>
        BY <3>3
      <3>4. CASE report # "AUTHORIZED" /\ Settle(payFor[c], FinalStatus[report])
        <4>1. FinalStatus[report] \in {"PAID", "FAILED"}
          BY <3>2, <3>4 DEF FinalStatus
        <4> QED BY <3>2, <3>4, <4>1 DEF LifecycleNext
      <3> QED
        BY <3>1, <3>3, <3>4 DEF processXenditWebhookEvent
    <2> QED BY <2>1, <2>2, <2>3 DEF PaymentNext
  <1> QED
    BY <1>1, <1>2, PaymentInvariant, PTL DEF PaymentSpec, LifecycleSpec
HIDE PaymentConstants DEF AttemptState, PayStep, Paying, InvoiceStatus,
    SubscriptionStatus, Report
-----------------------------------------------------------------------------
(***************************************************************************)
(* Feature flags.                                                          *)
(***************************************************************************)

(* What a call or an evaluation has read still holds, unless the row was   *)
(* saved since.                                                            *)
LoadedStands(c) ==
    flagStep[c] = "loaded" =>
        /\ flagCopy[c].id # NoFlag
        /\ flagOp[c] \in {"restore", "create"} \/ c \in outdated \/ InUse(flag)
EvaluatedStands(e) ==
    evaluating[e] # "idle" => evaluating[e] = Truth \/ e \in outdated

FlagInv ==
    /\ FlagTypeOK
    /\ CacheIsFresh
    /\ \A c \in FlagCalls : LoadedStands(c)
    /\ \A e \in Evaluators : EvaluatedStands(e)

USE FlagConstants DEF FlagSteps, FlagOps

LEMMA FlagInvInit == FlagInit => FlagInv
  <1> SUFFICES ASSUME FlagInit PROVE FlagInv
    OBVIOUS
  <1>1. FlagTypeOK
    <2>1. /\ Missing \in FlagRow
          /\ [id |-> FirstFlag, enabled |-> TRUE, archived |-> FALSE] \in FlagRow
      BY DEF FlagRow, Missing
    <2>2. flag \in FlagRow /\ (flag.id = NoFlag => flag = Missing)
      <3>1. CASE flag = Missing
        BY <2>1, <3>1
      <3>2. CASE flag = [id |-> FirstFlag, enabled |-> TRUE,
                         archived |-> FALSE]
        BY <2>1, <3>2
      <3> QED
        BY <3>1, <3>2 DEF FlagInit
    <2>3. flagCopy \in [FlagCalls -> FlagRow]
      BY <2>1 DEF FlagInit
    <2>4. flagFaults \in 0..MaxFlagFaults
      BY DEF FlagInit
    <2> QED
      BY <2>2, <2>3, <2>4 DEF FlagInit, FlagTypeOK
  <1> QED
    BY <1>1 DEF FlagInit, FlagInv, CacheIsFresh, LoadedStands, EvaluatedStands

(* Types: every write is of a row.                                         *)
LEMMA FlagTypes ==
  ASSUME FlagInv, FlagNext
  PROVE  FlagTypeOK'
  <1>1. FlagTypeOK
    BY DEF FlagInv
  <1>2. ASSUME NEW c \in FlagCalls, loadFlag(c) PROVE FlagTypeOK'
    <2>1. aggregateAfter(flagOp[c], flag) \in FlagRow
      BY <1>1 DEF aggregateAfter, FlagRow, FlagTypeOK
    <2> QED
      BY <1>1, <1>2, <2>1 DEF loadFlag, FlagTypeOK, FlagGoto
  <1>3. ASSUME NEW c \in FlagCalls, createFlag(c) PROVE FlagTypeOK'
    <2>1. \A on \in BOOLEAN :
             [id |-> c, enabled |-> on, archived |-> FALSE] \in FlagRow
      BY DEF FlagRow
    <2>2. flagCopy' \in [FlagCalls -> FlagRow]
      BY <1>1, <1>3, <2>1 DEF createFlag, FlagTypeOK
    <2> QED
      BY <1>1, <1>3, <2>2 DEF createFlag, FlagTypeOK, FlagGoto
  <1>4. ASSUME NEW c \in FlagCalls, hardDelete(c) PROVE FlagTypeOK'
    <2>1. Missing \in FlagRow /\ Readers \subseteq FlagCalls \cup Evaluators
      BY DEF FlagRow, Missing, Readers
    <2> QED
      BY <1>1, <1>4, <2>1 DEF hardDelete, FlagTypeOK, FlagGoto
  <1>5. ASSUME NEW c \in FlagCalls, saveFlag(c) PROVE FlagTypeOK'
    <2>1. Readers \subseteq FlagCalls \cup Evaluators
      BY DEF Readers
    <2>2. flagCopy[c].id # NoFlag /\ flagCopy[c] \in FlagRow
      BY <1>1, <1>5 DEF FlagInv, LoadedStands, saveFlag, FlagTypeOK
    <2> QED
      BY <1>1, <1>5, <2>1, <2>2 DEF saveFlag, FlagTypeOK, FlagGoto
  <1>6. ASSUME NEW c \in FlagCalls, publishFlagEvent(c) \/ invalidateCache(c)
        PROVE  FlagTypeOK'
    <2>1. flagFaults' \in 0..MaxFlagFaults
      BY <1>1, <1>6 DEF publishFlagEvent, invalidateCache, FlagFault,
                        FlagTypeOK
    <2> QED
      BY <1>1, <1>6, <2>1 DEF publishFlagEvent, invalidateCache, FlagTypeOK,
                              FlagGoto
  <1>7. ASSUME NEW e \in Evaluators, evaluate(e) \/ cacheResult(e)
        PROVE  FlagTypeOK'
    <2>1. flagFaults' \in 0..MaxFlagFaults
      BY <1>1, <1>7 DEF evaluate, cacheResult, FlagFault, FlagTypeOK
    <2>2. Truth \in {"true", "false"}
      BY DEF Truth
    <2>3. evaluating' \in [Evaluators -> {"idle", "true", "false"}]
      BY <1>1, <1>7, <2>2 DEF evaluate, cacheResult, FlagTypeOK
    <2>4. cached' \in {"none", "true", "false"}
      BY <1>1, <1>7 DEF evaluate, cacheResult, FlagTypeOK
    <2> QED
      BY <1>1, <1>7, <2>1, <2>3, <2>4 DEF evaluate, cacheResult, FlagTypeOK
  <1>8. CASE cacheExpires
    BY <1>1, <1>8 DEF cacheExpires, FlagTypeOK
  <1> QED
    BY <1>2, <1>3, <1>4, <1>5, <1>6, <1>7, <1>8 DEF FlagNext, FlagCallStep

(* A save makes whoever has read the row outdated; nothing else changes it.*)
LEMMA Saved ==
  ASSUME FlagInv, FlagNext
  PROVE  \/ UNCHANGED flag
         \/ outdated' = outdated \cup Readers /\ UNCHANGED evaluating
  BY DEF FlagNext, FlagCallStep, loadFlag, createFlag, hardDelete, saveFlag,
         publishFlagEvent, invalidateCache, evaluate, cacheResult,
         cacheExpires

LEMMA FlagInvNext == FlagInv /\ [FlagNext]_flagVars => FlagInv'
  <1> SUFFICES ASSUME FlagInv, [FlagNext]_flagVars PROVE FlagInv'
    OBVIOUS
  <1>1. CASE UNCHANGED flagVars
    BY <1>1 DEF flagVars, FlagInv, FlagTypeOK, CacheIsFresh, LoadedStands,
         EvaluatedStands, Truth, Uninvalidated, InUse
  <1>2. CASE FlagNext
    <2>1. FlagTypeOK /\ FlagTypeOK'
      BY <1>2, FlagTypes DEF FlagInv
    <2>2. ASSUME NEW c \in FlagCalls PROVE LoadedStands(c)'
      <3> SUFFICES ASSUME flagStep'[c] = "loaded" PROVE LoadedStands(c)'
        BY DEF LoadedStands
      <3>1. CASE flagStep[c] = "loaded"
        <4>1. LoadedStands(c) /\ c \in Readers
          BY <3>1 DEF FlagInv, Readers
        <4>2. UNCHANGED <<flagCopy[c], flagOp>>
          BY <1>2, <2>1, <3>1 DEF FlagNext, FlagCallStep, loadFlag,
               createFlag, hardDelete, saveFlag, publishFlagEvent,
               invalidateCache, evaluate, cacheResult, cacheExpires,
               FlagTypeOK
        <4>3. c \in outdated => c \in outdated'
          BY <1>2 DEF FlagNext, FlagCallStep, loadFlag, createFlag,
               hardDelete, saveFlag, publishFlagEvent, invalidateCache,
               evaluate, cacheResult, cacheExpires
        <4> QED
          BY <1>2, <3>1, <4>1, <4>2, <4>3, Saved DEF LoadedStands, InUse
      <3>2. CASE flagStep[c] # "loaded"
        <4>1. loadFlag(c) \/ createFlag(c)
          BY <1>2, <2>1, <3>2 DEF FlagNext, FlagCallStep, loadFlag,
               createFlag, hardDelete, saveFlag, publishFlagEvent,
               invalidateCache, evaluate, cacheResult, cacheExpires,
               FlagTypeOK, FlagGoto
        <4>2. CASE loadFlag(c)
          <5>1. /\ flagFound(c) /\ UNCHANGED <<flag, flagOp>>
                /\ flagCopy'[c] = aggregateAfter(flagOp[c], flag)
            BY <2>1, <4>2 DEF loadFlag, FlagGoto, FlagTypeOK
          <5>2. aggregateAfter(flagOp[c], flag).id = flag.id
            BY <2>1 DEF aggregateAfter, FlagTypeOK, FlagRow
          <5> QED
            BY <5>1, <5>2 DEF LoadedStands, flagFound, InUse
        <4>3. CASE createFlag(c)
          BY <2>1, <4>3 DEF createFlag, FlagGoto, FlagTypeOK, LoadedStands
        <4> QED
          BY <4>1, <4>2, <4>3
      <3> QED
        BY <3>1, <3>2
    <2>3. ASSUME NEW e \in Evaluators PROVE EvaluatedStands(e)'
      <3> SUFFICES ASSUME evaluating'[e] # "idle" PROVE EvaluatedStands(e)'
        BY DEF EvaluatedStands
      <3>1. CASE flag' # flag
        BY <1>2, <3>1, Saved DEF EvaluatedStands, Readers
      <3>2. CASE flag' = flag
        <4>1. EvaluatedStands(e) /\ Truth' = Truth
          BY <3>2 DEF FlagInv, Truth
        <4> QED
          BY <1>2, <2>1, <3>2, <4>1 DEF EvaluatedStands, FlagNext,
               FlagCallStep, loadFlag, createFlag, hardDelete, saveFlag,
               publishFlagEvent, invalidateCache, evaluate, cacheResult,
               cacheExpires, FlagTypeOK
      <3> QED
        BY <3>1, <3>2
    <2>4. CacheIsFresh'
      <3>1. CacheIsFresh
        BY DEF FlagInv
      <3>2. ASSUME NEW c \in FlagCalls, saveFlag(c) \/ hardDelete(c)
            PROVE  CacheIsFresh'
        <4>1. \/ c \in Uninvalidated'
              \/ UNCHANGED <<flag, cached, flagFaults, raced, flagOp>>
                   /\ FlagGoto(c, "error") /\ flagStep[c] = "loaded"
          BY <2>1, <3>2 DEF saveFlag, hardDelete, FlagGoto, FlagTypeOK,
               Uninvalidated
        <4> QED
          BY <2>1, <3>1, <4>1 DEF CacheIsFresh, Truth, Uninvalidated,
               FlagGoto, FlagTypeOK
      <3>3. ASSUME NEW c \in FlagCalls, loadFlag(c) \/ createFlag(c)
            PROVE  CacheIsFresh'
        BY <2>1, <3>1, <3>3 DEF loadFlag, createFlag, FlagGoto, FlagTypeOK,
             CacheIsFresh, Truth, Uninvalidated
      <3>4. ASSUME NEW c \in FlagCalls, publishFlagEvent(c)
            PROVE  CacheIsFresh'
        <4>1. c \in Uninvalidated' \/ flagFaults' > 0
          BY <2>1, <3>4 DEF publishFlagEvent, FlagGoto, FlagTypeOK,
               Uninvalidated, FlagFault
        <4> QED
          BY <4>1 DEF CacheIsFresh
      <3>5. ASSUME NEW c \in FlagCalls, invalidateCache(c)
            PROVE  CacheIsFresh'
        <4>1. cached' = "none" \/ flagFaults' > 0
          BY <2>1, <3>5 DEF invalidateCache, FlagTypeOK, FlagFault
        <4> QED
          BY <4>1 DEF CacheIsFresh
      <3>6. ASSUME NEW e \in Evaluators, evaluate(e) PROVE CacheIsFresh'
        <4>1. UNCHANGED <<flag, cached, flagStep, flagOp, raced>>
              /\ (flagFaults > 0 => flagFaults' > 0)
          BY <2>1, <3>6 DEF evaluate, FlagTypeOK, FlagFault
        <4> QED
          BY <3>1, <4>1 DEF CacheIsFresh, Truth, Uninvalidated
      <3>7. ASSUME NEW e \in Evaluators, cacheResult(e) PROVE CacheIsFresh'
        <4>1. EvaluatedStands(e)
          BY DEF FlagInv
        <4> QED
          BY <3>7, <4>1 DEF cacheResult, EvaluatedStands, CacheIsFresh, Truth
      <3>8. CASE cacheExpires
        BY <3>8 DEF cacheExpires, CacheIsFresh
      <3> QED
        BY <1>2, <3>2, <3>3, <3>4, <3>5, <3>6, <3>7, <3>8
           DEF FlagNext, FlagCallStep
    <2> QED
      BY <2>1, <2>2, <2>3, <2>4 DEF FlagInv
  <1> QED
    BY <1>1, <1>2

(* No change of a flag undoes one that it could have seen, and the cache   *)
(* is old only in the cases CacheIsFresh names.                            *)
THEOREM FlagKept == FlagSpec => FlagIsKept
  <1>1. FlagInv => FlagTypeOK /\ CacheIsFresh
    BY DEF FlagInv
  <1>2. ASSUME FlagInv, [FlagNext]_flagVars
        PROVE  [~InUse(flag) /\ InUse(flag') =>
                  \E c \in FlagCalls :
                    /\ flagStep[c] = "loaded" /\ flagStep'[c] = "saved"
                    /\ flagOp[c] \in {"restore", "create"} \/ c \in outdated]_flag
    <2> SUFFICES ASSUME ~InUse(flag), InUse(flag')
                 PROVE  \E c \in FlagCalls :
                    /\ flagStep[c] = "loaded" /\ flagStep'[c] = "saved"
                    /\ flagOp[c] \in {"restore", "create"} \/ c \in outdated
      OBVIOUS
    <2>1. PICK c \in FlagCalls : saveFlag(c) /\ flag' = flagCopy[c]
      BY <1>2 DEF FlagNext, FlagCallStep, loadFlag, createFlag, hardDelete,
           saveFlag, publishFlagEvent, invalidateCache, evaluate,
           cacheResult, cacheExpires, flagVars, InUse, Missing
    <2>2. flagStep[c] = "loaded" /\ flagStep'[c] = "saved"
      BY <1>2, <2>1 DEF saveFlag, FlagInv, FlagTypeOK, FlagGoto
    <2> QED
      BY <1>2, <2>1, <2>2 DEF FlagInv, LoadedStands
  <1>3. ASSUME FlagInv, [FlagNext]_flagVars
        PROVE  [flag'.id \in {flag.id, NoFlag} \/ flag.id = NoFlag]_flag
    BY <1>3 DEF FlagNext, FlagCallStep, loadFlag, createFlag, hardDelete,
         saveFlag, publishFlagEvent, invalidateCache, evaluate, cacheResult,
         cacheExpires, flagVars, Missing
  <1> QED
    BY <1>1, <1>2, <1>3, FlagInvInit, FlagInvNext, PTL
       DEF FlagSpec, FlagIsKept, BackInUseBy, RowKept
-----------------------------------------------------------------------------
(***************************************************************************)
(* The worker registry.  That a worker that is gone is in the end no       *)
(* longer listed as active needs the threshold to pass; that it then       *)
(* stays so, and that only a heartbeat still on its way can list it again, *)
(* is safety.                                                              *)
(***************************************************************************)
(* What a write to the row of k leaves in a row.                           *)
LEMMA WriteIs ==
    ASSUME WorkerTypeOK, NEW k \in WorkerKeys, NEW rec \in WorkerRow,
           rec.stoppedAt <=> rec.status = "STOPPED", Write(k, rec)
    PROVE  /\ workerRow' \in [WorkerKeys -> WorkerRow]
           /\ \A i \in WorkerKeys :
                /\ workerRow'[i].stoppedAt <=> workerRow'[i].status = "STOPPED"
                /\ i # k => /\ workerRow'[i].fresh = workerRow[i].fresh
                            /\ workerRow'[i].stoppedAt = workerRow[i].stoppedAt
                            /\ workerRow'[i].status \in
                                 {workerRow[i].status, "STALE"}
  <1>1. PICK rows : rows = [workerRow EXCEPT ![k] = rec]
    OBVIOUS
  <1>2. /\ rows \in [WorkerKeys -> WorkerRow] /\ rows[k] = rec
        /\ \A i \in WorkerKeys : i # k => rows[i] = workerRow[i]
    BY <1>1 DEF WorkerTypeOK
  <1>3. workerRow' = markStaleWorkers(rows)
    BY <1>1 DEF Write
  <1>4. ASSUME NEW i \in WorkerKeys
        PROVE  /\ workerRow'[i] \in WorkerRow
               /\ workerRow'[i].fresh = rows[i].fresh
               /\ workerRow'[i].stoppedAt = rows[i].stoppedAt
               /\ workerRow'[i].status \in {rows[i].status, "STALE"}
               /\ workerRow'[i].status = "STOPPED" <=>
                      rows[i].status = "STOPPED"
    <2>1. rows[i] \in WorkerRow
      BY <1>2
    <2>2. CASE rows[i].status = "ACTIVE" /\ ~rows[i].fresh
      <3>1. workerRow'[i] = [rows[i] EXCEPT !.status = "STALE"]
        BY <1>3, <2>2 DEF markStaleWorkers
      <3> QED BY <2>1, <2>2, <3>1 DEF WorkerRow
    <2>3. CASE ~(rows[i].status = "ACTIVE" /\ ~rows[i].fresh)
      <3>1. workerRow'[i] = rows[i]
        BY <1>3, <2>3 DEF markStaleWorkers
      <3> QED BY <2>1, <3>1
    <2> QED BY <2>2, <2>3
  <1>5. workerRow' \in [WorkerKeys -> WorkerRow]
    BY <1>3, <1>4 DEF markStaleWorkers
  <1>6. \A i \in WorkerKeys : rows[i].stoppedAt <=> rows[i].status = "STOPPED"
    BY <1>2 DEF WorkerTypeOK
  <1> QED BY <1>2, <1>4, <1>5, <1>6

(* A renewed row is active and fresh.                                      *)
LEMMA RenewedIs ==
    Renewed \in WorkerRow /\ (Renewed.stoppedAt <=> Renewed.status = "STOPPED")
  BY DEF Renewed, WorkerRow

(* Each step of a worker keeps the rows well formed.                       *)
LEMMA WorkerTypeNext ==
    ASSUME WorkerTypeOK, [WorkerNext]_workerVars
    PROVE  WorkerTypeOK'
  <1> USE DEF WorkerTypeOK
  <1>1. ASSUME NEW p \in Processes, registerWorker(p) PROVE WorkerTypeOK'
    <2>1. workerKey[p] \in WorkerKeys /\ Write(workerKey[p], Renewed)
      BY <1>1 DEF registerWorker
    <2>2. /\ workerRow' \in [WorkerKeys -> WorkerRow]
          /\ \A k \in WorkerKeys :
               workerRow'[k].stoppedAt <=> workerRow'[k].status = "STOPPED"
      BY <2>1, WriteIs, RenewedIs
    <2> QED BY <1>1, <2>2 DEF registerWorker
  <1>2. ASSUME NEW p \in Processes, timerFires(p) PROVE WorkerTypeOK'
    BY <1>2 DEF timerFires
  <1>3. ASSUME NEW p \in Processes, heartbeat(p) PROVE WorkerTypeOK'
    <2>1. workerKey[p] \in WorkerKeys /\ Write(workerKey[p], Renewed)
      BY <1>3 DEF heartbeat
    <2>2. /\ workerRow' \in [WorkerKeys -> WorkerRow]
          /\ \A k \in WorkerKeys :
               workerRow'[k].stoppedAt <=> workerRow'[k].status = "STOPPED"
      BY <2>1, WriteIs, RenewedIs
    <2> QED BY <1>3, <2>2 DEF heartbeat
  <1>4. ASSUME NEW p \in Processes, heartbeatFails(p) PROVE WorkerTypeOK'
    BY <1>4, WorkerConstants DEF heartbeatFails
  <1>5. ASSUME NEW p \in Processes, onModuleDestroy(p) \/ crash(p)
        PROVE  WorkerTypeOK'
    BY <1>5 DEF onModuleDestroy, crash
  <1>6. ASSUME NEW p \in Processes, markStopped(p) PROVE WorkerTypeOK'
    <2>1. PICK rec : rec = [status |-> "STOPPED", fresh |-> TRUE,
                            stoppedAt |-> TRUE]
      OBVIOUS
    <2>2. rec \in WorkerRow /\ rec.stoppedAt /\ rec.status = "STOPPED"
      BY <2>1 DEF WorkerRow
    <2>3. workerRow' = [workerRow EXCEPT ![workerKey[p]] = rec]
      BY <1>6, <2>1 DEF markStopped
    <2>4. /\ workerRow' \in [WorkerKeys -> WorkerRow]
          /\ \A k \in WorkerKeys :
               workerRow'[k].stoppedAt <=> workerRow'[k].status = "STOPPED"
      BY <2>2, <2>3
    <2> QED BY <1>6, <2>4 DEF markStopped
  <1>7. ASSUME NEW k \in WorkerKeys, ages(k) PROVE WorkerTypeOK'
    <2>1. workerRow' = [workerRow EXCEPT ![k].fresh = FALSE]
      BY <1>7 DEF ages
    <2>2. [workerRow[k] EXCEPT !.fresh = FALSE] \in WorkerRow
      BY DEF WorkerRow
    <2>3. \A i \in WorkerKeys : /\ workerRow'[i] \in WorkerRow
                                /\ workerRow'[i].status = workerRow[i].status
                                /\ workerRow'[i].stoppedAt = workerRow[i].stoppedAt
      BY <2>1, <2>2 DEF WorkerRow
    <2>4. workerRow' \in [WorkerKeys -> WorkerRow]
      BY <2>1, <2>2
    <2> QED BY <1>7, <2>3, <2>4 DEF ages
  <1>8. CASE UNCHANGED workerVars
    BY <1>8 DEF workerVars
  <1> QED
    BY <1>1, <1>2, <1>3, <1>4, <1>5, <1>6, <1>7, <1>8 DEF WorkerNext

(* The rows of the workers are well formed, and stoppedAt is set on those  *)
(* that are STOPPED and on no other, although a heartbeat may arrive after *)
(* the mark and processes may share a row.                                 *)
THEOREM WorkerRowsSound == WorkerSpec => []WorkerTypeOK
  <1>1. WorkerInit => WorkerTypeOK
    BY WorkerConstants DEF WorkerInit, WorkerTypeOK, WorkerRow
  <1> QED BY <1>1, WorkerTypeNext, PTL DEF WorkerSpec

(* No step of a worker brings a silent key back.                           *)
LEMMA SilentStays ==
    ASSUME WorkerTypeOK, [WorkerNext]_workerVars, NEW k \in WorkerKeys,
           Silent(k)
    PROVE  Silent(k)' /\ (listed(k) # "ACTIVE" => listed(k)' # "ACTIVE")
  <1> USE DEF WorkerTypeOK
  <1>1. /\ \A p \in Processes : workerKey[p] = k => process[p] = "gone"
        /\ \A p \in beating : workerKey[p] # k
    BY DEF Silent, Nobody
  <1>2. workerKey' = workerKey
    BY DEF WorkerNext, workerVars, registerWorker, timerFires, heartbeat,
           heartbeatFails, onModuleDestroy, markStopped, crash, ages
  <1>3. ASSUME NEW p \in Processes, workerKey[p] = k
        PROVE  process'[p] = "gone" /\ p \notin beating'
    BY <1>1, <1>3
    DEF WorkerNext, workerVars, registerWorker, timerFires, heartbeat,
        heartbeatFails, onModuleDestroy, markStopped, crash, ages
  <1>4. beating' \subseteq Processes
    BY WorkerTypeNext
  <1>5. Silent(k)'
    BY <1>2, <1>3, <1>4 DEF Silent, Nobody
  <1>6. \/ workerRow'[k] = workerRow[k]
        \/ /\ workerRow'[k].fresh = workerRow[k].fresh
           /\ workerRow'[k].stoppedAt = workerRow[k].stoppedAt
           /\ workerRow'[k].status \in {workerRow[k].status, "STALE"}
        \/ /\ ~workerRow'[k].fresh
           /\ workerRow'[k].stoppedAt = workerRow[k].stoppedAt
    <2>1. ASSUME NEW p \in Processes, registerWorker(p) \/ heartbeat(p)
          PROVE  /\ workerRow'[k].fresh = workerRow[k].fresh
                 /\ workerRow'[k].stoppedAt = workerRow[k].stoppedAt
                 /\ workerRow'[k].status \in {workerRow[k].status, "STALE"}
      <3>1. workerKey[p] # k
        BY <1>1, <2>1 DEF registerWorker, heartbeat
      <3>2. workerKey[p] \in WorkerKeys /\ Write(workerKey[p], Renewed)
        BY <2>1 DEF registerWorker, heartbeat
      <3> QED BY <3>1, <3>2, WriteIs, RenewedIs
    <2>2. ASSUME NEW p \in Processes, markStopped(p)
          PROVE  workerRow'[k] = workerRow[k]
      BY <1>1, <2>2 DEF markStopped
    <2>3. ASSUME NEW p \in Processes,
                 \/ timerFires(p) \/ heartbeatFails(p)
                 \/ onModuleDestroy(p) \/ crash(p)
          PROVE  workerRow'[k] = workerRow[k]
      BY <2>3 DEF timerFires, heartbeatFails, onModuleDestroy, crash
    <2>4. ASSUME NEW i \in WorkerKeys, ages(i)
          PROVE  \/ workerRow'[k] = workerRow[k]
                 \/ /\ ~workerRow'[k].fresh
                    /\ workerRow'[k].stoppedAt = workerRow[k].stoppedAt
      <3>1. workerRow' = [workerRow EXCEPT ![i].fresh = FALSE]
        BY <2>4 DEF ages
      <3> QED BY <3>1 DEF WorkerRow
    <2>5. CASE UNCHANGED workerVars
      BY <2>5 DEF workerVars
    <2> QED BY <2>1, <2>2, <2>3, <2>4, <2>5 DEF WorkerNext
  <1>7. listed(k)' = CASE workerRow'[k].stoppedAt -> "STOPPED"
                       [] ~workerRow'[k].stoppedAt /\ ~workerRow'[k].fresh ->
                            "STALE"
                       [] OTHER -> workerRow'[k].status
    BY DEF listed
  <1>8. listed(k) # "ACTIVE" => listed(k)' # "ACTIVE"
    BY <1>6, <1>7 DEF listed, WorkerRow
  <1> QED BY <1>5, <1>8

(* A worker that is gone is never listed as active again once its last     *)
(* heartbeat arrived or was lost, for any number of processes, keys and    *)
(* faults.                                                                 *)
THEOREM GoneWorkersStayGone == WorkerSpec => GoneStaysGone
  <1>1. WorkerTypeOK /\ [WorkerNext]_workerVars =>
          [\A k \in WorkerKeys :
             Silent(k) => /\ Silent(k)'
                          /\ listed(k) # "ACTIVE" => listed(k)' # "ACTIVE"]_workerVars
    BY SilentStays
  <1> QED BY <1>1, WorkerRowsSound, PTL DEF WorkerSpec, GoneStaysGone
=============================================================================
