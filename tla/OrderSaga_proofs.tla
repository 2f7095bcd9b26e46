-------------------------- MODULE OrderSaga_proofs --------------------------
(***************************************************************************)
(* Safety of OrderSaga for every set of orders and dispatchers, every      *)
(* total, need and stock, and every number of crashes and expiries.        *)
(***************************************************************************)
EXTENDS OrderSaga, Sums_proofs, TLAPS

(***************************************************************************)
(* The inductive invariant, in groups.  Each part is what some handler     *)
(* relies on when it resumes after other processes have taken steps.       *)
(***************************************************************************)
StockTypeOK ==
    /\ stock \in Nat
    /\ active \in [Orders -> Nat]
    /\ committed \in [Orders -> Nat]
    /\ sold \in [Orders -> Nat]
    /\ aged \in [Orders -> BOOLEAN]

(* Orders and payments: the settling payment is the one that reaches the   *)
(* total, and an event exists only for an amount that was recorded.        *)
PaymentInv ==
    \A o \in Orders :
        /\ paymentStatus[o] = "PAID" <=> paid[o] = Total
        /\ \A k \in 1..Total : event[<<o, k>>] # "NONE" => k <= paid[o]
        /\ status[o] = "NONE" =>
               paid[o] = 0 /\ ~released[o] /\ opening[o] = "idle"
        /\ opening[o] # "idle" => mode[o] = "OPEN_BILL"
        /\ opening[o] = "kitchen" => BusinessType = "CAFE"

(* Dispatchers: every row read exists, and the steps of the fulfilment     *)
(* handler are taken for settling payments only.                           *)
DispatchInv ==
    \A d \in Dispatchers :
        /\ \A p \in batch[d] : event[p] # "NONE"
        /\ pc[d] # "idle" => current[d] \in Payments /\ event[current[d]] # "NONE"
        /\ pc[d] \notin {"idle", "ack", "fail"} => current[d][2] = Total
        /\ pc[d] = "reserve" => BusinessType \in {"RETAIL", "CAFE"}
        /\ pc[d] = "kitchen" => BusinessType = "CAFE"
        /\ pc[d] \in {"commit", "read", "markPaid", "fulfill"} =>
               BusinessType = "RETAIL"

(* Fulfilment: what must have happened before an order got this far.       *)
FulfilmentInv ==
    \A o \in Orders :
        /\ released[o] => /\ BusinessType = "CAFE"
                          /\ mode[o] = "OPEN_BILL" \/ paymentStatus[o] = "PAID"
        /\ status[o] \in {"IN_PROGRESS", "READY"} => released[o]
        /\ status[o] = "PAID" =>
               BusinessType = "RETAIL" /\ paymentStatus[o] = "PAID"
        /\ status[o] = "COMPLETED" =>
               \/ released[o]
               \/ /\ BusinessType = "RETAIL"
                  /\ paymentStatus[o] = "PAID"
                  /\ Consumed(o) >= 1

(* As long as nothing expired, a handler that reserved stock still finds   *)
(* the reservation, active or committed, unless the order was cancelled.   *)
Holds(o) == status[o] = "CANCELLED" \/ HasReservation(o)
HoldsCommitted(o) == status[o] = "CANCELLED" \/ committed[o] > 0

UnexpiredInv ==
    expiries = 0 =>
        /\ \A o \in Orders :
               /\ sold[o] = 0
               /\ released[o] \/ opening[o] = "kitchen" => Holds(o)
               /\ status[o] \in {"IN_PROGRESS", "READY", "PAID", "COMPLETED"} =>
                      committed[o] > 0
        /\ \A d \in Dispatchers :
               /\ pc[d] \in {"kitchen", "commit"} => Holds(current[d][1])
               /\ pc[d] \in {"read", "markPaid"} => HoldsCommitted(current[d][1])

SagaInv ==
    /\ TypeOK
    /\ OneLiveReservation
    /\ PaymentInv
    /\ DispatchInv
    /\ FulfilmentInv
    /\ UnexpiredInv

-----------------------------------------------------------------------------
(* The initial state satisfies the invariant.                              *)
LEMMA SagaInvInit == Init => SagaInv
  BY SagaConstants
  DEF Init, SagaInv, TypeOK, OneLiveReservation, PaymentInv, DispatchInv,
      FulfilmentInv, UnexpiredInv, OrderStatus, OrderMode, EventState,
      OpeningStep, HandlerStep, Payments, Consumed

(***************************************************************************)
(* What the three transactions on reservation rows do to the stock: the    *)
(* quantities stay natural numbers and an order keeps at most one live     *)
(* reservation.                                                            *)
(***************************************************************************)

(* reserveStock leaves the order with a live reservation.                  *)
LEMMA ReserveEffect ==
    ASSUME StockTypeOK, OneLiveReservation, NEW o \in Orders, reserveStock(o)
    PROVE  StockTypeOK' /\ OneLiveReservation' /\ HasReservation(o)'
  <1>1. CASE HasReservation(o)
    BY <1>1
    DEF StockTypeOK, OneLiveReservation, reserveStock, HasReservation,
    stockVars
  <1>2. CASE ~HasReservation(o)
    <2>1. active[o] = 0 /\ committed[o] = 0
      BY <1>2 DEF StockTypeOK, HasReservation
    <2>2. stock >= Need[o] /\ Need[o] \in Nat
      BY <1>2, SagaConstants DEF reserveStock, CanReserve
    <2>3. /\ stock' = stock - Need[o]
          /\ active' = [active EXCEPT ![o] = 1]
          /\ aged' = [aged EXCEPT ![o] = FALSE]
          /\ committed' = committed /\ sold' = sold
      BY <1>2 DEF reserveStock
    <2>4. StockTypeOK'
      BY <2>2, <2>3 DEF StockTypeOK
    <2>5. OneLiveReservation' /\ HasReservation(o)'
      BY <2>1, <2>3 DEF StockTypeOK, OneLiveReservation, HasReservation
    <2> QED BY <2>4, <2>5
  <1> QED BY <1>1, <1>2

(* releaseReservation gives back a natural number of units.                *)
LEMMA ReleaseEffect ==
    ASSUME StockTypeOK, OneLiveReservation, NEW o \in Orders,
           releaseReservation(o)
    PROVE  StockTypeOK' /\ OneLiveReservation'
  <1>1. active[o] * Need[o] \in Nat
    BY SagaConstants DEF StockTypeOK
  <1> QED
    BY <1>1 DEF StockTypeOK, OneLiveReservation, releaseReservation

(* commitReservation turns the active rows of the order into committed.    *)
LEMMA CommitEffect ==
    ASSUME StockTypeOK, OneLiveReservation, NEW o \in Orders,
           commitReservation(o)
    PROVE  /\ StockTypeOK' /\ OneLiveReservation'
           /\ HasReservation(o) => committed'[o] > 0
  BY DEF StockTypeOK, OneLiveReservation, commitReservation, HasReservation

(* cancelOrder leaves the order cancelled, or completed as it was.         *)
LEMMA CancelEffect ==
    ASSUME StockTypeOK, OneLiveReservation, NEW o \in Orders, cancelOrder(o)
    PROVE  StockTypeOK' /\ OneLiveReservation'
  <1>1. CASE status[o] = "COMPLETED"
    BY <1>1 DEF cancelOrder, StockTypeOK, OneLiveReservation, stockVars
  <1>2. CASE status[o] # "COMPLETED"
    BY <1>2, ReleaseEffect DEF cancelOrder
  <1> QED BY <1>1, <1>2

(***************************************************************************)
(* One lemma per action.  In each, step 1 is about the stock, 2 about      *)
(* types, 3 to 6 about the groups of the invariant.                        *)
(***************************************************************************)
USE SagaConstants
    DEF orderVars, stockVars, dispatchVars, bounds, OrderStatus, OrderMode,
        EventState, OpeningStep, HandlerStep, Payments

(* A dispatcher inside the fulfilment handler works for an order whose     *)
(* full amount was recorded.                                               *)
LEMMA SettlingHandler ==
    ASSUME SagaInv, NEW d \in Dispatchers, pc[d] \notin {"idle", "ack", "fail"}
    PROVE  /\ current[d] \in Payments
           /\ current[d][1] \in Orders
           /\ paymentStatus[current[d][1]] = "PAID"
  <1>1. current[d] \in Payments /\ event[current[d]] # "NONE" /\ current[d][2] = Total
    BY DEF SagaInv, DispatchInv
  <1>2. current[d][1] \in Orders /\ current[d] = <<current[d][1], Total>>
    BY <1>1
  <1>3. Total <= paid[current[d][1]]
    BY <1>1, <1>2 DEF SagaInv, PaymentInv
  <1> QED
    BY <1>1, <1>2, <1>3 DEF SagaInv, TypeOK, PaymentInv

(* Create preserves the invariant. *)
LEMMA CreateStep ==
    ASSUME SagaInv, NEW o \in Orders, NEW m \in OrderMode, Create(o, m)
    PROVE  SagaInv'
  <1> USE DEF Create
  <1>1. StockTypeOK' /\ OneLiveReservation'
    BY DEF SagaInv, TypeOK, StockTypeOK, OneLiveReservation
  <1>2. TypeOK'
    BY <1>1 DEF SagaInv, TypeOK, StockTypeOK
  <1>3. PaymentInv'
    BY <1>2 DEF SagaInv, TypeOK, PaymentInv
  <1>4. DispatchInv'
    BY <1>2 DEF SagaInv, TypeOK, DispatchInv
  <1>5. FulfilmentInv'
    BY <1>1, <1>2 DEF SagaInv, TypeOK, StockTypeOK, PaymentInv,
       FulfilmentInv, Consumed
  <1>6. UnexpiredInv'
    BY <1>1, <1>2 DEF SagaInv, TypeOK, StockTypeOK, OneLiveReservation,
       PaymentInv, DispatchInv, FulfilmentInv, UnexpiredInv, Holds,
       HoldsCommitted, HasReservation
  <1> QED BY <1>1, <1>2, <1>3, <1>4, <1>5, <1>6 DEF SagaInv

(* OpenReserve preserves the invariant. *)
LEMMA OpenReserveStep ==
    ASSUME SagaInv, NEW o \in Orders, OpenReserve(o)
    PROVE  SagaInv'
  <1> USE DEF OpenReserve, reserveStock, CanReserve, HasReservation
  <1>1. StockTypeOK' /\ OneLiveReservation'
    BY ReserveEffect DEF SagaInv, TypeOK, StockTypeOK, OneLiveReservation
  <1>2. TypeOK'
    BY <1>1 DEF SagaInv, TypeOK, StockTypeOK
  <1>3. PaymentInv'
    BY <1>2 DEF SagaInv, TypeOK, PaymentInv
  <1>4. DispatchInv'
    BY <1>2 DEF SagaInv, TypeOK, DispatchInv
  <1>5. FulfilmentInv'
    BY <1>1, <1>2 DEF SagaInv, TypeOK, StockTypeOK, PaymentInv,
       FulfilmentInv, Consumed
  <1>6. UnexpiredInv'
    BY <1>1, <1>2, ReserveEffect DEF SagaInv, TypeOK, StockTypeOK,
       OneLiveReservation, PaymentInv, DispatchInv, FulfilmentInv,
       UnexpiredInv, Holds, HoldsCommitted, HasReservation
  <1> QED BY <1>1, <1>2, <1>3, <1>4, <1>5, <1>6 DEF SagaInv

(* OpenKitchen preserves the invariant. *)
LEMMA OpenKitchenStep ==
    ASSUME SagaInv, NEW o \in Orders, OpenKitchen(o)
    PROVE  SagaInv'
  <1> USE DEF OpenKitchen, releaseToKitchen
  <1>1. StockTypeOK' /\ OneLiveReservation'
    BY DEF SagaInv, TypeOK, StockTypeOK, OneLiveReservation
  <1>2. TypeOK'
    BY <1>1 DEF SagaInv, TypeOK, StockTypeOK
  <1>3. PaymentInv'
    BY <1>2 DEF SagaInv, TypeOK, PaymentInv
  <1>4. DispatchInv'
    BY <1>2 DEF SagaInv, TypeOK, DispatchInv
  <1>5. FulfilmentInv'
    BY <1>1, <1>2 DEF SagaInv, TypeOK, StockTypeOK, PaymentInv,
       FulfilmentInv, Consumed
  <1>6. UnexpiredInv'
    BY <1>1, <1>2 DEF SagaInv, TypeOK, StockTypeOK, OneLiveReservation,
       PaymentInv, DispatchInv, FulfilmentInv, UnexpiredInv, Holds,
       HoldsCommitted, HasReservation
  <1> QED BY <1>1, <1>2, <1>3, <1>4, <1>5, <1>6 DEF SagaInv

(* OpenCancel preserves the invariant. *)
LEMMA OpenCancelStep ==
    ASSUME SagaInv, NEW o \in Orders, OpenCancel(o)
    PROVE  SagaInv'
  <1> USE DEF OpenCancel, cancelOrder, releaseReservation
  <1>1. StockTypeOK' /\ OneLiveReservation'
    BY CancelEffect DEF SagaInv, TypeOK, StockTypeOK, OneLiveReservation
  <1>2. TypeOK'
    BY <1>1 DEF SagaInv, TypeOK, StockTypeOK
  <1>3. PaymentInv'
    BY <1>2 DEF SagaInv, TypeOK, PaymentInv
  <1>4. DispatchInv'
    BY <1>2 DEF SagaInv, TypeOK, DispatchInv
  <1>5. FulfilmentInv'
    BY <1>1, <1>2 DEF SagaInv, TypeOK, StockTypeOK, PaymentInv,
       FulfilmentInv, Consumed
  <1>6. UnexpiredInv'
    <2>1. \A q \in Orders :
            \/ status'[q] = "CANCELLED"
            \/ status'[q] = status[q] /\ active'[q] = active[q]
      BY DEF SagaInv, TypeOK
    <2>2. /\ committed' = committed /\ sold' = sold /\ released' = released
          /\ \A q \in Orders : opening'[q] = "kitchen" => opening[q] = "kitchen"
          /\ current' = current /\ pc' = pc /\ expiries' = expiries
      BY DEF SagaInv, TypeOK
    <2>3. \A e \in Dispatchers :
            pc[e] \in {"kitchen", "commit", "read", "markPaid"} =>
                current[e][1] \in Orders
      BY SettlingHandler
    <2> QED
      BY <2>1, <2>2, <2>3
      DEF SagaInv, UnexpiredInv, Holds, HoldsCommitted, HasReservation
  <1> QED BY <1>1, <1>2, <1>3, <1>4, <1>5, <1>6 DEF SagaInv

(* Cancel preserves the invariant. *)
LEMMA CancelStep ==
    ASSUME SagaInv, NEW o \in Orders, Cancel(o)
    PROVE  SagaInv'
  <1> USE DEF Cancel, cancelOrder, releaseReservation
  <1>1. StockTypeOK' /\ OneLiveReservation'
    BY CancelEffect DEF SagaInv, TypeOK, StockTypeOK, OneLiveReservation
  <1>2. TypeOK'
    BY <1>1 DEF SagaInv, TypeOK, StockTypeOK
  <1>3. PaymentInv'
    BY <1>2 DEF SagaInv, TypeOK, PaymentInv
  <1>4. DispatchInv'
    BY <1>2 DEF SagaInv, TypeOK, DispatchInv
  <1>5. FulfilmentInv'
    BY <1>1, <1>2 DEF SagaInv, TypeOK, StockTypeOK, PaymentInv,
       FulfilmentInv, Consumed
  <1>6. UnexpiredInv'
    <2>1. \A q \in Orders :
            \/ status'[q] = "CANCELLED"
            \/ status'[q] = status[q] /\ active'[q] = active[q]
      BY DEF SagaInv, TypeOK
    <2>2. /\ committed' = committed /\ sold' = sold /\ released' = released
          /\ \A q \in Orders : opening'[q] = "kitchen" => opening[q] = "kitchen"
          /\ current' = current /\ pc' = pc /\ expiries' = expiries
      BY DEF SagaInv, TypeOK
    <2>3. \A e \in Dispatchers :
            pc[e] \in {"kitchen", "commit", "read", "markPaid"} =>
                current[e][1] \in Orders
      BY SettlingHandler
    <2> QED
      BY <2>1, <2>2, <2>3
      DEF SagaInv, UnexpiredInv, Holds, HoldsCommitted, HasReservation
  <1> QED BY <1>1, <1>2, <1>3, <1>4, <1>5, <1>6 DEF SagaInv

(* Pay preserves the invariant. *)
LEMMA PayStep ==
    ASSUME SagaInv, NEW o \in Orders, NEW amount \in 1..Total, Pay(o, amount)
    PROVE  SagaInv'
  <1> USE DEF Pay, Payable, AmountAccepted
  <1>1. StockTypeOK' /\ OneLiveReservation'
    BY DEF SagaInv, TypeOK, StockTypeOK, OneLiveReservation
  <1>2. TypeOK'
    BY <1>1 DEF SagaInv, TypeOK, StockTypeOK
  <1>3. PaymentInv'
    <2> DEFINE n == paid[o] + amount
    <2>1. /\ n \in 1..Total /\ n > paid[o]
          /\ paid' = [paid EXCEPT ![o] = n]
          /\ paymentStatus' = [paymentStatus EXCEPT ![o] =
                                 IF n >= Total THEN "PAID" ELSE "PENDING"]
          /\ event' = [event EXCEPT ![<<o, n>>] = "RECORDED"]
      BY DEF SagaInv, TypeOK
    <2>2. n >= Total <=> n = Total
      BY <2>1
    <2>3. paymentStatus'[o] = (IF n >= Total THEN "PAID" ELSE "PENDING") /\ paid'[o] = n
      BY <2>1 DEF SagaInv, TypeOK
    <2> QED
      BY <2>1, <2>2, <2>3 DEF SagaInv, TypeOK, PaymentInv
  <1>4. DispatchInv'
    BY <1>2 DEF SagaInv, TypeOK, DispatchInv
  <1>5. FulfilmentInv'
    BY <1>1, <1>2 DEF SagaInv, TypeOK, StockTypeOK, PaymentInv,
       FulfilmentInv, Consumed
  <1>6. UnexpiredInv'
    BY <1>1, <1>2 DEF SagaInv, TypeOK, StockTypeOK, OneLiveReservation,
       PaymentInv, DispatchInv, FulfilmentInv, UnexpiredInv, Holds,
       HoldsCommitted, HasReservation
  <1> QED BY <1>1, <1>2, <1>3, <1>4, <1>5, <1>6 DEF SagaInv

(* PublishPaymentSuccess preserves the invariant. *)
LEMMA PublishPaymentSuccessStep ==
    ASSUME SagaInv, NEW p \in Payments, PublishPaymentSuccess(p)
    PROVE  SagaInv'
  <1> USE DEF PublishPaymentSuccess
  <1>1. StockTypeOK' /\ OneLiveReservation'
    BY DEF SagaInv, TypeOK, StockTypeOK, OneLiveReservation
  <1>2. TypeOK'
    BY <1>1 DEF SagaInv, TypeOK, StockTypeOK
  <1>3. PaymentInv'
    BY <1>2 DEF SagaInv, TypeOK, PaymentInv
  <1>4. DispatchInv'
    BY <1>2 DEF SagaInv, TypeOK, DispatchInv
  <1>5. FulfilmentInv'
    BY <1>1, <1>2 DEF SagaInv, TypeOK, StockTypeOK, PaymentInv,
       FulfilmentInv, Consumed
  <1>6. UnexpiredInv'
    BY <1>1, <1>2 DEF SagaInv, TypeOK, StockTypeOK, OneLiveReservation,
       PaymentInv, DispatchInv, FulfilmentInv, UnexpiredInv, Holds,
       HoldsCommitted, HasReservation
  <1> QED BY <1>1, <1>2, <1>3, <1>4, <1>5, <1>6 DEF SagaInv

(* Fetch preserves the invariant. *)
LEMMA FetchStep ==
    ASSUME SagaInv, NEW d \in Dispatchers, Fetch(d)
    PROVE  SagaInv'
  <1> USE DEF Fetch, Pending
  <1>1. StockTypeOK' /\ OneLiveReservation'
    BY DEF SagaInv, TypeOK, StockTypeOK, OneLiveReservation
  <1>2. TypeOK'
    BY <1>1 DEF SagaInv, TypeOK, StockTypeOK
  <1>3. PaymentInv'
    BY <1>2 DEF SagaInv, TypeOK, PaymentInv
  <1>4. DispatchInv'
    BY <1>2 DEF SagaInv, TypeOK, DispatchInv
  <1>5. FulfilmentInv'
    BY <1>1, <1>2 DEF SagaInv, TypeOK, StockTypeOK, PaymentInv,
       FulfilmentInv, Consumed
  <1>6. UnexpiredInv'
    BY <1>1, <1>2 DEF SagaInv, TypeOK, StockTypeOK, OneLiveReservation,
       PaymentInv, DispatchInv, FulfilmentInv, UnexpiredInv, Holds,
       HoldsCommitted, HasReservation
  <1> QED BY <1>1, <1>2, <1>3, <1>4, <1>5, <1>6 DEF SagaInv

(* Take preserves the invariant. *)
LEMMA TakeStep ==
    ASSUME SagaInv, NEW d \in Dispatchers, NEW p \in Payments, Take(d, p)
    PROVE  SagaInv'
  <1> USE DEF Take
  <1>1. StockTypeOK' /\ OneLiveReservation'
    BY DEF SagaInv, TypeOK, StockTypeOK, OneLiveReservation
  <1>2. TypeOK'
    BY <1>1 DEF SagaInv, TypeOK, StockTypeOK
  <1>3. PaymentInv'
    BY <1>2 DEF SagaInv, TypeOK, PaymentInv
  <1>4. DispatchInv'
    BY <1>2 DEF SagaInv, TypeOK, DispatchInv
  <1>5. FulfilmentInv'
    BY <1>1, <1>2 DEF SagaInv, TypeOK, StockTypeOK, PaymentInv,
       FulfilmentInv, Consumed
  <1>6. UnexpiredInv'
    BY <1>1, <1>2 DEF SagaInv, TypeOK, StockTypeOK, OneLiveReservation,
       PaymentInv, DispatchInv, FulfilmentInv, UnexpiredInv, Holds,
       HoldsCommitted, HasReservation
  <1> QED BY <1>1, <1>2, <1>3, <1>4, <1>5, <1>6 DEF SagaInv

(* HandleReserve preserves the invariant. *)
LEMMA HandleReserveStep ==
    ASSUME SagaInv, NEW d \in Dispatchers, HandleReserve(d)
    PROVE  SagaInv'
  <1> USE DEF HandleReserve, Goto, reserveStock, CanReserve
  <1>1. StockTypeOK' /\ OneLiveReservation'
    BY ReserveEffect DEF SagaInv, TypeOK, StockTypeOK, OneLiveReservation,
       DispatchInv
  <1>2. TypeOK'
    BY <1>1 DEF SagaInv, TypeOK, StockTypeOK, DispatchInv
  <1>3. PaymentInv'
    BY <1>2 DEF SagaInv, TypeOK, PaymentInv, DispatchInv
  <1>4. DispatchInv'
    <2>1. /\ batch' = batch /\ current' = current /\ event' = event
          /\ \E s \in {"fail", IF BusinessType = "CAFE" THEN "kitchen" ELSE "commit"} :
                pc' = [pc EXCEPT ![d] = s]
      OBVIOUS
    <2>2. BusinessType \in {"RETAIL", "CAFE"}
      BY DEF SagaInv, DispatchInv
    <2> QED
      BY <2>1, <2>2 DEF SagaInv, TypeOK, DispatchInv
  <1>5. FulfilmentInv'
    BY <1>1, <1>2 DEF SagaInv, TypeOK, StockTypeOK, PaymentInv,
       FulfilmentInv, Consumed, DispatchInv
  <1>6. UnexpiredInv'
    <2>1. current[d][1] \in Orders
      BY SettlingHandler
    <2>2. /\ \A q \in Orders : HasReservation(q) => HasReservation(q)'
          /\ committed' = committed /\ sold' = sold
      BY <2>1, ReserveEffect
         DEF SagaInv, TypeOK, StockTypeOK, HasReservation
    <2>3. \A e \in Dispatchers :
            \/ pc'[e] = pc[e]
            \/ e = d /\ pc'[e] = "fail"
            \/ e = d /\ HasReservation(current[d][1])' /\ pc'[e] \in {"kitchen", "commit"}
      BY <2>1, ReserveEffect DEF SagaInv, TypeOK, StockTypeOK
    <2>4. /\ status' = status /\ released' = released /\ opening' = opening
          /\ current' = current /\ expiries' = expiries
      OBVIOUS
    <2>5. \A e \in Dispatchers :
            pc[e] \in {"kitchen", "commit", "read", "markPaid"} =>
                current[e][1] \in Orders
      BY SettlingHandler
    <2> QED
      BY <2>1, <2>2, <2>3, <2>4, <2>5
      DEF SagaInv, UnexpiredInv, Holds, HoldsCommitted
  <1> QED BY <1>1, <1>2, <1>3, <1>4, <1>5, <1>6 DEF SagaInv

(* HandleKitchen preserves the invariant. *)
LEMMA HandleKitchenStep ==
    ASSUME SagaInv, NEW d \in Dispatchers, HandleKitchen(d)
    PROVE  SagaInv'
  <1> USE DEF HandleKitchen, Goto, releaseToKitchen
  <1>1. StockTypeOK' /\ OneLiveReservation'
    BY DEF SagaInv, TypeOK, StockTypeOK, OneLiveReservation, DispatchInv
  <1>2. TypeOK'
    BY <1>1 DEF SagaInv, TypeOK, StockTypeOK, DispatchInv
  <1>3. PaymentInv'
    BY <1>2 DEF SagaInv, TypeOK, PaymentInv, DispatchInv
  <1>4. DispatchInv'
    BY <1>2 DEF SagaInv, TypeOK, DispatchInv
  <1>5. FulfilmentInv'
    BY <1>1, <1>2 DEF SagaInv, TypeOK, StockTypeOK, PaymentInv,
       FulfilmentInv, Consumed, DispatchInv
  <1>6. UnexpiredInv'
    BY <1>1, <1>2 DEF SagaInv, TypeOK, StockTypeOK, OneLiveReservation,
       PaymentInv, DispatchInv, FulfilmentInv, UnexpiredInv, Holds,
       HoldsCommitted, HasReservation
  <1> QED BY <1>1, <1>2, <1>3, <1>4, <1>5, <1>6 DEF SagaInv

(* HandleCommit preserves the invariant. *)
LEMMA HandleCommitStep ==
    ASSUME SagaInv, NEW d \in Dispatchers, HandleCommit(d)
    PROVE  SagaInv'
  <1> USE DEF HandleCommit, Goto, commitReservation
  <1>1. StockTypeOK' /\ OneLiveReservation'
    BY CommitEffect DEF SagaInv, TypeOK, StockTypeOK, OneLiveReservation,
       DispatchInv
  <1>2. TypeOK'
    BY <1>1 DEF SagaInv, TypeOK, StockTypeOK, DispatchInv
  <1>3. PaymentInv'
    BY <1>2 DEF SagaInv, TypeOK, PaymentInv, DispatchInv
  <1>4. DispatchInv'
    BY <1>2 DEF SagaInv, TypeOK, DispatchInv
  <1>5. FulfilmentInv'
    BY <1>1, <1>2 DEF SagaInv, TypeOK, StockTypeOK, PaymentInv,
       FulfilmentInv, Consumed, DispatchInv
  <1>6. UnexpiredInv'
    BY <1>1, <1>2, CommitEffect DEF SagaInv, TypeOK, StockTypeOK,
       OneLiveReservation, PaymentInv, DispatchInv, FulfilmentInv,
       UnexpiredInv, Holds, HoldsCommitted, HasReservation
  <1> QED BY <1>1, <1>2, <1>3, <1>4, <1>5, <1>6 DEF SagaInv

(* HandleRead preserves the invariant. *)
LEMMA HandleReadStep ==
    ASSUME SagaInv, NEW d \in Dispatchers, HandleRead(d)
    PROVE  SagaInv'
  <1> USE DEF HandleRead, Goto
  <1>1. StockTypeOK' /\ OneLiveReservation'
    BY DEF SagaInv, TypeOK, StockTypeOK, OneLiveReservation, DispatchInv
  <1>2. TypeOK'
    BY <1>1 DEF SagaInv, TypeOK, StockTypeOK, DispatchInv
  <1>3. PaymentInv'
    BY <1>2 DEF SagaInv, TypeOK, PaymentInv, DispatchInv
  <1>4. DispatchInv'
    BY <1>2 DEF SagaInv, TypeOK, DispatchInv
  <1>5. FulfilmentInv'
    BY <1>1, <1>2 DEF SagaInv, TypeOK, StockTypeOK, PaymentInv,
       FulfilmentInv, Consumed, DispatchInv
  <1>6. UnexpiredInv'
    BY <1>1, <1>2 DEF SagaInv, TypeOK, StockTypeOK, OneLiveReservation,
       PaymentInv, DispatchInv, FulfilmentInv, UnexpiredInv, Holds,
       HoldsCommitted, HasReservation
  <1> QED BY <1>1, <1>2, <1>3, <1>4, <1>5, <1>6 DEF SagaInv

(* HandleMarkPaid preserves the invariant. *)
LEMMA HandleMarkPaidStep ==
    ASSUME SagaInv, NEW d \in Dispatchers, HandleMarkPaid(d)
    PROVE  SagaInv'
  <1> USE DEF HandleMarkPaid, Goto
  <1>0. /\ current[d][1] \in Orders
        /\ paymentStatus[current[d][1]] = "PAID"
        /\ BusinessType = "RETAIL"
    BY SettlingHandler DEF SagaInv, DispatchInv
  <1>1. StockTypeOK' /\ OneLiveReservation'
    BY DEF SagaInv, TypeOK, StockTypeOK, OneLiveReservation, DispatchInv
  <1>2. TypeOK'
    <2>1. pc' \in [Dispatchers -> HandlerStep]
      BY DEF SagaInv, TypeOK
    <2>2. status' \in [Orders -> OrderStatus]
      BY DEF SagaInv, TypeOK
    <2> QED
      BY <1>1, <2>1, <2>2 DEF SagaInv, TypeOK, StockTypeOK
  <1>3. PaymentInv'
    BY <1>2 DEF SagaInv, TypeOK, PaymentInv, DispatchInv
  <1>4. DispatchInv'
    BY <1>2 DEF SagaInv, TypeOK, DispatchInv
  <1>5. FulfilmentInv'
    <2>1. /\ mode' = mode /\ paymentStatus' = paymentStatus
          /\ released' = released /\ committed' = committed /\ sold' = sold
      OBVIOUS
    <2>2. \A q \in Orders : status'[q] = status[q] \/ (q = current[d][1] /\ status'[q] = "PAID")
      BY DEF SagaInv, TypeOK
    <2> QED
      BY <1>0, <2>1, <2>2 DEF SagaInv, FulfilmentInv, Consumed
  <1>6. UnexpiredInv'
    <2>1. \A q \in Orders :
            \/ status'[q] = status[q]
            \/ /\ q = current[d][1] /\ status'[q] = "PAID"
               /\ status[q] \in {"PENDING", "IN_PROGRESS", "READY"}
      BY DEF SagaInv, TypeOK
    <2>2. \A e \in Dispatchers : pc'[e] = pc[e] \/ pc'[e] \in {"fulfill", "fail"}
      BY DEF SagaInv, TypeOK
    <2>3. /\ committed' = committed /\ sold' = sold /\ active' = active
          /\ released' = released /\ opening' = opening
          /\ current' = current /\ expiries' = expiries
      OBVIOUS
    <2>4. \A e \in Dispatchers :
            pc[e] \in {"kitchen", "commit", "read", "markPaid"} =>
                current[e][1] \in Orders
      BY SettlingHandler
    <2>5. expiries = 0 => HoldsCommitted(current[d][1])
      BY DEF SagaInv, UnexpiredInv
    <2> QED
      BY <1>0, <2>1, <2>2, <2>3, <2>4, <2>5
      DEF SagaInv, UnexpiredInv, Holds, HoldsCommitted, HasReservation
  <1> QED BY <1>1, <1>2, <1>3, <1>4, <1>5, <1>6 DEF SagaInv

(* HandleFulfill preserves the invariant. *)
LEMMA HandleFulfillStep ==
    ASSUME SagaInv, NEW d \in Dispatchers, HandleFulfill(d)
    PROVE  SagaInv'
  <1> USE DEF HandleFulfill, Goto
  <1>1. StockTypeOK' /\ OneLiveReservation'
    <2> DEFINE o == current[d][1]
    <2>1. o \in Orders /\ Need[o] \in Nat
      BY SettlingHandler, SagaConstants
    <2>2. \/ UNCHANGED stockVars
          \/ /\ stock >= Need[o] /\ stock' = stock - Need[o]
             /\ sold' = [sold EXCEPT ![o] = @ + 1]
             /\ UNCHANGED <<active, committed, aged>>
      OBVIOUS
    <2> HIDE DEF o
    <2> QED
      BY <2>1, <2>2 DEF SagaInv, TypeOK, StockTypeOK, OneLiveReservation,
                        stockVars
  <1>2. TypeOK'
    BY <1>1 DEF SagaInv, TypeOK, StockTypeOK, DispatchInv
  <1>3. PaymentInv'
    BY <1>2 DEF SagaInv, TypeOK, PaymentInv, DispatchInv
  <1>4. DispatchInv'
    BY <1>2 DEF SagaInv, TypeOK, DispatchInv
  <1>5. FulfilmentInv'
    BY <1>1, <1>2 DEF SagaInv, TypeOK, StockTypeOK, PaymentInv,
       FulfilmentInv, Consumed, DispatchInv
  <1>6. UnexpiredInv'
    <2> SUFFICES ASSUME expiries = 0 PROVE UnexpiredInv'
      BY DEF UnexpiredInv
    <2>1. /\ \A q \in Orders : sold[q] = 0 /\ (status[q] = "PAID" => committed[q] > 0)
          /\ current[d][1] \in Orders
      BY SettlingHandler DEF SagaInv, UnexpiredInv
    <2>2. UNCHANGED stockVars
      BY <2>1 DEF SagaInv, TypeOK
    <2>3. \A q \in Orders : status'[q] = status[q]
                             \/ (status[q] = "PAID" /\ status'[q] = "COMPLETED")
      BY <2>1 DEF SagaInv, TypeOK
    <2>4. \A e \in Dispatchers : pc'[e] = pc[e] \/ pc'[e] \in {"ack", "fail"}
      BY DEF SagaInv, TypeOK
    <2>5. \A e \in Dispatchers :
            pc[e] \in {"kitchen", "commit", "read", "markPaid"} =>
                current[e][1] \in Orders
      BY SettlingHandler
    <2> QED
      BY <2>2, <2>3, <2>4, <2>5
      DEF SagaInv, UnexpiredInv, Holds, HoldsCommitted, HasReservation
  <1> QED BY <1>1, <1>2, <1>3, <1>4, <1>5, <1>6 DEF SagaInv

(* MarkProcessed preserves the invariant. *)
LEMMA MarkProcessedStep ==
    ASSUME SagaInv, NEW d \in Dispatchers, MarkProcessed(d)
    PROVE  SagaInv'
  <1> USE DEF MarkProcessed, Mark
  <1>1. StockTypeOK' /\ OneLiveReservation'
    BY DEF SagaInv, TypeOK, StockTypeOK, OneLiveReservation, DispatchInv
  <1>2. TypeOK'
    BY <1>1 DEF SagaInv, TypeOK, StockTypeOK, DispatchInv
  <1>3. PaymentInv'
    BY <1>2 DEF SagaInv, TypeOK, PaymentInv, DispatchInv
  <1>4. DispatchInv'
    BY <1>2 DEF SagaInv, TypeOK, DispatchInv
  <1>5. FulfilmentInv'
    BY <1>1, <1>2 DEF SagaInv, TypeOK, StockTypeOK, PaymentInv,
       FulfilmentInv, Consumed, DispatchInv
  <1>6. UnexpiredInv'
    BY <1>1, <1>2 DEF SagaInv, TypeOK, StockTypeOK, OneLiveReservation,
       PaymentInv, DispatchInv, FulfilmentInv, UnexpiredInv, Holds,
       HoldsCommitted, HasReservation
  <1> QED BY <1>1, <1>2, <1>3, <1>4, <1>5, <1>6 DEF SagaInv

(* MarkFailed preserves the invariant. *)
LEMMA MarkFailedStep ==
    ASSUME SagaInv, NEW d \in Dispatchers, MarkFailed(d)
    PROVE  SagaInv'
  <1> USE DEF MarkFailed, Mark
  <1>1. StockTypeOK' /\ OneLiveReservation'
    BY DEF SagaInv, TypeOK, StockTypeOK, OneLiveReservation, DispatchInv
  <1>2. TypeOK'
    BY <1>1 DEF SagaInv, TypeOK, StockTypeOK, DispatchInv
  <1>3. PaymentInv'
    BY <1>2 DEF SagaInv, TypeOK, PaymentInv, DispatchInv
  <1>4. DispatchInv'
    BY <1>2 DEF SagaInv, TypeOK, DispatchInv
  <1>5. FulfilmentInv'
    BY <1>1, <1>2 DEF SagaInv, TypeOK, StockTypeOK, PaymentInv,
       FulfilmentInv, Consumed, DispatchInv
  <1>6. UnexpiredInv'
    BY <1>1, <1>2 DEF SagaInv, TypeOK, StockTypeOK, OneLiveReservation,
       PaymentInv, DispatchInv, FulfilmentInv, UnexpiredInv, Holds,
       HoldsCommitted, HasReservation
  <1> QED BY <1>1, <1>2, <1>3, <1>4, <1>5, <1>6 DEF SagaInv

(* StartCooking preserves the invariant. *)
LEMMA StartCookingStep ==
    ASSUME SagaInv, NEW o \in Orders, StartCooking(o)
    PROVE  SagaInv'
  <1> USE DEF StartCooking, KitchenMove, commitReservation
  <1>1. StockTypeOK' /\ OneLiveReservation'
    BY CommitEffect DEF SagaInv, TypeOK, StockTypeOK, OneLiveReservation
  <1>2. TypeOK'
    BY <1>1 DEF SagaInv, TypeOK, StockTypeOK
  <1>3. PaymentInv'
    BY <1>2 DEF SagaInv, TypeOK, PaymentInv
  <1>4. DispatchInv'
    BY <1>2 DEF SagaInv, TypeOK, DispatchInv
  <1>5. FulfilmentInv'
    BY <1>1, <1>2 DEF SagaInv, TypeOK, StockTypeOK, PaymentInv,
       FulfilmentInv, Consumed
  <1>6. UnexpiredInv'
    BY <1>1, <1>2, CommitEffect DEF SagaInv, TypeOK, StockTypeOK,
       OneLiveReservation, PaymentInv, DispatchInv, FulfilmentInv,
       UnexpiredInv, Holds, HoldsCommitted, HasReservation
  <1> QED BY <1>1, <1>2, <1>3, <1>4, <1>5, <1>6 DEF SagaInv

(* MarkReady preserves the invariant. *)
LEMMA MarkReadyStep ==
    ASSUME SagaInv, NEW o \in Orders, MarkReady(o)
    PROVE  SagaInv'
  <1> USE DEF MarkReady, KitchenMove
  <1>1. StockTypeOK' /\ OneLiveReservation'
    BY DEF SagaInv, TypeOK, StockTypeOK, OneLiveReservation, DispatchInv
  <1>2. TypeOK'
    BY <1>1 DEF SagaInv, TypeOK, StockTypeOK, DispatchInv
  <1>3. PaymentInv'
    BY <1>2 DEF SagaInv, TypeOK, PaymentInv, DispatchInv
  <1>4. DispatchInv'
    BY <1>2 DEF SagaInv, TypeOK, DispatchInv
  <1>5. FulfilmentInv'
    BY <1>1, <1>2 DEF SagaInv, TypeOK, StockTypeOK, PaymentInv,
       FulfilmentInv, Consumed, DispatchInv
  <1>6. UnexpiredInv'
    BY <1>1, <1>2 DEF SagaInv, TypeOK, StockTypeOK, OneLiveReservation,
       PaymentInv, DispatchInv, FulfilmentInv, UnexpiredInv, Holds,
       HoldsCommitted, HasReservation
  <1> QED BY <1>1, <1>2, <1>3, <1>4, <1>5, <1>6 DEF SagaInv

(* MarkServed preserves the invariant. *)
LEMMA MarkServedStep ==
    ASSUME SagaInv, NEW o \in Orders, MarkServed(o)
    PROVE  SagaInv'
  <1> USE DEF MarkServed, KitchenMove
  <1>1. StockTypeOK' /\ OneLiveReservation'
    BY DEF SagaInv, TypeOK, StockTypeOK, OneLiveReservation, DispatchInv
  <1>2. TypeOK'
    BY <1>1 DEF SagaInv, TypeOK, StockTypeOK, DispatchInv
  <1>3. PaymentInv'
    BY <1>2 DEF SagaInv, TypeOK, PaymentInv, DispatchInv
  <1>4. DispatchInv'
    BY <1>2 DEF SagaInv, TypeOK, DispatchInv
  <1>5. FulfilmentInv'
    BY <1>1, <1>2 DEF SagaInv, TypeOK, StockTypeOK, PaymentInv,
       FulfilmentInv, Consumed, DispatchInv
  <1>6. UnexpiredInv'
    BY <1>1, <1>2 DEF SagaInv, TypeOK, StockTypeOK, OneLiveReservation,
       PaymentInv, DispatchInv, FulfilmentInv, UnexpiredInv, Holds,
       HoldsCommitted, HasReservation
  <1> QED BY <1>1, <1>2, <1>3, <1>4, <1>5, <1>6 DEF SagaInv

(* KitchenCancel preserves the invariant. *)
LEMMA KitchenCancelStep ==
    ASSUME SagaInv, NEW o \in Orders, KitchenCancel(o)
    PROVE  SagaInv'
  <1> USE DEF KitchenCancel, KitchenMove, releaseReservation
  <1>1. StockTypeOK' /\ OneLiveReservation'
    BY ReleaseEffect DEF SagaInv, TypeOK, StockTypeOK, OneLiveReservation
  <1>2. TypeOK'
    BY <1>1 DEF SagaInv, TypeOK, StockTypeOK
  <1>3. PaymentInv'
    BY <1>2 DEF SagaInv, TypeOK, PaymentInv
  <1>4. DispatchInv'
    BY <1>2 DEF SagaInv, TypeOK, DispatchInv
  <1>5. FulfilmentInv'
    BY <1>1, <1>2 DEF SagaInv, TypeOK, StockTypeOK, PaymentInv,
       FulfilmentInv, Consumed
  <1>6. UnexpiredInv'
    BY <1>1, <1>2, ReleaseEffect DEF SagaInv, TypeOK, StockTypeOK,
       OneLiveReservation, PaymentInv, DispatchInv, FulfilmentInv,
       UnexpiredInv, Holds, HoldsCommitted, HasReservation
  <1> QED BY <1>1, <1>2, <1>3, <1>4, <1>5, <1>6 DEF SagaInv

(* Recall preserves the invariant. *)
LEMMA RecallStep ==
    ASSUME SagaInv, NEW o \in Orders, Recall(o)
    PROVE  SagaInv'
  <1> USE DEF Recall, KitchenMove
  <1>1. StockTypeOK' /\ OneLiveReservation'
    BY DEF SagaInv, TypeOK, StockTypeOK, OneLiveReservation
  <1>2. TypeOK'
    BY <1>1 DEF SagaInv, TypeOK, StockTypeOK
  <1>3. PaymentInv'
    BY <1>2 DEF SagaInv, TypeOK, PaymentInv
  <1>4. DispatchInv'
    BY <1>2 DEF SagaInv, TypeOK, DispatchInv
  <1>5. FulfilmentInv'
    BY <1>1, <1>2 DEF SagaInv, TypeOK, StockTypeOK, PaymentInv,
       FulfilmentInv, Consumed
  <1>6. UnexpiredInv'
    BY <1>1, <1>2 DEF SagaInv, TypeOK, StockTypeOK, OneLiveReservation,
       PaymentInv, DispatchInv, FulfilmentInv, UnexpiredInv, Holds,
       HoldsCommitted, HasReservation
  <1> QED BY <1>1, <1>2, <1>3, <1>4, <1>5, <1>6 DEF SagaInv

(* Age preserves the invariant. *)
LEMMA AgeStep ==
    ASSUME SagaInv, NEW o \in Orders, Age(o)
    PROVE  SagaInv'
  <1> USE DEF Age
  <1>1. StockTypeOK' /\ OneLiveReservation'
    BY DEF SagaInv, TypeOK, StockTypeOK, OneLiveReservation
  <1>2. TypeOK'
    BY <1>1 DEF SagaInv, TypeOK, StockTypeOK
  <1>3. PaymentInv'
    BY <1>2 DEF SagaInv, TypeOK, PaymentInv
  <1>4. DispatchInv'
    BY <1>2 DEF SagaInv, TypeOK, DispatchInv
  <1>5. FulfilmentInv'
    BY <1>1, <1>2 DEF SagaInv, TypeOK, StockTypeOK, PaymentInv,
       FulfilmentInv, Consumed
  <1>6. UnexpiredInv'
    BY <1>1, <1>2 DEF SagaInv, TypeOK, StockTypeOK, OneLiveReservation,
       PaymentInv, DispatchInv, FulfilmentInv, UnexpiredInv, Holds,
       HoldsCommitted, HasReservation
  <1> QED BY <1>1, <1>2, <1>3, <1>4, <1>5, <1>6 DEF SagaInv

(* expireReservations preserves the invariant. *)
LEMMA ExpireReservationsStep ==
    ASSUME SagaInv, NEW o \in Orders, expireReservations(o)
    PROVE  SagaInv'
  <1> USE DEF expireReservations, releaseReservation
  <1>1. StockTypeOK' /\ OneLiveReservation'
    BY ReleaseEffect DEF SagaInv, TypeOK, StockTypeOK, OneLiveReservation
  <1>2. TypeOK'
    BY <1>1 DEF SagaInv, TypeOK, StockTypeOK
  <1>3. PaymentInv'
    BY <1>2 DEF SagaInv, TypeOK, PaymentInv
  <1>4. DispatchInv'
    BY <1>2 DEF SagaInv, TypeOK, DispatchInv
  <1>5. FulfilmentInv'
    BY <1>1, <1>2 DEF SagaInv, TypeOK, StockTypeOK, PaymentInv,
       FulfilmentInv, Consumed
  <1>6. UnexpiredInv'
    BY <1>1, <1>2, ReleaseEffect DEF SagaInv, TypeOK, StockTypeOK,
       OneLiveReservation, PaymentInv, DispatchInv, FulfilmentInv,
       UnexpiredInv, Holds, HoldsCommitted, HasReservation
  <1> QED BY <1>1, <1>2, <1>3, <1>4, <1>5, <1>6 DEF SagaInv

(* CrashDispatcher preserves the invariant. *)
LEMMA CrashDispatcherStep ==
    ASSUME SagaInv, NEW d \in Dispatchers, CrashDispatcher(d)
    PROVE  SagaInv'
  <1> USE DEF CrashDispatcher
  <1>1. StockTypeOK' /\ OneLiveReservation'
    BY DEF SagaInv, TypeOK, StockTypeOK, OneLiveReservation
  <1>2. TypeOK'
    BY <1>1 DEF SagaInv, TypeOK, StockTypeOK
  <1>3. PaymentInv'
    BY <1>2 DEF SagaInv, TypeOK, PaymentInv
  <1>4. DispatchInv'
    BY <1>2 DEF SagaInv, TypeOK, DispatchInv
  <1>5. FulfilmentInv'
    BY <1>1, <1>2 DEF SagaInv, TypeOK, StockTypeOK, PaymentInv,
       FulfilmentInv, Consumed
  <1>6. UnexpiredInv'
    BY <1>1, <1>2 DEF SagaInv, TypeOK, StockTypeOK, OneLiveReservation,
       PaymentInv, DispatchInv, FulfilmentInv, UnexpiredInv, Holds,
       HoldsCommitted, HasReservation
  <1> QED BY <1>1, <1>2, <1>3, <1>4, <1>5, <1>6 DEF SagaInv

(* CrashOpening preserves the invariant. *)
LEMMA CrashOpeningStep ==
    ASSUME SagaInv, NEW o \in Orders, CrashOpening(o)
    PROVE  SagaInv'
  <1> USE DEF CrashOpening
  <1>1. StockTypeOK' /\ OneLiveReservation'
    BY DEF SagaInv, TypeOK, StockTypeOK, OneLiveReservation
  <1>2. TypeOK'
    BY <1>1 DEF SagaInv, TypeOK, StockTypeOK
  <1>3. PaymentInv'
    BY <1>2 DEF SagaInv, TypeOK, PaymentInv
  <1>4. DispatchInv'
    BY <1>2 DEF SagaInv, TypeOK, DispatchInv
  <1>5. FulfilmentInv'
    BY <1>1, <1>2 DEF SagaInv, TypeOK, StockTypeOK, PaymentInv,
       FulfilmentInv, Consumed
  <1>6. UnexpiredInv'
    BY <1>1, <1>2 DEF SagaInv, TypeOK, StockTypeOK, OneLiveReservation,
       PaymentInv, DispatchInv, FulfilmentInv, UnexpiredInv, Holds,
       HoldsCommitted, HasReservation
  <1> QED BY <1>1, <1>2, <1>3, <1>4, <1>5, <1>6 DEF SagaInv

(* CrashPayment preserves the invariant. *)
LEMMA CrashPaymentStep ==
    ASSUME SagaInv, NEW p \in Payments, CrashPayment(p)
    PROVE  SagaInv'
  <1> USE DEF CrashPayment
  <1>1. StockTypeOK' /\ OneLiveReservation'
    BY DEF SagaInv, TypeOK, StockTypeOK, OneLiveReservation
  <1>2. TypeOK'
    BY <1>1 DEF SagaInv, TypeOK, StockTypeOK
  <1>3. PaymentInv'
    BY <1>2 DEF SagaInv, TypeOK, PaymentInv
  <1>4. DispatchInv'
    BY <1>2 DEF SagaInv, TypeOK, DispatchInv
  <1>5. FulfilmentInv'
    BY <1>1, <1>2 DEF SagaInv, TypeOK, StockTypeOK, PaymentInv,
       FulfilmentInv, Consumed
  <1>6. UnexpiredInv'
    BY <1>1, <1>2 DEF SagaInv, TypeOK, StockTypeOK, OneLiveReservation,
       PaymentInv, DispatchInv, FulfilmentInv, UnexpiredInv, Holds,
       HoldsCommitted, HasReservation
  <1> QED BY <1>1, <1>2, <1>3, <1>4, <1>5, <1>6 DEF SagaInv
-----------------------------------------------------------------------------
(* Every step of the system preserves the invariant.                       *)
LEMMA SagaInvNext == SagaInv /\ [Next]_vars => SagaInv'
  <1> SUFFICES ASSUME SagaInv, [Next]_vars PROVE SagaInv'
    OBVIOUS
  <1>1. ASSUME NEW o \in Orders, Endpoint(o) \/ OpenBill(o) PROVE SagaInv'
    BY <1>1, CreateStep, CancelStep, PayStep, OpenReserveStep,
       OpenKitchenStep, OpenCancelStep DEF Endpoint, OpenBill
  <1>2. ASSUME NEW o \in Orders, Kitchen(o) \/ Expiry(o) PROVE SagaInv'
    BY <1>2, StartCookingStep, MarkReadyStep, MarkServedStep,
       KitchenCancelStep, RecallStep, AgeStep, ExpireReservationsStep
       DEF Kitchen, Expiry
  <1>3. ASSUME NEW p \in Payments, PublishPaymentSuccess(p) PROVE SagaInv'
    BY <1>3, PublishPaymentSuccessStep
  <1>4. ASSUME NEW d \in Dispatchers, Dispatch(d) PROVE SagaInv'
    BY <1>4, FetchStep, TakeStep, HandleReserveStep, HandleKitchenStep,
       HandleCommitStep, HandleReadStep, HandleMarkPaidStep,
       HandleFulfillStep, MarkProcessedStep, MarkFailedStep DEF Dispatch
  <1>5. ASSUME Crash PROVE SagaInv'
    BY <1>5, CrashDispatcherStep, CrashOpeningStep, CrashPaymentStep DEF Crash
  <1>6. CASE UNCHANGED vars
    BY <1>6 DEF vars, SagaInv, TypeOK, OneLiveReservation, PaymentInv,
       DispatchInv, FulfilmentInv, UnexpiredInv, Consumed, Holds,
       HoldsCommitted, HasReservation
  <1> QED BY <1>1, <1>2, <1>3, <1>4, <1>5, <1>6 DEF Next

(* The invariant holds in every reachable state.                           *)
THEOREM SagaInvariant == Spec => []SagaInv
  BY SagaInvInit, SagaInvNext, PTL DEF Spec

(***************************************************************************)
(* Every variable of the order saga keeps its type; in particular stock    *)
(* and the counts of movement rows never go below zero.                    *)
(***************************************************************************)
THEOREM TypeCorrect == Spec => []TypeOK
  <1>1. SagaInv => TypeOK
    BY DEF SagaInv
  <1> QED BY <1>1, SagaInvariant, PTL

(***************************************************************************)
(* Retried and concurrent calls of reserveStock never leave an order with  *)
(* two live reservations.                                                  *)
(***************************************************************************)
THEOREM ReservationUnique == Spec => []OneLiveReservation
  <1>1. SagaInv => OneLiveReservation
    BY DEF SagaInv
  <1> QED BY <1>1, SagaInvariant, PTL

(***************************************************************************)
(* No order is marked PAID, no regular order is prepared or completed, and *)
(* no retail order is completed before its full amount was recorded.       *)
(***************************************************************************)
THEOREM PaidBeforeFulfilment == Spec => []FulfilledOnlyWhenPaid
  <1>1. SagaInv => FulfilledOnlyWhenPaid
    BY DEF SagaInv, TypeOK, FulfilmentInv, FulfilledOnlyWhenPaid
  <1> QED BY <1>1, SagaInvariant, PTL

(***************************************************************************)
(* A completed retail order has taken its goods from stock, whatever       *)
(* expired, crashed or was delivered twice on the way.                     *)
(***************************************************************************)
THEOREM RetailConsumes == Spec => []RetailCompletionConsumes
  <1>1. SagaInv => RetailCompletionConsumes
    BY DEF SagaInv, FulfilmentInv, RetailCompletionConsumes
  <1> QED BY <1>1, SagaInvariant, PTL

(***************************************************************************)
(* Until a reservation expires, the goods of an order leave the stock at  *)
(* most once, however often and by however many dispatchers its payment    *)
(* event is handled.                                                       *)
(***************************************************************************)
THEOREM DeductedOnce == Spec => []DeductedOnceUnlessExpired
  <1>1. SagaInv => DeductedOnceUnlessExpired
    <2> SUFFICES ASSUME SagaInv, expiries = 0, NEW o \in Orders
                 PROVE  Consumed(o) <= 1
      BY DEF DeductedOnceUnlessExpired, NoDoubleDeduction
    <2>1. sold[o] = 0
      BY DEF SagaInv, UnexpiredInv
    <2>2. active[o] \in Nat /\ committed[o] \in Nat /\ active[o] + committed[o] <= 1
      BY DEF SagaInv, TypeOK, OneLiveReservation
    <2> QED BY <2>1, <2>2 DEF Consumed
  <1> QED BY <1>1, SagaInvariant, PTL

(***************************************************************************)
(* Until a reservation expires, a cafe order in preparation, ready or     *)
(* served has consumed its ingredients exactly once, recalls included.     *)
(***************************************************************************)
THEOREM PreparationCommits == Spec => []PreparationCommitsUnlessExpired
  <1>1. SagaInv => PreparationCommitsUnlessExpired
    <2> SUFFICES ASSUME SagaInv, expiries = 0, NEW o \in Orders,
                        status[o] \in {"IN_PROGRESS", "READY", "COMPLETED"}
                 PROVE  Consumed(o) = 1
      BY DEF PreparationCommitsUnlessExpired, CafePreparationCommits
    <2>1. sold[o] = 0 /\ committed[o] > 0
      BY DEF SagaInv, UnexpiredInv
    <2>2. active[o] \in Nat /\ committed[o] \in Nat /\ active[o] + committed[o] <= 1
      BY DEF SagaInv, TypeOK, OneLiveReservation
    <2> QED BY <2>1, <2>2 DEF Consumed
  <1> QED BY <1>1, SagaInvariant, PTL
-----------------------------------------------------------------------------
(***************************************************************************)
(* Conservation of stock.  A transaction on the rows of one order moves    *)
(* units between the stock row and that order, so the sum over the orders  *)
(* changes by what the order gains, and the stock row by the opposite.     *)
(***************************************************************************)
Units == [o \in Orders |-> UnitsOf(o)]

(* The units of an order are a number.                                     *)
LEMMA UnitsType ==
    ASSUME StockTypeOK
    PROVE  \A o \in Orders : Units[o] = UnitsOf(o) /\ UnitsOf(o) \in Int
  BY SagaConstants DEF StockTypeOK, Units, UnitsOf, Consumed

(* What one order gains is taken from the stock row.                       *)
LEMMA UnitsMoved ==
    ASSUME StockTypeOK, StockTypeOK', StockConserved, NEW o \in Orders,
           \A q \in Orders : q # o => /\ active'[q] = active[q]
                                      /\ committed'[q] = committed[q]
                                      /\ sold'[q] = sold[q],
           stock' = stock - (UnitsOf(o)' - UnitsOf(o))
    PROVE  StockConserved'
  <1>1. \A q \in Orders : Units[q] = UnitsOf(q) /\ Units[q] \in Int
    BY UnitsType
  <1>2. \A q \in Orders : Units'[q] = UnitsOf(q)' /\ Units'[q] \in Int
    BY SagaConstants DEF StockTypeOK, Units, UnitsOf, Consumed
  <1>3. \A q \in Orders : q # o => Units'[q] = Units[q]
    BY <1>1, <1>2 DEF UnitsOf, Consumed
  <1>4. IsFiniteSet(Orders)
    BY SagaConstants
  <1>5. /\ SumFunctionOnSet(Units', Orders)
             = SumFunctionOnSet(Units, Orders) + (Units'[o] - Units[o])
        /\ SumFunctionOnSet(Units, Orders) \in Int
    BY <1>1, <1>2, <1>3, <1>4, SumUpdate, SumInt
  <1>6. /\ stock + SumFunctionOnSet(Units, Orders) = InitialStock
        /\ StockConserved' <=>
             stock' + SumFunctionOnSet(Units', Orders) = InitialStock
    BY DEF StockConserved, Units
  <1>7. stock \in Int /\ Units[o] \in Int /\ Units'[o] \in Int
    BY <1>1, <1>2 DEF StockTypeOK
  <1> QED BY <1>1, <1>2, <1>5, <1>6, <1>7

(* reserveStock takes Need[o] units for the order, or nothing.             *)
LEMMA ReserveConserves ==
    ASSUME StockTypeOK, StockTypeOK', StockConserved, NEW o \in Orders,
           reserveStock(o)
    PROVE  StockConserved'
  <1>1. CASE HasReservation(o)
    BY <1>1 DEF reserveStock, stockVars, StockConserved, UnitsOf, Consumed
  <1>2. CASE ~HasReservation(o)
    <2>1. /\ active[o] = 0 /\ committed[o] = 0 /\ sold[o] \in Nat
          /\ stock \in Nat /\ Need[o] \in Nat
      BY <1>2, SagaConstants DEF StockTypeOK, HasReservation
    <2>2. /\ stock' = stock - Need[o]
          /\ active' = [active EXCEPT ![o] = 1]
          /\ committed' = committed /\ sold' = sold
      BY <1>2 DEF reserveStock
    <2>3. active'[o] = 1 /\ \A q \in Orders : q # o => active'[q] = active[q]
      BY <2>2 DEF StockTypeOK
    <2>4. Need[o] * (1 + (0 + sold[o])) = Need[o] + Need[o] * (0 + (0 + sold[o]))
      BY <2>1
    <2>5. UnitsOf(o)' = Need[o] + UnitsOf(o)
      BY <2>1, <2>2, <2>3, <2>4 DEF UnitsOf, Consumed
    <2>6. stock' = stock - (UnitsOf(o)' - UnitsOf(o))
      BY <2>1, <2>2, <2>5, UnitsType
    <2> QED BY <2>2, <2>3, <2>6, UnitsMoved
  <1> QED BY <1>1, <1>2

(* releaseReservation gives the units of the active rows back.             *)
LEMMA ReleaseConserves ==
    ASSUME StockTypeOK, StockTypeOK', StockConserved, NEW o \in Orders,
           releaseReservation(o)
    PROVE  StockConserved'
  <1>1. /\ active[o] \in Nat /\ committed[o] \in Nat /\ sold[o] \in Nat
        /\ stock \in Nat /\ Need[o] \in Nat
    BY SagaConstants DEF StockTypeOK
  <1>2. /\ stock' = stock + active[o] * Need[o]
        /\ active' = [active EXCEPT ![o] = 0]
        /\ committed' = committed /\ sold' = sold
    BY DEF releaseReservation
  <1>3. active'[o] = 0 /\ \A q \in Orders : q # o => active'[q] = active[q]
    BY <1>2 DEF StockTypeOK
  <1>4. Need[o] * (active[o] + (committed[o] + sold[o]))
          = active[o] * Need[o] + Need[o] * (0 + (committed[o] + sold[o]))
    BY <1>1
  <1>5. UnitsOf(o) = active[o] * Need[o] + UnitsOf(o)'
    BY <1>2, <1>3, <1>4 DEF UnitsOf, Consumed
  <1>6. active[o] * Need[o] \in Int /\ UnitsOf(o)' \in Int
    BY <1>1, <1>2, <1>3 DEF UnitsOf, Consumed
  <1>7. stock' = stock - (UnitsOf(o)' - UnitsOf(o))
    BY <1>1, <1>2, <1>5, <1>6
  <1> QED BY <1>2, <1>3, <1>7, UnitsMoved

(* commitReservation renames rows of the order.                            *)
LEMMA CommitConserves ==
    ASSUME StockTypeOK, StockTypeOK', StockConserved, NEW o \in Orders,
           commitReservation(o)
    PROVE  StockConserved'
  <1>1. /\ active[o] \in Nat /\ committed[o] \in Nat /\ sold[o] \in Nat
        /\ stock \in Nat /\ Need[o] \in Nat
    BY SagaConstants DEF StockTypeOK
  <1>2. /\ stock' = stock /\ sold' = sold
        /\ active'[o] = 0 /\ committed'[o] = committed[o] + active[o]
        /\ \A q \in Orders : q # o => /\ active'[q] = active[q]
                                      /\ committed'[q] = committed[q]
    BY DEF commitReservation, StockTypeOK
  <1>3. 0 + ((committed[o] + active[o]) + sold[o])
          = active[o] + (committed[o] + sold[o])
    BY <1>1
  <1>4. UnitsOf(o)' = UnitsOf(o)
    BY <1>2, <1>3 DEF UnitsOf, Consumed
  <1>5. stock' = stock - (UnitsOf(o)' - UnitsOf(o))
    BY <1>1, <1>2, <1>4, UnitsType
  <1> QED BY <1>2, <1>5, UnitsMoved

(* fulfillRetail takes Need[o] units for the order when it has none.       *)
LEMMA SaleConserves ==
    ASSUME StockTypeOK, StockTypeOK', StockConserved, NEW o \in Orders,
           stock' = stock - Need[o],
           sold' = [sold EXCEPT ![o] = @ + 1],
           UNCHANGED <<active, committed>>
    PROVE  StockConserved'
  <1>1. /\ active[o] \in Nat /\ committed[o] \in Nat /\ sold[o] \in Nat
        /\ stock \in Nat /\ Need[o] \in Nat
    BY SagaConstants DEF StockTypeOK
  <1>2. /\ sold'[o] = sold[o] + 1
        /\ \A q \in Orders : q # o => sold'[q] = sold[q]
    BY DEF StockTypeOK
  <1> DEFINE rows == active[o] + (committed[o] + sold[o])
  <1>3. rows \in Nat /\ active[o] + (committed[o] + (sold[o] + 1)) = rows + 1
    BY <1>1
  <1>4. UnitsOf(o)' = Need[o] + UnitsOf(o)
    <2>1. UnitsOf(o) = Need[o] * rows /\ UnitsOf(o)' = Need[o] * (rows + 1)
      BY <1>2, <1>3 DEF UnitsOf, Consumed
    <2> HIDE DEF rows
    <2>2. Need[o] * (rows + 1) = Need[o] + Need[o] * rows
      BY <1>1, <1>3
    <2> QED BY <2>1, <2>2
  <1>5. stock' = stock - (UnitsOf(o)' - UnitsOf(o))
    BY <1>1, <1>4, UnitsType
  <1> QED BY <1>2, <1>5, UnitsMoved

(* Steps that leave the rows and the stock row alone.                      *)
LEMMA RestConserves ==
    ASSUME StockConserved, UNCHANGED <<stock, active, committed, sold>>
    PROVE  StockConserved'
  BY DEF StockConserved, UnitsOf, Consumed

(* Every step conserves the stock.                                         *)
LEMMA StockConservedNext ==
    ASSUME SagaInv, SagaInv', StockConserved, [Next]_vars
    PROVE  StockConserved'
  <1>1. StockTypeOK /\ StockTypeOK'
    BY DEF SagaInv, TypeOK, StockTypeOK
  <1>2. ASSUME NEW o \in Orders, Endpoint(o) \/ OpenBill(o)
        PROVE  StockConserved'
    <2>1. CASE UNCHANGED stockVars
      BY <2>1, RestConserves DEF stockVars
    <2>2. CASE reserveStock(o)
      BY <1>1, <2>2, ReserveConserves
    <2>3. CASE releaseReservation(o)
      BY <1>1, <2>3, ReleaseConserves
    <2> QED
      BY <1>2, <2>1, <2>2, <2>3 DEF Endpoint, OpenBill, Create, Cancel, Pay,
         OpenReserve, OpenKitchen, OpenCancel, cancelOrder
  <1>3. ASSUME NEW o \in Orders, Kitchen(o) \/ Expiry(o)
        PROVE  StockConserved'
    <2>1. CASE UNCHANGED <<stock, active, committed, sold>>
      BY <2>1, RestConserves
    <2>2. CASE commitReservation(o)
      BY <1>1, <2>2, CommitConserves
    <2>3. CASE releaseReservation(o)
      BY <1>1, <2>3, ReleaseConserves
    <2> QED
      BY <1>3, <2>1, <2>2, <2>3 DEF Kitchen, Expiry, StartCooking, MarkReady,
         MarkServed, KitchenCancel, Recall, Age, expireReservations, stockVars
  <1>4. ASSUME NEW d \in Dispatchers, Dispatch(d) PROVE StockConserved'
    <2> DEFINE o == current[d][1]
    <2>1. CASE UNCHANGED stockVars
      BY <2>1, RestConserves DEF stockVars
    <2>2. CASE HandleReserve(d) /\ reserveStock(o)
      <3>1. o \in Orders
        BY <2>2, SettlingHandler DEF HandleReserve
      <3> HIDE DEF o
      <3> QED BY <1>1, <2>2, <3>1, ReserveConserves
    <2>3. CASE HandleCommit(d)
      <3>1. o \in Orders /\ commitReservation(o)
        BY <2>3, SettlingHandler DEF HandleCommit
      <3> HIDE DEF o
      <3> QED BY <1>1, <3>1, CommitConserves
    <2>4. CASE HandleFulfill(d) /\ ~UNCHANGED stockVars
      <3>1. /\ o \in Orders
            /\ stock' = stock - Need[o]
            /\ sold' = [sold EXCEPT ![o] = @ + 1]
            /\ UNCHANGED <<active, committed>>
        BY <2>4, SettlingHandler DEF HandleFulfill
      <3> HIDE DEF o
      <3> QED BY <1>1, <3>1, SaleConserves
    <2> QED
      BY <1>4, <2>1, <2>2, <2>3, <2>4 DEF Dispatch, Fetch, Take,
         HandleReserve, HandleKitchen, HandleRead, HandleMarkPaid,
         MarkProcessed, MarkFailed, Mark
  <1>5. ASSUME NEW p \in Payments, PublishPaymentSuccess(p)
        PROVE  StockConserved'
    BY <1>5, RestConserves DEF PublishPaymentSuccess, stockVars
  <1>6. CASE Crash
    BY <1>6, RestConserves DEF Crash, CrashDispatcher, CrashOpening,
                               CrashPayment, stockVars
  <1>7. CASE UNCHANGED vars
    BY <1>7, RestConserves DEF vars, stockVars
  <1> QED BY <1>2, <1>3, <1>4, <1>5, <1>6, <1>7 DEF Next

(***************************************************************************)
(* No unit of stock is lost or created, however many orders reserve,       *)
(* commit, expire, cancel and sell, in whatever order, with whatever need. *)
(***************************************************************************)
THEOREM NoUnitLost == Spec => []StockConserved
  <1>1. Init => StockConserved
    <2> SUFFICES ASSUME Init PROVE StockConserved
      OBVIOUS
    <2>1. \A o \in Orders : Units[o] = 0
      BY SagaConstants DEF Init, Units, UnitsOf, Consumed
    <2>2. SumFunctionOnSet(Units, Orders) = 0
      BY <2>1, SagaConstants, SumZero
    <2> QED BY <2>2, SagaConstants DEF Init, StockConserved, Units
  <1>2. SagaInv /\ SagaInv' /\ StockConserved /\ [Next]_vars => StockConserved'
    BY StockConservedNext
  <1> QED BY <1>1, <1>2, SagaInvariant, PTL DEF Spec
-----------------------------------------------------------------------------
(***************************************************************************)
(* The order saga implements OrderLifecycle: each step either leaves       *)
(* status, mode and payment of every order alone, or is one lifecycle step *)
(* of one order.                                                           *)
(***************************************************************************)
LEMMA LifecycleInit == Init => Lifecycle!Init
  <1> SUFFICES ASSUME Init PROVE Lifecycle!Init
    OBVIOUS
  <1>1. [o \in Orders |-> mode[o] = "REGULAR"] = [o \in Orders |-> TRUE]
    BY DEF Init
  <1>2. [o \in Orders |-> paymentStatus[o] = "PAID"] = [o \in Orders |-> FALSE]
    BY DEF Init
  <1> QED BY <1>1, <1>2 DEF Init, Lifecycle!Init

(* The variables the lifecycle sees.                                       *)
lifecycle == <<status, mode, paymentStatus>>

(* Steps that do not touch them stutter in the lifecycle.                  *)
LEMMA LifecycleStutter ==
    ASSUME UNCHANGED lifecycle
    PROVE  UNCHANGED Lifecycle!lifecycleVars
  BY DEF lifecycle, Lifecycle!lifecycleVars

(* A step that moves one order along an edge is a lifecycle step.          *)
LEMMA LifecycleMove ==
    ASSUME TypeOK, NEW o \in Orders, NEW to \in OrderStatus,
           <<status[o], to>> \in Lifecycle!Edges,
           \/ to = "PAID"
           \/ mode[o] = "REGULAR" /\ to \in {"IN_PROGRESS", "READY", "COMPLETED"}
           => paymentStatus[o] = "PAID",
           status' = [status EXCEPT ![o] = to],
           UNCHANGED <<mode, paymentStatus>>
    PROVE  Lifecycle!Next
  <1>1. to # "NONE"
    BY DEF Lifecycle!Edges
  <1>2. Lifecycle!Move(o, to)
    BY DEF Lifecycle!Move, Lifecycle!NeedsPayment, TypeOK
  <1> QED BY <1>1, <1>2 DEF Lifecycle!Next

(* Every step of the system is a lifecycle step or leaves it alone.        *)
LEMMA LifecycleNext ==
    ASSUME SagaInv, [Next]_vars
    PROVE  [Lifecycle!Next]_(Lifecycle!lifecycleVars)
  <1> USE DEF SagaInv, TypeOK, OrderStatus, Lifecycle!Edges
  <1>1. ASSUME NEW o \in Orders, NEW m \in OrderMode, Create(o, m)
        PROVE  Lifecycle!Next
    <2>1. [q \in Orders |-> mode'[q] = "REGULAR"] =
            [[q \in Orders |-> mode[q] = "REGULAR"] EXCEPT ![o] = (m = "REGULAR")]
      BY <1>1 DEF Create
    <2>2. Lifecycle!Place(o)
      BY <1>1, <2>1 DEF Create, Lifecycle!Place
    <2> QED BY <2>2 DEF Lifecycle!Next
  <1>2. ASSUME NEW o \in Orders, NEW amount \in 1..Total, Pay(o, amount)
        PROVE  [Lifecycle!Next]_(Lifecycle!lifecycleVars)
    <2>1. CASE paymentStatus'[o] = "PAID"
      <3>1. [q \in Orders |-> paymentStatus'[q] = "PAID"] =
              [[q \in Orders |-> paymentStatus[q] = "PAID"] EXCEPT ![o] = TRUE]
        BY <1>2, <2>1 DEF Pay
      <3>2. Lifecycle!Settle(o)
        BY <1>2, <3>1 DEF Pay, Payable, Lifecycle!Settle
      <3> QED BY <3>2 DEF Lifecycle!Next
    <2>2. CASE paymentStatus'[o] # "PAID"
      <3>1. paymentStatus' = paymentStatus
        BY <1>2, <2>2 DEF Pay, Payable
      <3> QED BY <1>2, <3>1, LifecycleStutter DEF Pay, lifecycle
    <2> QED BY <2>1, <2>2
  <1>3. ASSUME NEW o \in Orders, cancelOrder(o), status[o] # "NONE",
               UNCHANGED <<mode, paymentStatus>>
        PROVE  [Lifecycle!Next]_(Lifecycle!lifecycleVars)
    <2>1. CASE status[o] \in {"COMPLETED", "CANCELLED"}
      <3>1. status' = status
        BY <1>3, <2>1 DEF cancelOrder
      <3> QED BY <1>3, <3>1, LifecycleStutter DEF lifecycle
    <2>2. CASE status[o] \notin {"COMPLETED", "CANCELLED"}
      <3>1. status' = [status EXCEPT ![o] = "CANCELLED"]
        BY <1>3, <2>2 DEF cancelOrder
      <3>2. <<status[o], "CANCELLED">> \in Lifecycle!Edges
        BY <1>3, <2>2
      <3> HIDE DEF Lifecycle!Edges
      <3> QED BY <1>3, <3>1, <3>2, LifecycleMove
    <2> QED BY <2>1, <2>2
  <1>4. ASSUME NEW o \in Orders, Cancel(o) \/ OpenCancel(o)
        PROVE  [Lifecycle!Next]_(Lifecycle!lifecycleVars)
    BY <1>3, <1>4 DEF Cancel, OpenCancel, PaymentInv
  <1>5. ASSUME NEW o \in Orders, Kitchen(o)
        PROVE  Lifecycle!Next
    <2>1. mode[o] = "REGULAR" /\ released[o] => paymentStatus[o] = "PAID"
      BY DEF FulfilmentInv
    <2>2. CASE StartCooking(o)
      BY <2>1, <2>2, LifecycleMove DEF StartCooking, KitchenMove
    <2>3. CASE MarkReady(o)
      BY <2>1, <2>3, LifecycleMove DEF MarkReady, KitchenMove
    <2>4. CASE MarkServed(o)
      BY <2>1, <2>4, LifecycleMove DEF MarkServed, KitchenMove
    <2>5. CASE KitchenCancel(o)
      BY <2>1, <2>5, LifecycleMove DEF KitchenCancel, KitchenMove
    <2>6. CASE Recall(o)
      BY <2>1, <2>6, LifecycleMove DEF Recall, KitchenMove
    <2> QED BY <1>5, <2>2, <2>3, <2>4, <2>5, <2>6 DEF Kitchen
  <1>6. ASSUME NEW d \in Dispatchers, HandleMarkPaid(d)
        PROVE  [Lifecycle!Next]_(Lifecycle!lifecycleVars)
    <2> DEFINE o == current[d][1]
    <2>1. /\ o \in Orders /\ paymentStatus[o] = "PAID" /\ BusinessType = "RETAIL"
      BY <1>6, SettlingHandler DEF HandleMarkPaid, DispatchInv
    <2>2. status[o] \notin {"IN_PROGRESS", "READY"}
      BY <2>1 DEF FulfilmentInv
    <2>3. CASE status[o] = "PENDING"
      <3>1. status' = [status EXCEPT ![o] = "PAID"] /\ UNCHANGED <<mode, paymentStatus>>
        BY <1>6, <2>3 DEF HandleMarkPaid
      <3> HIDE DEF o
      <3> QED BY <2>1, <2>3, <3>1, LifecycleMove
    <2>4. CASE status[o] # "PENDING"
      BY <1>6, <2>2, <2>4, LifecycleStutter DEF HandleMarkPaid, lifecycle
    <2> QED BY <2>3, <2>4
  <1>7. ASSUME NEW d \in Dispatchers, HandleFulfill(d)
        PROVE  [Lifecycle!Next]_(Lifecycle!lifecycleVars)
    <2> DEFINE o == current[d][1]
    <2>1. o \in Orders /\ paymentStatus[o] = "PAID"
      BY <1>7, SettlingHandler DEF HandleFulfill
    <2>2. UNCHANGED <<mode, paymentStatus>>
      BY <1>7 DEF HandleFulfill
    <2>3. \/ status' = status
          \/ status[o] = "PAID" /\ status' = [status EXCEPT ![o] = "COMPLETED"]
      BY <1>7 DEF HandleFulfill
    <2> HIDE DEF o
    <2>4. CASE status' = status
      BY <2>2, <2>4, LifecycleStutter DEF lifecycle
    <2>5. CASE status[o] = "PAID" /\ status' = [status EXCEPT ![o] = "COMPLETED"]
      BY <2>1, <2>2, <2>5, LifecycleMove
    <2> QED BY <2>3, <2>4, <2>5
  <1>8. ASSUME NEW o \in Orders, OpenReserve(o) \/ OpenKitchen(o) \/ Expiry(o)
        PROVE  UNCHANGED lifecycle
    BY <1>8 DEF OpenReserve, OpenKitchen, Expiry, Age, expireReservations,
                lifecycle
  <1>9. ASSUME NEW d \in Dispatchers, Dispatch(d), ~HandleMarkPaid(d),
               ~HandleFulfill(d)
        PROVE  UNCHANGED lifecycle
    BY <1>9 DEF Dispatch, Fetch, Take, HandleReserve, HandleKitchen,
                HandleCommit, HandleRead, MarkProcessed, MarkFailed, Mark,
                lifecycle
  <1>10. ASSUME NEW p \in Payments, PublishPaymentSuccess(p)
         PROVE  UNCHANGED lifecycle
    BY <1>10 DEF PublishPaymentSuccess, lifecycle
  <1>11. ASSUME Crash PROVE UNCHANGED lifecycle
    BY <1>11 DEF Crash, CrashDispatcher, CrashOpening, CrashPayment, lifecycle
  <1>12. CASE UNCHANGED vars
    BY <1>12, LifecycleStutter DEF vars, lifecycle
  <1> QED
    BY <1>1, <1>2, <1>4, <1>5, <1>6, <1>7, <1>8, <1>9, <1>10, <1>11, <1>12,
       LifecycleStutter DEF Next, Endpoint, OpenBill

(***************************************************************************)
(* The order saga implements its abstract specification.                   *)
(***************************************************************************)
THEOREM ImplementsLifecycle == Spec => FollowsLifecycle
  <1>1. SagaInv /\ [Next]_vars => [Lifecycle!Next]_(Lifecycle!lifecycleVars)
    BY LifecycleNext
  <1> QED
    BY <1>1, LifecycleInit, SagaInvariant, PTL
    DEF Spec, FollowsLifecycle, Lifecycle!Spec
-----------------------------------------------------------------------------
(***************************************************************************)
(* A payment event is marked PROCESSED only after it had its effect.  The  *)
(* invariant says the same of every dispatcher that is about to mark one;  *)
(* that other processes do not undo the effect in between is what the      *)
(* lifecycle promises: a finished order never moves again.                 *)
(***************************************************************************)
Settling(d) == pc[d] = "ack" /\ current[d][2] = Total
EffectInv ==
    /\ BusinessType # "OTHER" =>
           \A d \in Dispatchers : Settling(d) => Proceeded(current[d][1])
    /\ ProcessedHadEffect

(* A completed or cancelled order stays so.                                *)
LEMMA FinalStays ==
    ASSUME SagaInv, [Next]_vars, NEW o \in Orders,
           status[o] \in {"COMPLETED", "CANCELLED"}
    PROVE  status'[o] = status[o]
  <1>1. status \in [Orders -> OrderStatus]
    BY DEF SagaInv, TypeOK
  <1>2. [Lifecycle!Next]_(Lifecycle!lifecycleVars)
    BY LifecycleNext
  <1>3. CASE UNCHANGED Lifecycle!lifecycleVars
    BY <1>3 DEF Lifecycle!lifecycleVars
  <1>4. CASE Lifecycle!Next
    <2>1. PICK q \in Orders :
            \/ Lifecycle!Place(q) \/ Lifecycle!Settle(q)
            \/ \E to \in OrderStatus : Lifecycle!Move(q, to)
      BY <1>4 DEF Lifecycle!Next
    <2>2. CASE Lifecycle!Place(q)
      BY <1>1, <2>2 DEF Lifecycle!Place
    <2>3. CASE Lifecycle!Settle(q)
      BY <2>3 DEF Lifecycle!Settle
    <2>4. ASSUME NEW to \in OrderStatus, Lifecycle!Move(q, to)
          PROVE  status'[o] = status[o]
      <3>1. status[q] \notin {"COMPLETED", "CANCELLED"}
        BY <2>4 DEF Lifecycle!Move, Lifecycle!Edges
      <3> QED BY <1>1, <2>4, <3>1 DEF Lifecycle!Move
    <2> QED BY <2>1, <2>2, <2>3, <2>4
  <1> QED BY <1>2, <1>3, <1>4

(* Nothing takes an order back from the kitchen.                           *)
LEMMA ReleasedStays ==
    ASSUME SagaInv, [Next]_vars, NEW o \in Orders, released[o]
    PROVE  released'[o]
  <1>1. released \in [Orders -> BOOLEAN]
    BY DEF SagaInv, TypeOK
  <1>2. \/ released' = released
        \/ \E q \in Orders : releaseToKitchen(q)
        \/ \E d \in Dispatchers : HandleKitchen(d)
    BY DEF Next, vars, Endpoint, OpenBill, Kitchen, Expiry, Dispatch, Crash,
           Create, Cancel, Pay, OpenReserve, OpenKitchen, OpenCancel,
           StartCooking, MarkReady, MarkServed, KitchenCancel, Recall,
           KitchenMove, Age, expireReservations, PublishPaymentSuccess, Fetch,
           Take, HandleReserve, HandleCommit, HandleRead, HandleMarkPaid,
           HandleFulfill, MarkProcessed, MarkFailed, Mark, CrashDispatcher,
           CrashOpening, CrashPayment
  <1>3. ASSUME NEW q, releaseToKitchen(q) PROVE released'[o]
    BY <1>1, <1>3 DEF releaseToKitchen
  <1> QED BY <1>2, <1>3 DEF HandleKitchen

(* So what an event did is never undone.                                   *)
LEMMA ProceededStays ==
    ASSUME SagaInv, [Next]_vars, NEW o \in Orders, Proceeded(o)
    PROVE  Proceeded(o)'
  BY FinalStays, ReleasedStays DEF Proceeded

(* A dispatcher comes to the mark of a settling payment only from the      *)
(* kitchen's or the fulfilment's transaction, both of which took effect.   *)
LEMMA SettlingStep ==
    ASSUME SagaInv, [Next]_vars, BusinessType # "OTHER",
           NEW d \in Dispatchers, Settling(d)'
    PROVE  /\ current'[d] = current[d] /\ current[d][1] \in Orders
           /\ Settling(d) \/ Proceeded(current[d][1])'
  <1>1. /\ pc \in [Dispatchers -> HandlerStep]
        /\ current \in [Dispatchers -> Payments \cup {NoPayment}]
        /\ batch \in [Dispatchers -> SUBSET Payments]
        /\ status \in [Orders -> OrderStatus]
        /\ released \in [Orders -> BOOLEAN]
        /\ BusinessType \in {"RETAIL", "CAFE"}
    BY DEF SagaInv, TypeOK
  <1>2. pc'[d] = "ack" /\ current'[d][2] = Total
    BY DEF Settling
  <1>3. CASE pc'[d] = pc[d] /\ current'[d] = current[d]
    <2>1. current[d] \in Payments
      BY <1>2, <1>3 DEF SagaInv, DispatchInv
    <2> QED BY <1>2, <1>3, <2>1 DEF Settling
  <1>4. CASE HandleKitchen(d)
    <2>1. /\ current' = current /\ current[d][1] \in Orders
          /\ paymentStatus[current[d][1]] = "PAID"
          /\ BusinessType = "CAFE"
      BY <1>4, SettlingHandler DEF HandleKitchen, Goto, SagaInv, DispatchInv
    <2>2. PICK o \in Orders : o = current[d][1]
      BY <2>1
    <2>3. status' = status /\ releaseToKitchen(o) /\ paymentStatus[o] = "PAID"
      BY <1>4, <2>1, <2>2 DEF HandleKitchen
    <2>4. released'[o] \/ status'[o] = "CANCELLED"
      BY <1>1, <2>3 DEF releaseToKitchen
    <2> QED BY <2>1, <2>2, <2>4 DEF Proceeded
  <1>5. CASE HandleFulfill(d)
    <2>1. /\ current' = current /\ current[d][1] \in Orders
          /\ BusinessType = "RETAIL"
      BY <1>5, SettlingHandler DEF HandleFulfill, Goto, SagaInv, DispatchInv
    <2>2. PICK o \in Orders : o = current[d][1]
      BY <2>1
    <2>3. status'[o] = "COMPLETED"
      BY <1>1, <1>2, <1>5, <2>2 DEF HandleFulfill, Goto
    <2> QED BY <2>1, <2>2, <2>3 DEF Proceeded
  <1>6. ASSUME NEW e \in Dispatchers, Dispatch(e),
               ~HandleKitchen(d), ~HandleFulfill(d)
        PROVE  pc'[d] = pc[d] /\ current'[d] = current[d]
    <2>1. CASE e # d
      BY <1>1, <1>6, <2>1
      DEF Dispatch, Fetch, Take, Goto, HandleReserve, HandleKitchen,
          HandleCommit, HandleRead, HandleMarkPaid, HandleFulfill,
          MarkProcessed, MarkFailed, Mark
    <2>2. CASE e = d
      <3>1. CASE Fetch(d)
        BY <3>1 DEF Fetch
      <3>2. ASSUME NEW p \in Payments, Take(d, p) PROVE FALSE
        BY <1>1, <1>2, <3>2 DEF Take
      <3>3. CASE HandleReserve(d) \/ HandleCommit(d) \/ HandleRead(d)
                 \/ HandleMarkPaid(d)
        BY <1>1, <1>2, <3>3
        DEF HandleReserve, HandleCommit, HandleRead, HandleMarkPaid, Goto
      <3>4. CASE MarkProcessed(d) \/ MarkFailed(d)
        BY <1>1, <1>2, <3>4 DEF MarkProcessed, MarkFailed, Mark
      <3> QED BY <1>6, <2>2, <3>1, <3>2, <3>3, <3>4 DEF Dispatch
    <2> QED BY <2>1, <2>2
  <1>7. ASSUME ~\E e \in Dispatchers : Dispatch(e)
        PROVE  pc'[d] = pc[d] /\ current'[d] = current[d]
    <2>1. ASSUME NEW e \in Dispatchers, CrashDispatcher(e)
          PROVE  pc'[d] = pc[d] /\ current'[d] = current[d]
      BY <1>1, <1>2, <2>1 DEF CrashDispatcher
    <2>2. CASE \A e \in Dispatchers : ~CrashDispatcher(e)
      BY <1>7, <2>2 DEF Next, vars, Endpoint, OpenBill, Kitchen, Expiry,
         Crash, Create, Cancel, Pay, OpenReserve, OpenKitchen, OpenCancel,
         StartCooking, MarkReady, MarkServed, KitchenCancel, Recall,
         KitchenMove, Age, expireReservations, PublishPaymentSuccess,
         CrashOpening, CrashPayment
    <2> QED BY <2>1, <2>2
  <1> QED BY <1>3, <1>4, <1>5, <1>6, <1>7

(* A row becomes PROCESSED only when its dispatcher marks it.              *)
LEMMA ProcessedStep ==
    ASSUME SagaInv, [Next]_vars, NEW p \in Payments,
           event'[p] = "PROCESSED", event[p] # "PROCESSED"
    PROVE  \E d \in Dispatchers : MarkProcessed(d) /\ current[d] = p
  <1>1. event \in [Payments -> EventState]
    BY DEF SagaInv, TypeOK
  <1>2. ASSUME NEW d \in Dispatchers, MarkProcessed(d)
        PROVE  current[d] = p
    BY <1>1, <1>2 DEF MarkProcessed, Mark
  <1>3. ASSUME NEW o \in Orders, NEW amount \in 1..Total, Pay(o, amount)
        PROVE  FALSE
    BY <1>1, <1>3 DEF Pay
  <1>4. ASSUME NEW q \in Payments, PublishPaymentSuccess(q) \/ CrashPayment(q)
        PROVE  FALSE
    BY <1>1, <1>4 DEF PublishPaymentSuccess, CrashPayment
  <1>5. ASSUME NEW d \in Dispatchers, MarkFailed(d)
        PROVE  FALSE
    BY <1>1, <1>5 DEF MarkFailed, Mark
  <1>6. event' # event
    OBVIOUS
  <1> QED
    BY <1>2, <1>3, <1>4, <1>5, <1>6
    DEF Next, vars, Endpoint, OpenBill, Kitchen, Expiry, Dispatch, Crash,
        Create, Cancel, OpenReserve, OpenKitchen, OpenCancel, StartCooking,
        MarkReady, MarkServed, KitchenCancel, Recall, KitchenMove, Age,
        expireReservations, Fetch, Take, HandleReserve, HandleKitchen,
        HandleCommit, HandleRead, HandleMarkPaid, HandleFulfill,
        CrashDispatcher, CrashOpening

LEMMA EffectInvNext ==
    ASSUME SagaInv, EffectInv, [Next]_vars
    PROVE  EffectInv'
  <1> SUFFICES ASSUME BusinessType # "OTHER" PROVE EffectInv'
    BY DEF EffectInv, ProcessedHadEffect
  <1>1. ASSUME NEW d \in Dispatchers, Settling(d)'
        PROVE  Proceeded(current[d][1])' /\ current'[d] = current[d]
    <2>1. /\ current'[d] = current[d] /\ current[d][1] \in Orders
          /\ Settling(d) \/ Proceeded(current[d][1])'
      BY <1>1, SettlingStep
    <2>2. PICK o \in Orders : o = current[d][1]
      BY <2>1
    <2>3. Settling(d) => Proceeded(o)
      BY <2>2 DEF EffectInv
    <2>4. Proceeded(o) => Proceeded(o)'
      BY ProceededStays
    <2> QED BY <2>1, <2>2, <2>3, <2>4
  <1>2. ASSUME NEW o \in Orders, event'[<<o, Total>>] = "PROCESSED"
        PROVE  Proceeded(o)'
    <2>1. <<o, Total>> \in Payments
      BY SagaConstants
    <2>2. CASE event[<<o, Total>>] = "PROCESSED"
      BY <2>2, ProceededStays DEF EffectInv, ProcessedHadEffect
    <2>3. CASE event[<<o, Total>>] # "PROCESSED"
      <3>1. PICK d \in Dispatchers :
              MarkProcessed(d) /\ current[d] = <<o, Total>>
        BY <1>2, <2>1, <2>3, ProcessedStep
      <3>2. Settling(d) /\ current[d][1] = o
        BY <3>1 DEF MarkProcessed, Mark, Settling
      <3>3. Proceeded(o)
        BY <3>2 DEF EffectInv
      <3> QED BY <3>3, ProceededStays
    <2> QED BY <2>2, <2>3
  <1> QED BY <1>1, <1>2 DEF EffectInv, ProcessedHadEffect

(***************************************************************************)
(* No settling payment is marked PROCESSED without its effect: the retail  *)
(* order is completed, the cafe order with the kitchen or cancelled, for   *)
(* any number of dispatchers, crashes and expiries.                        *)
(***************************************************************************)
THEOREM ProcessedIsHandled == Spec => []ProcessedHadEffect
  <1>1. Init => EffectInv
    BY DEF Init, EffectInv, Settling, ProcessedHadEffect
  <1>2. EffectInv => ProcessedHadEffect
    BY DEF EffectInv
  <1> QED BY <1>1, <1>2, EffectInvNext, SagaInvariant, PTL DEF Spec

(***************************************************************************)
(* A payment that was dealt with moved its order on, and an order that     *)
(* moved on took its goods (retail) or ingredients (cafe, until a          *)
(* reservation expires).                                                   *)
(***************************************************************************)
THEOREM PaidOrdersFulfilled == Spec => []PaidIsFulfilled
  BY ProcessedIsHandled, RetailConsumes, PreparationCommits, PTL
  DEF PaidIsFulfilled
=============================================================================
