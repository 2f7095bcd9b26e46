----------------------------- MODULE OrderSaga -----------------------------
(***************************************************************************)
(* The life of a sales order from POST /orders to fulfilment: the order    *)
(* and payment endpoints, the stock reservation rows, the outbox that      *)
(* carries ORDER_PAYMENT_SUCCESS, the orchestrator that handles it, the    *)
(* kitchen display and the worker that expires old reservations.           *)
(*                                                                         *)
(* Every database transaction is one action; everything that happens       *)
(* between two transactions of one handler can be interleaved with steps   *)
(* of the others.  An order needs Need[o] units of one stocked item; the   *)
(* rows of table InventoryMovement that reference an order are counted by  *)
(* their referenceType:                                                    *)
(*   active    ORDER_RESERVATION                                           *)
(*   committed ORDER_RESERVATION_COMMITTED                                 *)
(*   sold      ORDER  (stock taken directly by the fulfilment transaction) *)
(***************************************************************************)
EXTENDS Naturals, FiniteSets, FiniteSetsExt

CONSTANTS
    Orders,         \* ids of the sales orders of one tenant
    Dispatchers,    \* concurrent runs of OutboxDispatcherService.dispatchBatch
    BusinessType,   \* the tenant's businessType
    Total,          \* totalAmount of every order
    Need,           \* Need[o]: units of the item that order o consumes
    InitialStock,   \* units on hand at the start
    NoPayment,      \* "this dispatcher handles no event"
    MaxCrashes,     \* bound: how often a process dies
    MaxExpiries     \* bound: how often a reservation expires

ASSUME SagaConstants ==
    /\ IsFiniteSet(Orders)
    /\ BusinessType \in {"RETAIL", "CAFE", "OTHER"}
    /\ Total \in Nat \ {0}
    /\ Need \in [Orders -> Nat \ {0}]
    /\ InitialStock \in Nat
    /\ MaxCrashes \in Nat
    /\ MaxExpiries \in Nat
    /\ NoPayment \notin Orders \X (1..Total)

(***************************************************************************)
(* A payment is identified by its order and the paidAmount it leads to, so *)
(* <<o, Total>> is the payment that settles order o.                       *)
(***************************************************************************)
Payments == Orders \X (1..Total)

VARIABLES
    status,         \* SalesOrder.status, "NONE" before the order exists
    mode,           \* SalesOrder.orderMode
    paid,           \* SalesOrder.paidAmount
    paymentStatus,  \* SalesOrder.paymentStatus
    released,       \* SalesOrder.kitchenReleasedAt is not null
    opening,        \* where handleOrderCreated stands for the order
    stock,          \* InventoryStock.quantity of the item
    active, committed, sold,
    aged,           \* the active reservation is older than the cutoff
    event,          \* outbox row of each payment's ORDER_PAYMENT_SUCCESS
    batch,          \* rows a dispatcher has read and not yet handled
    current,        \* the payment whose event a dispatcher is handling
    pc,             \* the next step of that handling
    crashes, expiries

orderVars == <<status, mode, paid, paymentStatus, released, opening>>
stockVars == <<stock, active, committed, sold, aged>>
dispatchVars == <<batch, current, pc>>
bounds == <<crashes, expiries>>
vars == <<orderVars, stockVars, event, dispatchVars, bounds>>

OrderStatus ==
    {"NONE", "PENDING", "IN_PROGRESS", "READY", "PAID", "COMPLETED", "CANCELLED"}
OrderMode == {"REGULAR", "OPEN_BILL"}

(***************************************************************************)
(* RECORDED: the payment is stored and its event is not; the request is    *)
(* between the two.  LOST: the process died there.                         *)
(***************************************************************************)
EventState == {"NONE", "RECORDED", "LOST", "PENDING", "PROCESSED", "FAILED"}
OpeningStep == {"idle", "reserve", "kitchen", "cancel"}
HandlerStep ==
    {"idle", "reserve", "kitchen", "commit", "read", "markPaid", "fulfill",
     "ack", "fail"}

TypeOK ==
    /\ status \in [Orders -> OrderStatus]
    /\ mode \in [Orders -> OrderMode]
    /\ paid \in [Orders -> 0..Total]
    /\ paymentStatus \in [Orders -> {"PENDING", "PAID"}]
    /\ released \in [Orders -> BOOLEAN]
    /\ opening \in [Orders -> OpeningStep]
    /\ stock \in Nat
    /\ active \in [Orders -> Nat]
    /\ committed \in [Orders -> Nat]
    /\ sold \in [Orders -> Nat]
    /\ aged \in [Orders -> BOOLEAN]
    /\ event \in [Payments -> EventState]
    /\ batch \in [Dispatchers -> SUBSET Payments]
    /\ current \in [Dispatchers -> Payments \cup {NoPayment}]
    /\ pc \in [Dispatchers -> HandlerStep]
    /\ crashes \in 0..MaxCrashes
    /\ expiries \in 0..MaxExpiries

Init ==
    /\ status = [o \in Orders |-> "NONE"]
    /\ mode = [o \in Orders |-> "REGULAR"]
    /\ paid = [o \in Orders |-> 0]
    /\ paymentStatus = [o \in Orders |-> "PENDING"]
    /\ released = [o \in Orders |-> FALSE]
    /\ opening = [o \in Orders |-> "idle"]
    /\ stock = InitialStock
    /\ active = [o \in Orders |-> 0]
    /\ committed = [o \in Orders |-> 0]
    /\ sold = [o \in Orders |-> 0]
    /\ aged = [o \in Orders |-> FALSE]
    /\ event = [p \in Payments |-> "NONE"]
    /\ batch = [d \in Dispatchers |-> {}]
    /\ current = [d \in Dispatchers |-> NoPayment]
    /\ pc = [d \in Dispatchers |-> "idle"]
    /\ crashes = 0
    /\ expiries = 0

-----------------------------------------------------------------------------
(***************************************************************************)
(* Transactions on the reservation rows.  They run under row locks or as   *)
(* conditional updates, so each one is a single step.                      *)
(***************************************************************************)

(* Mutant: only an active reservation counts as one.                       *)
HasReservation_activeOnly(o) == active[o] > 0

(* reserveStock: a no-op when the order already has a live reservation.    *)
HasReservation(o) == active[o] + committed[o] > 0
CanReserve(o) == HasReservation(o) \/ stock >= Need[o]

reserveStock(o) ==
    /\ CanReserve(o)
    /\ IF HasReservation(o)
       THEN UNCHANGED stockVars
       ELSE /\ stock' = stock - Need[o]
            /\ active' = [active EXCEPT ![o] = 1]
            /\ aged' = [aged EXCEPT ![o] = FALSE]
            /\ UNCHANGED <<committed, sold>>

(* Mutant: the units go back, the rows are not claimed.                    *)
releaseReservation_unclaimed(o) ==
    /\ stock' = stock + active[o] * Need[o]
    /\ UNCHANGED <<active, committed, sold, aged>>

(* releaseReservation: claim the active rows and give their units back.    *)
releaseReservation(o) ==
    /\ stock' = stock + active[o] * Need[o]
    /\ active' = [active EXCEPT ![o] = 0]
    /\ aged' = [aged EXCEPT ![o] = FALSE]
    /\ UNCHANGED <<committed, sold>>

(* commitReservation: claim the active rows as consumed.                   *)
commitReservation(o) ==
    /\ committed' = [committed EXCEPT ![o] = @ + active[o]]
    /\ active' = [active EXCEPT ![o] = 0]
    /\ aged' = [aged EXCEPT ![o] = FALSE]
    /\ UNCHANGED <<stock, sold>>

(* releaseToKitchen: opens the kitchen ticket unless the order is          *)
(* cancelled, or neither an open bill nor paid.                            *)
releaseToKitchen(o) ==
    released' = [released EXCEPT ![o] =
        @ \/ /\ status[o] # "CANCELLED"
             /\ mode[o] = "OPEN_BILL" \/ paymentStatus[o] = "PAID"]

(* Mutant: a completed order can be cancelled.                             *)
cancelOrder_completed(o) ==
    /\ status' = [status EXCEPT ![o] = "CANCELLED"]
    /\ releaseReservation(o)

(* cancelOrder of the service and its repository: completed orders stay    *)
(* as they are, any other order is cancelled and its reservation released  *)
(* in the same transaction.                                                *)
cancelOrder(o) ==
    IF status[o] = "COMPLETED"
    THEN UNCHANGED <<status, stockVars>>
    ELSE /\ status' = [status EXCEPT ![o] = "CANCELLED"]
         /\ releaseReservation(o)
-----------------------------------------------------------------------------
(***************************************************************************)
(* The order endpoints.  POST /orders runs handleOrderCreated in the same  *)
(* request, which acts on open bills only: reserve, release to the kitchen *)
(* (cafe), and cancel the order when reserving fails.                      *)
(***************************************************************************)
Create(o, m) ==
    /\ status[o] = "NONE"
    /\ status' = [status EXCEPT ![o] = "PENDING"]
    /\ mode' = [mode EXCEPT ![o] = m]
    /\ opening' = [opening EXCEPT ![o] =
                     IF m = "OPEN_BILL" THEN "reserve" ELSE "idle"]
    /\ UNCHANGED <<paid, paymentStatus, released, stockVars, event,
                   dispatchVars, bounds>>

(* Only retail and cafe orders have stock requirements.                    *)
OpenReserve(o) ==
    /\ opening[o] = "reserve"
    /\ IF BusinessType = "OTHER"
       THEN /\ opening' = [opening EXCEPT ![o] = "idle"]
            /\ UNCHANGED stockVars
       ELSE \/ /\ reserveStock(o)
               /\ opening' = [opening EXCEPT ![o] =
                       IF BusinessType = "CAFE" THEN "kitchen" ELSE "idle"]
            \/ /\ ~CanReserve(o)
               /\ opening' = [opening EXCEPT ![o] = "cancel"]
               /\ UNCHANGED stockVars
    /\ UNCHANGED <<status, mode, paid, paymentStatus, released, event,
                   dispatchVars, bounds>>

OpenKitchen(o) ==
    /\ opening[o] = "kitchen"
    /\ releaseToKitchen(o)
    /\ opening' = [opening EXCEPT ![o] = "idle"]
    /\ UNCHANGED <<status, mode, paid, paymentStatus, stockVars, event,
                   dispatchVars, bounds>>

OpenCancel(o) ==
    /\ opening[o] = "cancel"
    /\ cancelOrder(o)
    /\ opening' = [opening EXCEPT ![o] = "idle"]
    /\ UNCHANGED <<mode, paid, paymentStatus, released, event, dispatchVars,
                   bounds>>

(* PATCH /orders/:id/status with CANCELLED, the only status it accepts.    *)
Cancel(o) ==
    /\ status[o] # "NONE"
    /\ cancelOrder(o)
    /\ UNCHANGED <<mode, paid, paymentStatus, released, opening, event,
                   dispatchVars, bounds>>
-----------------------------------------------------------------------------
(***************************************************************************)
(* POST /payments: one transaction locks the order, checks the balance and *)
(* stores the payment; the outbox row is written after it.                 *)
(***************************************************************************)
Payable(o) ==
    /\ status[o] \notin {"NONE", "CANCELLED", "PAID"}
    /\ paymentStatus[o] # "PAID"
    /\ status[o] = "COMPLETED" => mode[o] = "OPEN_BILL"

(* Mutant: an amount above the outstanding balance is accepted.            *)
AmountAccepted_over(o, amount) ==
    /\ amount > 0
    /\ mode[o] = "REGULAR" => amount >= Total - paid[o]

AmountAccepted(o, amount) ==
    /\ amount > 0
    /\ amount <= Total - paid[o]
    /\ mode[o] = "REGULAR" => amount = Total - paid[o]

Pay(o, amount) ==
    /\ Payable(o)
    /\ AmountAccepted(o, amount)
    /\ LET newPaid == paid[o] + amount IN
       /\ paid' = [paid EXCEPT ![o] = newPaid]
       /\ paymentStatus' = [paymentStatus EXCEPT ![o] =
                              IF newPaid >= Total THEN "PAID" ELSE "PENDING"]
       /\ event' = [event EXCEPT ![<<o, newPaid>>] = "RECORDED"]
    /\ UNCHANGED <<status, mode, released, opening, stockVars, dispatchVars,
                   bounds>>

PublishPaymentSuccess(p) ==
    /\ event[p] = "RECORDED"
    /\ event' = [event EXCEPT ![p] = "PENDING"]
    /\ UNCHANGED <<orderVars, stockVars, dispatchVars, bounds>>
-----------------------------------------------------------------------------
(***************************************************************************)
(* dispatchBatch: read the pending rows without claiming them, then hand   *)
(* each to the orchestrator and mark it.  Rows are taken in any order,     *)
(* which includes the oldest-first order of the query.                     *)
(***************************************************************************)
Pending == {p \in Payments : event[p] = "PENDING"}

Fetch(d) ==
    /\ pc[d] = "idle"
    /\ batch[d] = {}
    /\ Pending # {}
    /\ batch' = [batch EXCEPT ![d] = Pending]
    /\ UNCHANGED <<orderVars, stockVars, event, current, pc, bounds>>

(* Mutant: isFullyPaid is not looked at.                                   *)
Take_partial(d, p) ==
    /\ pc[d] = "idle"
    /\ p \in batch[d]
    /\ batch' = [batch EXCEPT ![d] = @ \ {p}]
    /\ current' = [current EXCEPT ![d] = p]
    /\ pc' = [pc EXCEPT ![d] =
                IF BusinessType \in {"RETAIL", "CAFE"} THEN "reserve" ELSE "ack"]
    /\ UNCHANGED <<orderVars, stockVars, event, bounds>>

(* Mutant: isFullyPaid is read the wrong way round.                        *)
Take_inverted(d, p) ==
    /\ pc[d] = "idle"
    /\ p \in batch[d]
    /\ batch' = [batch EXCEPT ![d] = @ \ {p}]
    /\ current' = [current EXCEPT ![d] = p]
    /\ pc' = [pc EXCEPT ![d] =
                IF p[2] # Total /\ BusinessType \in {"RETAIL", "CAFE"}
                THEN "reserve" ELSE "ack"]
    /\ UNCHANGED <<orderVars, stockVars, event, bounds>>

(* handlePaymentSuccess ignores partial payments and businesses that are   *)
(* neither retail nor cafe.                                                *)
Take(d, p) ==
    /\ pc[d] = "idle"
    /\ p \in batch[d]
    /\ batch' = [batch EXCEPT ![d] = @ \ {p}]
    /\ current' = [current EXCEPT ![d] = p]
    /\ pc' = [pc EXCEPT ![d] =
                IF p[2] = Total /\ BusinessType \in {"RETAIL", "CAFE"}
                THEN "reserve" ELSE "ack"]
    /\ UNCHANGED <<orderVars, stockVars, event, bounds>>

Goto(d, step) ==
    /\ pc' = [pc EXCEPT ![d] = step]
    /\ UNCHANGED <<batch, current>>

(* Mutant: an order that cannot be reserved is passed over.                *)
HandleReserve_passedOver(d) ==
    /\ pc[d] = "reserve"
    /\ LET o == current[d][1] IN
       \/ /\ reserveStock(o)
          /\ Goto(d, IF BusinessType = "CAFE" THEN "kitchen" ELSE "commit")
       \/ /\ ~CanReserve(o)
          /\ Goto(d, "ack")
          /\ UNCHANGED stockVars
    /\ UNCHANGED <<orderVars, event, bounds>>

HandleReserve(d) ==
    /\ pc[d] = "reserve"
    /\ LET o == current[d][1] IN
       \/ /\ reserveStock(o)
          /\ Goto(d, IF BusinessType = "CAFE" THEN "kitchen" ELSE "commit")
       \/ /\ ~CanReserve(o)
          /\ Goto(d, "fail")
          /\ UNCHANGED stockVars
    /\ UNCHANGED <<orderVars, event, bounds>>

HandleKitchen(d) ==
    /\ pc[d] = "kitchen"
    /\ releaseToKitchen(current[d][1])
    /\ Goto(d, "ack")
    /\ UNCHANGED <<status, mode, paid, paymentStatus, opening, stockVars,
                   event, bounds>>

HandleCommit(d) ==
    /\ pc[d] = "commit"
    /\ commitReservation(current[d][1])
    /\ Goto(d, "read")
    /\ UNCHANGED <<orderVars, event, bounds>>

HandleRead(d) ==
    /\ pc[d] = "read"
    /\ Goto(d, IF status[current[d][1]] = "COMPLETED"
               THEN "fulfill" ELSE "markPaid")
    /\ UNCHANGED <<orderVars, stockVars, event, bounds>>

(* Mutant: markPaid returns without an error when the order is not open.   *)
HandleMarkPaid_silent(d) ==
    /\ pc[d] = "markPaid"
    /\ LET o == current[d][1] IN
       IF status[o] \in {"PENDING", "IN_PROGRESS", "READY"}
       THEN /\ status' = [status EXCEPT ![o] = "PAID"]
            /\ Goto(d, "fulfill")
       ELSE /\ Goto(d, "ack")
            /\ UNCHANGED status
    /\ UNCHANGED <<mode, paid, paymentStatus, released, opening, stockVars,
                   event, bounds>>

(* markPaid rejects every order that is not open, a PAID one included.     *)
HandleMarkPaid(d) ==
    /\ pc[d] = "markPaid"
    /\ LET o == current[d][1] IN
       IF status[o] \in {"PENDING", "IN_PROGRESS", "READY"}
       THEN /\ status' = [status EXCEPT ![o] = "PAID"]
            /\ Goto(d, "fulfill")
       ELSE /\ Goto(d, "fail")
            /\ UNCHANGED status
    /\ UNCHANGED <<mode, paid, paymentStatus, released, opening, stockVars,
                   event, bounds>>

(* Mutant: fulfilment relies on a reservation that may have expired.       *)
HandleFulfill_noDeduction(d) ==
    /\ pc[d] = "fulfill"
    /\ LET o == current[d][1] IN
       IF status[o] \in {"PAID", "COMPLETED"}
       THEN /\ status' = [status EXCEPT ![o] = "COMPLETED"]
            /\ Goto(d, "ack")
       ELSE /\ Goto(d, "fail")
            /\ UNCHANGED status
    /\ UNCHANGED <<mode, paid, paymentStatus, released, opening, stockVars,
                   event, bounds>>

(* Mutant: the committed reservation is not looked for.                    *)
HandleFulfill_always(d) ==
    /\ pc[d] = "fulfill"
    /\ LET o == current[d][1] IN
       IF status[o] = "PAID" /\ stock >= Need[o]
       THEN /\ stock' = stock - Need[o]
            /\ sold' = [sold EXCEPT ![o] = @ + 1]
            /\ status' = [status EXCEPT ![o] = "COMPLETED"]
            /\ Goto(d, "ack")
       ELSE /\ Goto(d, IF status[o] = "COMPLETED" THEN "ack" ELSE "fail")
            /\ UNCHANGED <<status, stock, sold>>
    /\ UNCHANGED <<mode, paid, paymentStatus, released, opening, active,
                   committed, aged, event, bounds>>

(* fulfillRetail, one serializable transaction: a completed order is left  *)
(* alone, an order that is not PAID is an error; stock is taken directly   *)
(* when no reservation was committed.                                      *)
HandleFulfill(d) ==
    /\ pc[d] = "fulfill"
    /\ LET o == current[d][1] IN
       \/ /\ status[o] = "COMPLETED"
          /\ Goto(d, "ack")
          /\ UNCHANGED <<status, stockVars>>
       \/ /\ status[o] = "PAID"
          /\ committed[o] > 0
          /\ status' = [status EXCEPT ![o] = "COMPLETED"]
          /\ Goto(d, "ack")
          /\ UNCHANGED stockVars
       \/ /\ status[o] = "PAID"
          /\ committed[o] = 0
          /\ stock >= Need[o]
          /\ stock' = stock - Need[o]
          /\ sold' = [sold EXCEPT ![o] = @ + 1]
          /\ status' = [status EXCEPT ![o] = "COMPLETED"]
          /\ Goto(d, "ack")
          /\ UNCHANGED <<active, committed, aged>>
       \/ /\ \/ status[o] \notin {"COMPLETED", "PAID"}
             \/ status[o] = "PAID" /\ committed[o] = 0 /\ stock < Need[o]
          /\ Goto(d, "fail")
          /\ UNCHANGED <<status, stockVars>>
    /\ UNCHANGED <<mode, paid, paymentStatus, released, opening, event, bounds>>

(* The row is marked by its id, whatever its status has become.            *)
Mark(d, step, mark) ==
    /\ pc[d] = step
    /\ event' = [event EXCEPT ![current[d]] = mark]
    /\ current' = [current EXCEPT ![d] = NoPayment]
    /\ pc' = [pc EXCEPT ![d] = "idle"]
    /\ UNCHANGED <<orderVars, stockVars, batch, bounds>>

MarkProcessed(d) == Mark(d, "ack", "PROCESSED")
MarkFailed(d) == Mark(d, "fail", "FAILED")
-----------------------------------------------------------------------------
KitchenMove(o, from, to) ==
    /\ released[o]
    /\ status[o] \in from
    /\ status' = [status EXCEPT ![o] = to]
    /\ UNCHANGED <<mode, paid, paymentStatus, released, opening, event,
                   dispatchVars, bounds>>

StartCooking(o) ==
    /\ KitchenMove(o, {"PENDING"}, "IN_PROGRESS")
    /\ commitReservation(o)

MarkReady(o) ==
    /\ KitchenMove(o, {"IN_PROGRESS"}, "READY")
    /\ UNCHANGED stockVars

MarkServed(o) ==
    /\ KitchenMove(o, {"READY"}, "COMPLETED")
    /\ UNCHANGED stockVars

KitchenCancel(o) ==
    /\ KitchenMove(o, {"PENDING", "IN_PROGRESS"}, "CANCELLED")
    /\ releaseReservation(o)

(* Mutant: a recall gives the ingredients back as if nothing was cooked.   *)
Recall_restock(o) ==
    /\ KitchenMove(o, {"IN_PROGRESS", "READY"}, "PENDING")
    /\ stock' = stock + committed[o] * Need[o]
    /\ committed' = [committed EXCEPT ![o] = 0]
    /\ UNCHANGED <<active, sold, aged>>

Recall(o) ==
    /\ KitchenMove(o, {"IN_PROGRESS", "READY"}, "PENDING")
    /\ UNCHANGED stockVars
-----------------------------------------------------------------------------
(***************************************************************************)
(* Time: a reservation passes the cutoff of 24 hours only while no handler *)
(* is busy with its order (a handler is far shorter than the cutoff).  The *)
(* worker expires every reservation past the cutoff; the reservations of   *)
(* different orders are independent, so it takes them one at a time.       *)
(***************************************************************************)
Age(o) ==
    /\ active[o] > 0
    /\ ~aged[o]
    /\ expiries < MaxExpiries
    /\ opening[o] = "idle"
    /\ \A d \in Dispatchers, k \in 1..Total : current[d] # <<o, k>>
    /\ aged' = [aged EXCEPT ![o] = TRUE]
    /\ UNCHANGED <<orderVars, stock, active, committed, sold, event,
                   dispatchVars, bounds>>

expireReservations(o) ==
    /\ aged[o]
    /\ active[o] > 0
    /\ expiries < MaxExpiries
    /\ expiries' = expiries + 1
    /\ releaseReservation(o)
    /\ UNCHANGED <<orderVars, event, dispatchVars, crashes>>

(* A process dies: what it had read is gone, the rows it had not marked    *)
(* stay PENDING, a payment without its outbox row never gets one.          *)
CrashDispatcher(d) ==
    /\ crashes < MaxCrashes
    /\ pc[d] # "idle" \/ batch[d] # {}
    /\ crashes' = crashes + 1
    /\ batch' = [batch EXCEPT ![d] = {}]
    /\ current' = [current EXCEPT ![d] = NoPayment]
    /\ pc' = [pc EXCEPT ![d] = "idle"]
    /\ UNCHANGED <<orderVars, stockVars, event, expiries>>

CrashOpening(o) ==
    /\ crashes < MaxCrashes
    /\ opening[o] # "idle"
    /\ crashes' = crashes + 1
    /\ opening' = [opening EXCEPT ![o] = "idle"]
    /\ UNCHANGED <<status, mode, paid, paymentStatus, released, stockVars,
                   event, dispatchVars, expiries>>

CrashPayment(p) ==
    /\ crashes < MaxCrashes
    /\ event[p] = "RECORDED"
    /\ crashes' = crashes + 1
    /\ event' = [event EXCEPT ![p] = "LOST"]
    /\ UNCHANGED <<orderVars, stockVars, dispatchVars, expiries>>
-----------------------------------------------------------------------------
Endpoint(o) ==
    \/ \E m \in OrderMode : Create(o, m)
    \/ Cancel(o)
    \/ \E amount \in 1..Total : Pay(o, amount)

OpenBill(o) == OpenReserve(o) \/ OpenKitchen(o) \/ OpenCancel(o)

Kitchen(o) ==
    \/ StartCooking(o)
    \/ MarkReady(o)
    \/ MarkServed(o)
    \/ KitchenCancel(o)
    \/ Recall(o)

Dispatch(d) ==
    \/ Fetch(d)
    \/ \E p \in Payments : Take(d, p)
    \/ HandleReserve(d)
    \/ HandleKitchen(d)
    \/ HandleCommit(d)
    \/ HandleRead(d)
    \/ HandleMarkPaid(d)
    \/ HandleFulfill(d)
    \/ MarkProcessed(d)
    \/ MarkFailed(d)

Expiry(o) == Age(o) \/ expireReservations(o)

Crash ==
    \/ \E d \in Dispatchers : CrashDispatcher(d)
    \/ \E o \in Orders : CrashOpening(o)
    \/ \E p \in Payments : CrashPayment(p)

Next ==
    \/ \E o \in Orders : Endpoint(o) \/ OpenBill(o) \/ Kitchen(o) \/ Expiry(o)
    \/ \E p \in Payments : PublishPaymentSuccess(p)
    \/ \E d \in Dispatchers : Dispatch(d)
    \/ Crash

Spec == Init /\ [][Next]_vars

(***************************************************************************)
(* The outbox cron fires every minute and a request that started runs on   *)
(* until it ends or its process dies; nothing else is obliged to happen.   *)
(***************************************************************************)
Fairness ==
    /\ \A d \in Dispatchers : WF_vars(Dispatch(d))
    /\ \A o \in Orders : WF_vars(OpenBill(o))
    /\ \A p \in Payments : WF_vars(PublishPaymentSuccess(p))

FairSpec == Spec /\ Fairness
-----------------------------------------------------------------------------
Consumed(o) == committed[o] + sold[o]
UnitsOf(o) == Need[o] * (active[o] + Consumed(o))

(***************************************************************************)
(* No unit of stock is lost or created: what reserve, release, commit,     *)
(* expiry, cancellation and direct fulfilment move between the stock row   *)
(* and the movement rows of the orders always adds up.                     *)
(***************************************************************************)
StockConserved ==
    stock + SumFunctionOnSet([o \in Orders |-> UnitsOf(o)], Orders) = InitialStock

(***************************************************************************)
(* However often reserveStock is retried or run concurrently, an order     *)
(* holds at most one live reservation.                                     *)
(***************************************************************************)
OneLiveReservation == \A o \in Orders : active[o] + committed[o] <= 1

(***************************************************************************)
(* Regular orders reach the kitchen, and any order is marked PAID, only    *)
(* after the full amount was recorded; a retail order is completed only    *)
(* then, an open bill included.                                            *)
(***************************************************************************)
FulfilledOnlyWhenPaid ==
    \A o \in Orders :
        \/ status[o] = "PAID"
        \/ status[o] = "COMPLETED" /\ BusinessType = "RETAIL"
        \/ /\ mode[o] = "REGULAR"
           /\ released[o] \/ status[o] \in {"IN_PROGRESS", "READY", "COMPLETED"}
        => paymentStatus[o] = "PAID"

(***************************************************************************)
(* A retail order is never completed without taking its goods from stock,  *)
(* even when its reservation expired or was never made.                    *)
(***************************************************************************)
RetailCompletionConsumes ==
    BusinessType = "RETAIL" =>
        \A o \in Orders : status[o] = "COMPLETED" => Consumed(o) >= 1

(***************************************************************************)
(* The goods of an order leave the stock at most once, however often its   *)
(* payment event is delivered.                                             *)
(***************************************************************************)
NoDoubleDeduction == \A o \in Orders : Consumed(o) <= 1

(***************************************************************************)
(* It holds as long as no reservation expired, whatever crashes and        *)
(* overlapping deliveries do.                                              *)
(***************************************************************************)
DeductedOnceUnlessExpired == expiries = 0 => NoDoubleDeduction

(***************************************************************************)
(* An order in preparation, ready or served at a cafe has consumed its     *)
(* ingredients, exactly once over recall and second cooking.               *)
(***************************************************************************)
CafePreparationCommits ==
    BusinessType = "CAFE" =>
        \A o \in Orders :
            status[o] \in {"IN_PROGRESS", "READY", "COMPLETED"} =>
                Consumed(o) = 1

(***************************************************************************)
(* It holds as long as no reservation expired, over any recall and second  *)
(* cooking.                                                                *)
(***************************************************************************)
PreparationCommitsUnlessExpired == expiries = 0 => CafePreparationCommits

(***************************************************************************)
(* A cancelled retail order keeps no goods: neither reserved nor consumed. *)
(***************************************************************************)
CancelledHoldsNoStock ==
    BusinessType = "RETAIL" =>
        \A o \in Orders :
            status[o] = "CANCELLED" => active[o] = 0 /\ Consumed(o) = 0

(***************************************************************************)
(* A settling payment whose event is marked PROCESSED was acted upon, and  *)
(* nothing undoes it: the retail order is completed, the cafe order is     *)
(* with the kitchen unless it was cancelled.  Whatever crashed, was        *)
(* delivered twice or ran out of stock, an order that was paid and got     *)
(* nothing has its event still PENDING, or FAILED for someone to see, or   *)
(* lost before it was written.                                             *)
(***************************************************************************)
Proceeded(o) ==
    IF BusinessType = "RETAIL" THEN status[o] = "COMPLETED"
    ELSE released[o] \/ status[o] = "CANCELLED"

ProcessedHadEffect ==
    BusinessType # "OTHER" =>
        \A o \in Orders : event[<<o, Total>>] = "PROCESSED" => Proceeded(o)

(***************************************************************************)
(* Fulfilment as a whole: a payment that was dealt with moved its order    *)
(* on, and the order that moved on took its goods or ingredients.          *)
(***************************************************************************)
PaidIsFulfilled ==
    /\ ProcessedHadEffect
    /\ RetailCompletionConsumes
    /\ PreparationCommitsUnlessExpired

(***************************************************************************)
(* The life of an order follows OrderLifecycle.                            *)
(***************************************************************************)
Lifecycle ==
    INSTANCE OrderLifecycle WITH
        regular <- [o \in Orders |-> mode[o] = "REGULAR"],
        settled <- [o \in Orders |-> paymentStatus[o] = "PAID"]

FollowsLifecycle == Lifecycle!Spec

(***************************************************************************)
(* Once the event of a settling payment is in the outbox, and stock does   *)
(* not run out, the order is completed (retail) or handed to the kitchen   *)
(* (cafe), unless it is cancelled.                                         *)
(***************************************************************************)
PaidOrderProceeds ==
    \A o \in Orders :
        event[<<o, Total>>] = "PENDING" ~>
            \/ status[o] \in {"COMPLETED", "CANCELLED"}
            \/ released[o]
=============================================================================
