---------------------------- MODULE PurchaseOrder ----------------------------
(***************************************************************************)
(* Purchase orders: PurchaseOrderService and PurchaseOrderRepository.      *)
(*                                                                         *)
(* A receipt and a change of status lock the order row and check it again, *)
(* so each is one step.  The other endpoints read first and write later    *)
(* with no check in between: create counts the orders to make a number,    *)
(* and update and delete look at the status of the order and then write    *)
(* whatever has become of it.  What protects an order from such a late     *)
(* write are the database's own rules: the unique index on the number, and *)
(* the foreign key from a receipt's lines to the order's lines.            *)
(*                                                                         *)
(* An order is identified by the call that inserts it and has one line per *)
(* inventory item, 0 standing for no line.  All orders are of one tenant   *)
(* and numbered in one month.                                              *)
(***************************************************************************)
EXTENDS Naturals, Sequences, FiniteSets, FiniteSetsExt

CONSTANTS
    Calls,          \* calls of create
    Edits,          \* calls of update and of delete
    Items,          \* inventory items
    Bodies,         \* bodies of create and update: units wanted of each item
    Warehouses,
    ReceiptKeys,    \* idempotency keys of receivePurchaseOrder
    MaxUnits,       \* bound: units of one item in the body of a receipt
    NoWarehouse, NoReceipt, NoOrder, NoItems

Quantities == [Items -> Nat]
Nothing == [i \in Items |-> 0]
OptionalWarehouse == Warehouses \cup {NoWarehouse}

ASSUME PurchaseOrderConstants ==
    /\ Bodies \subseteq Quantities
    /\ \A b \in Bodies : \E i \in Items : b[i] > 0
    /\ MaxUnits \in Nat
    /\ IsFiniteSet(Calls) /\ IsFiniteSet(ReceiptKeys)
    /\ NoWarehouse \notin Warehouses
    /\ NoOrder \notin Calls
    /\ NoItems \notin Bodies
    /\ NoReceipt \notin [units : Quantities, warehouse : Warehouses]

VARIABLES
    call,           \* where each call of create stands
    number,         \* the sequence in its poNumber
    edit,           \* where each call of update or delete stands
    target,         \* the order it is about
    seen,           \* totalAmount and warehouseId as update read them
    status,         \* PurchaseOrder.status; "NONE" before, "DELETED" after
    lines,          \* PurchaseOrderItem.quantity
    total,          \* PurchaseOrder.totalAmount: the lines it was summed from
    warehouse,      \* PurchaseOrder.warehouseId
    received,       \* PurchaseOrderItem.receivedQuantity
    receipts,       \* receipts[o][k]: the receipt stored under key k
    stock,          \* InventoryStock.quantity that receipts brought in
    outbox          \* types of the outbox rows written for each order

callVars == <<call, number>>
editVars == <<edit, target, seen>>
contentVars == <<lines, total, warehouse>>
receiptVars == <<received, receipts, stock, outbox>>
purchaseVars == <<callVars, editVars, status, contentVars, receiptVars>>

PurchaseOrderStatus ==
    {"DRAFT", "PENDING", "APPROVED", "REJECTED", "PARTIALLY_RECEIVED",
     "RECEIVED", "COMPLETED", "CANCELLED"}
ReceiptStatuses == {"PARTIALLY_RECEIVED", "RECEIVED"}
Receipts == [units : Quantities, warehouse : Warehouses]

PurchaseTypeOK ==
    /\ call \in [Calls -> {"new", "numbered", "returned", "error"}]
    /\ number \in [Calls -> Nat]
    /\ edit \in [Edits -> {"new", "updating", "deleting", "returned", "error"}]
    /\ target \in [Edits -> Calls \cup {NoOrder}]
    /\ seen \in [Edits -> [total : Quantities, warehouse : OptionalWarehouse]]
    /\ status \in [Calls -> PurchaseOrderStatus \cup {"NONE", "DELETED"}]
    /\ lines \in [Calls -> Quantities]
    /\ total \in [Calls -> Quantities]
    /\ warehouse \in [Calls -> OptionalWarehouse]
    /\ received \in [Calls -> Quantities]
    /\ receipts \in [Calls -> [ReceiptKeys -> Receipts \cup {NoReceipt}]]
    /\ stock \in [Warehouses -> Quantities]
    /\ outbox \in [Calls -> Seq(ReceiptStatuses)]

PurchaseInit ==
    /\ call = [c \in Calls |-> "new"]
    /\ number = [c \in Calls |-> 0]
    /\ edit = [e \in Edits |-> "new"]
    /\ target = [e \in Edits |-> NoOrder]
    /\ seen = [e \in Edits |-> [total |-> Nothing, warehouse |-> NoWarehouse]]
    /\ status = [o \in Calls |-> "NONE"]
    /\ lines = [o \in Calls |-> Nothing]
    /\ total = [o \in Calls |-> Nothing]
    /\ warehouse = [o \in Calls |-> NoWarehouse]
    /\ received = [o \in Calls |-> Nothing]
    /\ receipts = [o \in Calls |-> [k \in ReceiptKeys |-> NoReceipt]]
    /\ stock = [w \in Warehouses |-> Nothing]
    /\ outbox = [o \in Calls |-> <<>>]

(* The rows of the table, and the receipts of one of them.                 *)
Orders == {o \in Calls : status[o] \in PurchaseOrderStatus}
ReceiptsOf(o) == {k \in ReceiptKeys : receipts[o][k] # NoReceipt}
-----------------------------------------------------------------------------
(***************************************************************************)
(* create.  The event it publishes at the end is only audited and notified.*)
(***************************************************************************)

(* Validation of the body, then generatePoNumber.                          *)
generatePoNumber(c) ==
    /\ call[c] = "new"
    /\ call' = [call EXCEPT ![c] = "numbered"]
    /\ number' = [number EXCEPT ![c] = Cardinality(Orders) + 1]
    /\ UNCHANGED <<editVars, status, contentVars, receiptVars>>

NumberTaken(n) == \E o \in Orders : number[o] = n

InsertOrder(c, b, w) ==
    /\ call' = [call EXCEPT ![c] = "returned"]
    /\ status' = [status EXCEPT ![c] = "DRAFT"]
    /\ lines' = [lines EXCEPT ![c] = b]
    /\ total' = [total EXCEPT ![c] = b]
    /\ warehouse' = [warehouse EXCEPT ![c] = w]
    /\ UNCHANGED <<number, editVars, receiptVars>>

(* The unique index (tenantId, poNumber) lets one order per number in.     *)
createPurchaseOrder(c, b, w) ==
    /\ call[c] = "numbered"
    /\ ~NumberTaken(number[c])
    /\ InsertOrder(c, b, w)

(* The number is taken (P2002), a supplier, warehouse, item or currency is *)
(* missing, or the process dies.                                           *)
CreateFails(c) ==
    /\ call[c] \in {"new", "numbered"}
    /\ call' = [call EXCEPT ![c] = "error"]
    /\ UNCHANGED <<number, editVars, status, contentVars, receiptVars>>
-----------------------------------------------------------------------------
(***************************************************************************)
(* updateStatus.  Asking for the status the order has changes nothing; the *)
(* two receipt statuses are set by receivePurchaseOrder alone.             *)
(***************************************************************************)
validTransitions ==
    {<<"DRAFT", "PENDING">>, <<"DRAFT", "CANCELLED">>,
     <<"PENDING", "APPROVED">>, <<"PENDING", "REJECTED">>,
     <<"PENDING", "CANCELLED">>, <<"APPROVED", "CANCELLED">>,
     <<"PARTIALLY_RECEIVED", "CANCELLED">>, <<"RECEIVED", "COMPLETED">>,
     <<"REJECTED", "CANCELLED">>}

updateStatus(o, s) ==
    /\ <<status[o], s>> \in validTransitions
    /\ status' = [status EXCEPT ![o] = s]
    /\ UNCHANGED <<callVars, editVars, contentVars, receiptVars>>
-----------------------------------------------------------------------------
(***************************************************************************)
(* receivePurchaseOrder.  A repeated key returns the stored receipt or is  *)
(* a conflict, and changes nothing.                                        *)
(***************************************************************************)
ReceiptBodies == {q \in [Items -> 0..MaxUnits] : \E i \in Items : q[i] > 0}

Receivable(o, q) == \A i \in Items : received[o][i] + q[i] <= lines[o][i]

(* Mutant: the order is complete when the lines of this receipt are.       *)
ReceiptStatus_own(o, q) ==
    IF \A i \in Items : q[i] > 0 => received[o][i] + q[i] = lines[o][i]
    THEN "RECEIVED" ELSE "PARTIALLY_RECEIVED"

ReceiptStatus(o, q) ==
    IF \A i \in Items : received[o][i] + q[i] = lines[o][i]
    THEN "RECEIVED" ELSE "PARTIALLY_RECEIVED"

(* What a receipt writes; its outbox row carries the new status.           *)
StoreReceipt(o, k, q) ==
    /\ receipts' = [receipts EXCEPT
                      ![o][k] = [units |-> q, warehouse |-> warehouse[o]]]
    /\ received' = [received EXCEPT ![o] = [i \in Items |-> @[i] + q[i]]]
    /\ stock' = [stock EXCEPT ![warehouse[o]] = [i \in Items |-> @[i] + q[i]]]
    /\ status' = [status EXCEPT ![o] = ReceiptStatus(o, q)]
    /\ outbox' = [outbox EXCEPT ![o] = Append(@, ReceiptStatus(o, q))]
    /\ UNCHANGED <<callVars, editVars, contentVars>>

(* Mutant: goods are still taken in for a cancelled order.                 *)
receivePurchaseOrder_cancelled(o, k, q) ==
    /\ receipts[o][k] = NoReceipt
    /\ status[o] \in {"APPROVED", "PARTIALLY_RECEIVED", "CANCELLED"}
    /\ warehouse[o] # NoWarehouse
    /\ Receivable(o, q)
    /\ StoreReceipt(o, k, q)

receivePurchaseOrder(o, k, q) ==
    /\ receipts[o][k] = NoReceipt
    /\ status[o] \in {"APPROVED", "PARTIALLY_RECEIVED"}
    /\ warehouse[o] # NoWarehouse
    /\ Receivable(o, q)
    /\ StoreReceipt(o, k, q)
-----------------------------------------------------------------------------
(***************************************************************************)
(* update: it reads the order, validates, and writes in a transaction that *)
(* does not look at the status again.                                      *)
(***************************************************************************)
EditStep(e, s) == edit' = [edit EXCEPT ![e] = s]

ReadForUpdate(e, o) ==
    /\ edit[e] = "new"
    /\ status[o] \in {"DRAFT", "PENDING"}
    /\ EditStep(e, "updating")
    /\ target' = [target EXCEPT ![e] = o]
    /\ seen' = [seen EXCEPT ![e] = [total |-> total[o], warehouse |-> warehouse[o]]]
    /\ UNCHANGED <<callVars, status, contentVars, receiptVars>>

(* Without items in its body the update writes back the total it read;     *)
(* with items it replaces the lines and sums them.                         *)
WriteContent(e, b, w) ==
    LET o == target[e] IN
    /\ IF b = NoItems
       THEN /\ total' = [total EXCEPT ![o] = seen[e].total]
            /\ UNCHANGED <<lines, received>>
       ELSE /\ lines' = [lines EXCEPT ![o] = b]
            /\ total' = [total EXCEPT ![o] = b]
            /\ received' = [received EXCEPT ![o] = Nothing]
    /\ warehouse' = [warehouse EXCEPT ![o] = w]
    /\ EditStep(e, "returned")
    /\ UNCHANGED <<callVars, target, seen, status, receipts, stock, outbox>>

(* Mutant: receipt lines go with the order lines they are about.           *)
WriteUpdate_cascade(e, b, w) ==
    /\ edit[e] = "updating"
    /\ target[e] \in Orders
    /\ w \in {seen[e].warehouse} \cup Warehouses
    /\ WriteContent(e, b, w)

(* The foreign key of a receipt's lines (ON DELETE RESTRICT) refuses to    *)
(* replace lines that have been received.                                  *)
WriteUpdate(e, b, w) ==
    /\ edit[e] = "updating"
    /\ target[e] \in Orders
    /\ b # NoItems => ReceiptsOf(target[e]) = {}
    /\ w \in {seen[e].warehouse} \cup Warehouses
    /\ WriteContent(e, b, w)

(* delete: only of a DRAFT, says the read.                                 *)
ReadForDelete(e, o) ==
    /\ edit[e] = "new"
    /\ status[o] = "DRAFT"
    /\ EditStep(e, "deleting")
    /\ target' = [target EXCEPT ![e] = o]
    /\ UNCHANGED <<callVars, seen, status, contentVars, receiptVars>>

DeleteRow(e) ==
    /\ status' = [status EXCEPT ![target[e]] = "DELETED"]
    /\ EditStep(e, "returned")
    /\ UNCHANGED <<callVars, target, seen, contentVars, receiptVars>>

(* The same foreign key refuses the cascade to lines that were received;   *)
(* deleting a row that is gone already succeeds.                           *)
WriteDelete(e) ==
    /\ edit[e] = "deleting"
    /\ ReceiptsOf(target[e]) = {}
    /\ DeleteRow(e)

(* The row is gone, the foreign key refuses, a warehouse or supplier is    *)
(* missing, or the process dies.                                           *)
EditFails(e) ==
    /\ edit[e] \in {"updating", "deleting"}
    /\ EditStep(e, "error")
    /\ UNCHANGED <<callVars, target, seen, status, contentVars, receiptVars>>
-----------------------------------------------------------------------------
create(c) ==
    \/ generatePoNumber(c)
    \/ \E b \in Bodies, w \in OptionalWarehouse : createPurchaseOrder(c, b, w)
    \/ CreateFails(c)

Write(e) ==
    \/ \E b \in Bodies \cup {NoItems}, w \in OptionalWarehouse : WriteUpdate(e, b, w)
    \/ WriteDelete(e)
    \/ EditFails(e)

PurchaseNext ==
    \/ \E c \in Calls : create(c)
    \/ \E o \in Calls :
        \/ \E s \in PurchaseOrderStatus : updateStatus(o, s)
        \/ \E k \in ReceiptKeys, q \in ReceiptBodies : receivePurchaseOrder(o, k, q)
        \/ \E e \in Edits : ReadForUpdate(e, o) \/ ReadForDelete(e, o)
    \/ \E e \in Edits : Write(e)

PurchaseSpec == PurchaseInit /\ [][PurchaseNext]_purchaseVars

(* A call that has read its order goes on to write or to fail.             *)
FairPurchaseSpec == PurchaseSpec /\ \A e \in Edits : WF_purchaseVars(Write(e))
-----------------------------------------------------------------------------
(* Units of an item in a stored receipt, and those it brought to w.        *)
ReceiptUnits(o, k, i) ==
    IF k \in ReceiptsOf(o) THEN receipts[o][k].units[i] ELSE 0
UnitsInto(w, o, k, i) ==
    IF k \in ReceiptsOf(o) /\ receipts[o][k].warehouse = w
    THEN receipts[o][k].units[i] ELSE 0

(* Units an existing order brought to w.                                   *)
UnitsReceived(o, w, i) ==
    IF o \in Orders
    THEN SumFunctionOnSet([k \in ReceiptKeys |-> UnitsInto(w, o, k, i)], ReceiptKeys)
    ELSE 0

(***************************************************************************)
(* Every unit that came into stock has a receipt of an order that still    *)
(* exists, in the warehouse the receipt names: no retry counts twice, and  *)
(* no late delete takes the receipts away.                                 *)
(***************************************************************************)
StockMatchesReceipts ==
    \A w \in Warehouses, i \in Items :
        stock[w][i] =
            SumFunctionOnSet([o \in Calls |-> UnitsReceived(o, w, i)], Calls)

(***************************************************************************)
(* What an order counts as received is the sum of its receipts, and never  *)
(* more than was ordered, whatever a late update wrote.                    *)
(***************************************************************************)
ReceivedMatchesReceipts ==
    \A o \in Orders, i \in Items :
        /\ received[o][i] =
             SumFunctionOnSet([k \in ReceiptKeys |-> ReceiptUnits(o, k, i)], ReceiptKeys)
        /\ received[o][i] <= lines[o][i]

(***************************************************************************)
(* The status of an order agrees with its receipts: none before approval   *)
(* or after a rejection, some line open when partially received, no line   *)
(* open when received or completed.                                        *)
(***************************************************************************)
StatusMatchesReceipts ==
    \A o \in Orders :
        /\ status[o] \in {"DRAFT", "PENDING", "APPROVED", "REJECTED"} =>
             ReceiptsOf(o) = {}
        /\ status[o] = "PARTIALLY_RECEIVED" =>
             /\ ReceiptsOf(o) # {}
             /\ \E i \in Items : received[o][i] < lines[o][i]
        /\ status[o] \in {"RECEIVED", "COMPLETED"} =>
             \A i \in Items : received[o][i] = lines[o][i]

(***************************************************************************)
(* Two orders never have the same number, although the number is counted   *)
(* before the order is inserted and deletions lower the count.             *)
(***************************************************************************)
OneOrderPerNumber ==
    \A o, p \in Orders : number[o] = number[p] => o = p

(***************************************************************************)
(* One outbox row per receipt, and RECEIVED is told once, by the last.     *)
(***************************************************************************)
OutboxTellsReceipts ==
    \A o \in Orders :
        /\ Len(outbox[o]) = Cardinality(ReceiptsOf(o))
        /\ \A n \in DOMAIN outbox[o] :
             outbox[o][n] = "RECEIVED" =>
               n = Len(outbox[o]) /\ status[o] \in {"RECEIVED", "COMPLETED"}

(***************************************************************************)
(* Stock, lines, receipts and events tell the same story of every order,   *)
(* whatever a late update or delete writes.                                *)
(***************************************************************************)
ReceiptsAgree ==
    StockMatchesReceipts /\ ReceivedMatchesReceipts /\ OutboxTellsReceipts

(***************************************************************************)
(* Once goods were received the order's lines and its receipts are fixed   *)
(* and the order cannot be deleted, however old the check of a late update *)
(* or delete is; a completed or cancelled order gets no further receipt.   *)
(***************************************************************************)
ReceivedIsFixed ==
    [][\A o \in Orders :
        /\ ReceiptsOf(o) # {} => lines'[o] = lines[o] /\ status'[o] # "DELETED"
        /\ \A k \in ReceiptsOf(o) : receipts'[o][k] = receipts[o][k]
        /\ status[o] \in {"COMPLETED", "CANCELLED"} =>
             received'[o] = received[o]]_purchaseVars

(***************************************************************************)
(* The lines of an order change only while it is a draft or pending.       *)
(***************************************************************************)
EditedOnlyWhileOpen ==
    [][\A o \in Orders :
        lines'[o] # lines[o] => status[o] \in {"DRAFT", "PENDING"}]_purchaseVars
=============================================================================
