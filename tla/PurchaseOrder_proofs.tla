------------------------- MODULE PurchaseOrder_proofs -------------------------
(***************************************************************************)
(* Proofs about PurchaseOrder, for any number of calls, items, warehouses  *)
(* and receipts.                                                           *)
(***************************************************************************)
EXTENDS PurchaseOrder, Sums_proofs, FiniteSetTheorems, TLAPS

USE PurchaseOrderConstants

(***************************************************************************)
(* What holds of one order.  Beyond StatusMatchesReceipts: a complete      *)
(* order has receipts, so that the foreign key protects its lines, and an  *)
(* order without receipts counts nothing as received, so that replacing    *)
(* its lines loses nothing.                                                *)
(***************************************************************************)
OrderInv(o) ==
    /\ status[o] \in {"NONE", "DELETED", "DRAFT", "PENDING", "APPROVED", "REJECTED"} =>
         ReceiptsOf(o) = {}
    /\ status[o] \in {"PARTIALLY_RECEIVED", "RECEIVED", "COMPLETED"} =>
         ReceiptsOf(o) # {}
    /\ status[o] = "PARTIALLY_RECEIVED" =>
         \E i \in Items : received[o][i] < lines[o][i]
    /\ status[o] \in {"RECEIVED", "COMPLETED"} =>
         \A i \in Items : received[o][i] = lines[o][i]
    /\ ReceiptsOf(o) = {} => received[o] = Nothing
    /\ \A i \in Items : received[o][i] <= lines[o][i]

(* A call of create that may still insert has not inserted; an update or   *)
(* delete is about an order that was there.                                *)
CallsInv ==
    /\ \A c \in Calls : call[c] \in {"new", "numbered"} => status[c] = "NONE"
    /\ \A e \in Edits : edit[e] \in {"updating", "deleting"} =>
         target[e] \in Calls /\ status[target[e]] # "NONE"

PurchaseInv ==
    /\ PurchaseTypeOK
    /\ CallsInv
    /\ OneOrderPerNumber
    /\ \A o \in Calls : OrderInv(o)

(***************************************************************************)
(* The initial states satisfy the invariant: there is no order yet.        *)
(***************************************************************************)
LEMMA InitInv == PurchaseInit => PurchaseInv
<1> SUFFICES ASSUME PurchaseInit PROVE PurchaseInv
    OBVIOUS
<1>1. Nothing \in Quantities
    BY DEF Nothing, Quantities
<1>2. PurchaseTypeOK
    BY <1>1 DEF PurchaseInit, PurchaseTypeOK, OptionalWarehouse,
       ReceiptStatuses
<1>3. CallsInv /\ OneOrderPerNumber
    BY DEF PurchaseInit, CallsInv, OneOrderPerNumber, Orders,
       PurchaseOrderStatus
<1>4. \A o \in Calls : OrderInv(o)
    BY DEF PurchaseInit, OrderInv, ReceiptsOf, Nothing
<1> QED BY <1>2, <1>3, <1>4 DEF PurchaseInv

(***************************************************************************)
(* The count that makes a number is a number.                              *)
(***************************************************************************)
LEMMA CountIsNat == Cardinality(Orders) \in Nat
<1>1. Orders \subseteq Calls
    BY DEF Orders
<1>2. IsFiniteSet(Orders)
    BY <1>1, FS_Subset
<1> QED BY <1>2, FS_CardinalityType

(***************************************************************************)
(* The steps of create: only a call without an order inserts one, and the  *)
(* unique index keeps the numbers apart.                                   *)
(***************************************************************************)
LEMMA CreateInv ==
    ASSUME PurchaseInv, NEW c \in Calls, create(c)
    PROVE  PurchaseInv'
<1> USE DEF editVars, contentVars, receiptVars
<1>1. CASE generatePoNumber(c)
  <2>1. PurchaseTypeOK'
      BY <1>1, CountIsNat DEF PurchaseInv, PurchaseTypeOK, generatePoNumber
  <2>2. CallsInv'
      BY <1>1 DEF PurchaseInv, PurchaseTypeOK, CallsInv, generatePoNumber
  <2>3. c \notin Orders
      BY <1>1 DEF PurchaseInv, CallsInv, generatePoNumber, Orders,
                  PurchaseOrderStatus
  <2>4. OneOrderPerNumber'
      BY <1>1, <2>3 DEF PurchaseInv, PurchaseTypeOK, OneOrderPerNumber, Orders,
                        generatePoNumber
  <2>5. \A o \in Calls : OrderInv(o)'
      BY <1>1 DEF PurchaseInv, OrderInv, ReceiptsOf, generatePoNumber
  <2> QED BY <2>1, <2>2, <2>4, <2>5 DEF PurchaseInv
<1>2. ASSUME NEW b \in Bodies, NEW w \in OptionalWarehouse,
             createPurchaseOrder(c, b, w)
      PROVE  PurchaseInv'
  <2>1. PurchaseTypeOK'
      BY <1>2 DEF PurchaseInv, PurchaseTypeOK, createPurchaseOrder,
         InsertOrder,
                  PurchaseOrderStatus
  <2>2. status[c] = "NONE"
      BY <1>2 DEF PurchaseInv, CallsInv, createPurchaseOrder
  <2>3. CallsInv'
      BY <1>2, <2>2 DEF PurchaseInv, PurchaseTypeOK, CallsInv,
         createPurchaseOrder,
                        InsertOrder
  <2>4. Orders' = Orders \cup {c}
      BY <1>2 DEF PurchaseInv, PurchaseTypeOK, createPurchaseOrder,
         InsertOrder, Orders,
                  PurchaseOrderStatus
  <2>5. OneOrderPerNumber'
      BY <1>2, <2>4 DEF PurchaseInv, OneOrderPerNumber, createPurchaseOrder,
                        InsertOrder, NumberTaken
  <2>6. \A o \in Calls : OrderInv(o)'
    <3> SUFFICES ASSUME NEW o \in Calls PROVE OrderInv(o)'
        OBVIOUS
    <3>1. CASE o # c
        BY <1>2, <3>1 DEF PurchaseInv, PurchaseTypeOK, OrderInv, ReceiptsOf,
                          createPurchaseOrder, InsertOrder
    <3>2. CASE o = c
      <4>1. ReceiptsOf(c) = {} /\ received[c] = Nothing
          BY <2>2 DEF PurchaseInv, OrderInv
      <4>2. /\ status'[c] = "DRAFT" /\ received'[c] = Nothing
            /\ ReceiptsOf(c)' = {} /\ lines'[c] = b
          BY <1>2, <4>1 DEF PurchaseInv, PurchaseTypeOK, createPurchaseOrder,
                            InsertOrder, ReceiptsOf
      <4>3. \A i \in Items : received'[c][i] <= lines'[c][i]
          BY <4>2 DEF Nothing, Quantities
      <4> QED BY <3>2, <4>2, <4>3 DEF OrderInv
    <3> QED BY <3>1, <3>2
  <2> QED BY <2>1, <2>3, <2>5, <2>6 DEF PurchaseInv
<1>3. CASE CreateFails(c)
  <2>1. PurchaseTypeOK'
      BY <1>3 DEF PurchaseInv, PurchaseTypeOK, CreateFails
  <2>2. CallsInv'
      BY <1>3 DEF PurchaseInv, PurchaseTypeOK, CallsInv, CreateFails
  <2>3. OneOrderPerNumber'
      BY <1>3 DEF PurchaseInv, OneOrderPerNumber, Orders, CreateFails
  <2>4. \A o \in Calls : OrderInv(o)'
      BY <1>3 DEF PurchaseInv, OrderInv, ReceiptsOf, CreateFails
  <2> QED BY <2>1, <2>2, <2>3, <2>4 DEF PurchaseInv
<1> QED BY <1>1, <1>2, <1>3 DEF create

(***************************************************************************)
(* A step that only moves an existing order to another status of an order  *)
(* keeps the calls and the numbers right.                                  *)
(***************************************************************************)
LEMMA RowsKept ==
    ASSUME PurchaseInv, NEW o \in Calls, status[o] \in PurchaseOrderStatus,
           NEW s \in PurchaseOrderStatus,
           status' = [status EXCEPT ![o] = s],
           UNCHANGED <<callVars, editVars>>
    PROVE  CallsInv' /\ OneOrderPerNumber'
<1>1. Orders' = Orders
    BY DEF PurchaseInv, PurchaseTypeOK, Orders
<1>2. OneOrderPerNumber'
    BY <1>1 DEF PurchaseInv, OneOrderPerNumber, callVars
<1>3. CallsInv'
    BY DEF PurchaseInv, PurchaseTypeOK, CallsInv, callVars, editVars,
       PurchaseOrderStatus
<1> QED BY <1>2, <1>3

(***************************************************************************)
(* updateStatus.                                                           *)
(***************************************************************************)
LEMMA StatusInv ==
    ASSUME PurchaseInv, NEW o \in Calls, NEW s \in PurchaseOrderStatus,
           updateStatus(o, s)
    PROVE  PurchaseInv'
<1>1. PurchaseTypeOK'
    BY DEF PurchaseInv, PurchaseTypeOK, updateStatus, callVars, editVars,
       contentVars,
           receiptVars
<1>2. status[o] \in PurchaseOrderStatus
    BY DEF updateStatus, validTransitions, PurchaseOrderStatus
<1>3. CallsInv' /\ OneOrderPerNumber'
    BY <1>2, RowsKept DEF updateStatus
<1>4. ASSUME NEW p \in Calls PROVE OrderInv(p)'
  <2>1. /\ OrderInv(p)
        /\ received' = received /\ lines' = lines
        /\ ReceiptsOf(p)' = ReceiptsOf(p)
      BY DEF PurchaseInv, updateStatus, contentVars, receiptVars, ReceiptsOf
  <2>2. status' = [status EXCEPT ![o] = s] /\ status[o] # s
      BY DEF updateStatus, validTransitions
  <2>3. CASE p # o
      BY <2>1, <2>2, <2>3 DEF PurchaseInv, PurchaseTypeOK, OrderInv
  <2>4. CASE p = o
      BY <2>1, <2>2, <2>4
      DEF PurchaseInv, PurchaseTypeOK, OrderInv, updateStatus, validTransitions
  <2> QED BY <2>3, <2>4
<1> QED BY <1>1, <1>3, <1>4 DEF PurchaseInv

(***************************************************************************)
(* receivePurchaseOrder.                                                   *)
(***************************************************************************)
LEMMA ReceiveInv ==
    ASSUME PurchaseInv, NEW o \in Calls, NEW k \in ReceiptKeys,
           NEW q \in ReceiptBodies, receivePurchaseOrder(o, k, q)
    PROVE  PurchaseInv'
<1> DEFINE sum == [i \in Items |-> received[o][i] + q[i]]
           receipt == [units |-> q, warehouse |-> warehouse[o]]
<1>1. q \in Quantities /\ received[o] \in Quantities /\ lines[o] \in Quantities
    BY DEF PurchaseInv, PurchaseTypeOK, ReceiptBodies, Quantities
<1>2. sum \in Quantities
    BY <1>1 DEF Quantities
<1>3. warehouse[o] \in Warehouses
    BY DEF PurchaseInv, PurchaseTypeOK, receivePurchaseOrder, OptionalWarehouse
<1>4. receipt \in Receipts
    BY <1>1, <1>3 DEF Receipts
<1>5. ReceiptStatus(o, q) \in ReceiptStatuses
    BY DEF ReceiptStatus, ReceiptStatuses
<1>6. /\ received' = [received EXCEPT ![o] = sum]
      /\ receipts' = [receipts EXCEPT ![o][k] = receipt]
      /\ status' = [status EXCEPT ![o] = ReceiptStatus(o, q)]
      /\ outbox' = [outbox EXCEPT ![o] = Append(@, ReceiptStatus(o, q))]
      /\ UNCHANGED <<callVars, editVars, contentVars>>
    BY DEF receivePurchaseOrder, StoreReceipt
<1>7. \A i \in Items : sum[i] = received[o][i] + q[i] /\ sum[i] <= lines[o][i]
    BY DEF receivePurchaseOrder, Receivable
<1>8. PurchaseTypeOK'
  <2>1. stock' \in [Warehouses -> Quantities]
    <3> DEFINE onHand == [i \in Items |-> stock[warehouse[o]][i] + q[i]]
    <3>1. stock[warehouse[o]] \in Quantities
        BY <1>3 DEF PurchaseInv, PurchaseTypeOK
    <3>2. onHand \in Quantities
        BY <1>1, <3>1 DEF Quantities
    <3>3. stock' = [stock EXCEPT ![warehouse[o]] = onHand]
        BY DEF receivePurchaseOrder, StoreReceipt
    <3> HIDE DEF onHand
    <3> QED BY <3>2, <3>3 DEF PurchaseInv, PurchaseTypeOK
  <2>2. outbox' \in [Calls -> Seq(ReceiptStatuses)]
      BY <1>5, <1>6 DEF PurchaseInv, PurchaseTypeOK
  <2>3. receipts' \in [Calls -> [ReceiptKeys -> Receipts \cup {NoReceipt}]]
    <3> HIDE DEF receipt
    <3> QED BY <1>4, <1>6 DEF PurchaseInv, PurchaseTypeOK
  <2>4. received' \in [Calls -> Quantities]
    <3> HIDE DEF sum
    <3> QED BY <1>2, <1>6 DEF PurchaseInv, PurchaseTypeOK
  <2>5. status' \in [Calls -> PurchaseOrderStatus \cup {"NONE", "DELETED"}]
      BY <1>5, <1>6 DEF PurchaseInv, PurchaseTypeOK, ReceiptStatuses,
         PurchaseOrderStatus
  <2> QED BY <1>6, <2>1, <2>2, <2>3, <2>4, <2>5
          DEF PurchaseInv, PurchaseTypeOK, callVars, editVars, contentVars
<1>9. CallsInv' /\ OneOrderPerNumber'
  <2>1. status[o] \in PurchaseOrderStatus
      BY DEF receivePurchaseOrder, PurchaseOrderStatus
  <2>2. ReceiptStatus(o, q) \in PurchaseOrderStatus
      BY <1>5 DEF ReceiptStatuses, PurchaseOrderStatus
  <2> QED BY <1>6, <2>1, <2>2, RowsKept
<1>10. ASSUME NEW p \in Calls PROVE OrderInv(p)'
  <2> HIDE DEF sum, receipt
  <2>1. CASE p # o
    <3>1. /\ OrderInv(p) /\ status'[p] = status[p]
          /\ received'[p] = received[p] /\ lines'[p] = lines[p]
          /\ receipts'[p] = receipts[p]
        BY <1>6, <2>1 DEF PurchaseInv, PurchaseTypeOK, contentVars
    <3> QED BY <3>1 DEF OrderInv, ReceiptsOf
  <2>2. CASE p = o
    <3>1. /\ status'[o] = ReceiptStatus(o, q) /\ received'[o] = sum
          /\ lines'[o] = lines[o] /\ receipts'[o][k] = receipt
        BY <1>6 DEF PurchaseInv, PurchaseTypeOK, contentVars
    <3>2. receipt # NoReceipt
        BY <1>4 DEF Receipts
    <3>3. ReceiptsOf(o)' # {}
        BY <3>1, <3>2 DEF ReceiptsOf
    <3>4. CASE \A i \in Items : sum[i] = lines[o][i]
      <4>1. ReceiptStatus(o, q) = "RECEIVED"
          BY <1>7, <3>4 DEF ReceiptStatus
      <4> QED BY <1>7, <2>2, <3>1, <3>3, <3>4, <4>1 DEF OrderInv
    <3>5. CASE \E i \in Items : sum[i] # lines[o][i]
      <4>1. ReceiptStatus(o, q) = "PARTIALLY_RECEIVED"
          BY <1>7, <3>5 DEF ReceiptStatus
      <4>2. \E i \in Items : sum[i] < lines[o][i]
        <5>1. PICK i \in Items : sum[i] # lines[o][i]
            BY <3>5
        <5>2. sum[i] \in Nat /\ lines[o][i] \in Nat /\ sum[i] <= lines[o][i]
            BY <1>1, <1>2, <1>7 DEF Quantities
        <5> QED BY <5>1, <5>2
      <4> QED BY <1>7, <2>2, <3>1, <3>3, <4>1, <4>2 DEF OrderInv
    <3> QED BY <3>4, <3>5
  <2> QED BY <2>1, <2>2
<1> QED BY <1>8, <1>9, <1>10 DEF PurchaseInv

(***************************************************************************)
(* Reading for an update or a delete.                                      *)
(***************************************************************************)
LEMMA ReadInv ==
    ASSUME PurchaseInv, NEW e \in Edits, NEW o \in Calls,
           ReadForUpdate(e, o) \/ ReadForDelete(e, o)
    PROVE  PurchaseInv'
<1> USE DEF callVars, contentVars, receiptVars
<1>1. PurchaseTypeOK'
  <2>1. [total |-> total[o], warehouse |-> warehouse[o]]
            \in [total : Quantities, warehouse : OptionalWarehouse]
      BY DEF PurchaseInv, PurchaseTypeOK
  <2>2. seen' \in [Edits -> [total : Quantities, warehouse : OptionalWarehouse]]
      BY <2>1 DEF PurchaseInv, PurchaseTypeOK, ReadForUpdate, ReadForDelete
  <2>3. target' \in [Edits -> Calls \cup {NoOrder}]
      BY DEF PurchaseInv, PurchaseTypeOK, ReadForUpdate, ReadForDelete
  <2>4. edit' \in [Edits -> {"new", "updating", "deleting", "returned", "error"}]
      BY DEF PurchaseInv, PurchaseTypeOK, ReadForUpdate, ReadForDelete,
         EditStep
  <2> QED BY <2>2, <2>3, <2>4
          DEF PurchaseInv, PurchaseTypeOK, ReadForUpdate, ReadForDelete
<1>2. CallsInv'
    BY DEF PurchaseInv, PurchaseTypeOK, CallsInv, ReadForUpdate,
       ReadForDelete, EditStep
<1>3. OneOrderPerNumber'
    BY DEF PurchaseInv, OneOrderPerNumber, Orders, ReadForUpdate, ReadForDelete
<1>4. \A p \in Calls : OrderInv(p)'
    BY DEF PurchaseInv, OrderInv, ReceiptsOf, ReadForUpdate, ReadForDelete
<1> QED BY <1>1, <1>2, <1>3, <1>4 DEF PurchaseInv

(***************************************************************************)
(* The write of an update: when it replaces lines, the order has no        *)
(* receipts, so nothing that was received is lost.                         *)
(***************************************************************************)
LEMMA WriteUpdateInv ==
    ASSUME PurchaseInv, NEW e \in Edits, NEW b \in Bodies \cup {NoItems},
           NEW w \in OptionalWarehouse, WriteUpdate(e, b, w)
    PROVE  PurchaseInv'
<1> DEFINE o == target[e]
<1>1. o \in Calls /\ o \in Orders
    BY DEF WriteUpdate, Orders
<1>2. Nothing \in Quantities
    BY DEF Nothing, Quantities
<1>3. PurchaseTypeOK'
  <2>1. seen[e].total \in Quantities
      BY DEF PurchaseInv, PurchaseTypeOK
  <2>2. total' \in [Calls -> Quantities]
      BY <2>1 DEF PurchaseInv, PurchaseTypeOK, WriteUpdate, WriteContent
  <2>3. lines' \in [Calls -> Quantities] /\ received' \in [Calls -> Quantities]
    <3>1. lines \in [Calls -> Quantities] /\ received \in [Calls -> Quantities]
        BY DEF PurchaseInv, PurchaseTypeOK
    <3>2. CASE b = NoItems
        BY <3>1, <3>2 DEF WriteUpdate, WriteContent
    <3>3. CASE b # NoItems
      <4>1. /\ lines' = [lines EXCEPT ![o] = b]
            /\ received' = [received EXCEPT ![o] = Nothing]
          BY <3>3 DEF WriteUpdate, WriteContent
      <4>2. b \in Quantities
          BY <3>3
      <4> QED BY <1>2, <3>1, <4>1, <4>2
    <3> QED BY <3>2, <3>3
  <2>4. warehouse' \in [Calls -> OptionalWarehouse]
      BY DEF PurchaseInv, PurchaseTypeOK, WriteUpdate, WriteContent
  <2>5. edit' \in [Edits -> {"new", "updating", "deleting", "returned", "error"}]
      BY DEF PurchaseInv, PurchaseTypeOK, WriteUpdate, WriteContent, EditStep
  <2> QED BY <2>2, <2>3, <2>4, <2>5
          DEF PurchaseInv, PurchaseTypeOK, WriteUpdate, WriteContent, callVars
<1>4. CallsInv'
    BY DEF PurchaseInv, PurchaseTypeOK, CallsInv, WriteUpdate, WriteContent,
       EditStep,
           callVars
<1>5. OneOrderPerNumber'
    BY DEF PurchaseInv, OneOrderPerNumber, Orders, WriteUpdate, WriteContent,
           callVars
<1>6. ASSUME NEW p \in Calls PROVE OrderInv(p)'
  <2>1. OrderInv(p) /\ status' = status /\ ReceiptsOf(p)' = ReceiptsOf(p)
      BY DEF PurchaseInv, WriteUpdate, WriteContent, ReceiptsOf
  <2>2. CASE b = NoItems
      BY <2>1, <2>2 DEF OrderInv, WriteUpdate, WriteContent
  <2>3. CASE b # NoItems
    <3>1. /\ lines' = [lines EXCEPT ![o] = b]
          /\ received' = [received EXCEPT ![o] = Nothing]
          /\ ReceiptsOf(o) = {}
        BY <2>3 DEF WriteUpdate, WriteContent
    <3>2. CASE p # o
        BY <2>1, <3>1, <3>2 DEF PurchaseInv, PurchaseTypeOK, OrderInv
    <3>3. CASE p = o
      <4>1. lines'[p] = b /\ received'[p] = Nothing
          BY <3>1, <3>3 DEF PurchaseInv, PurchaseTypeOK
      <4>2. \A i \in Items : Nothing[i] <= b[i]
          BY <2>3 DEF Nothing, Quantities
      <4>3. status[p] \notin {"PARTIALLY_RECEIVED", "RECEIVED", "COMPLETED"}
          BY <2>1, <3>1, <3>3 DEF OrderInv
      <4> QED BY <2>1, <3>1, <3>3, <4>1, <4>2, <4>3 DEF OrderInv
    <3> QED BY <3>2, <3>3
  <2> QED BY <2>2, <2>3
<1> QED BY <1>3, <1>4, <1>5, <1>6 DEF PurchaseInv

(***************************************************************************)
(* The write of a delete, and a call that gives up.                        *)
(***************************************************************************)
LEMMA WriteDeleteInv ==
    ASSUME PurchaseInv, NEW e \in Edits, WriteDelete(e)
    PROVE  PurchaseInv'
<1> USE DEF callVars, contentVars, receiptVars
<1>1. target[e] \in Calls
    BY DEF PurchaseInv, CallsInv, WriteDelete
<1>2. PurchaseTypeOK'
    BY <1>1 DEF PurchaseInv, PurchaseTypeOK, WriteDelete, DeleteRow, EditStep
<1>3. CallsInv'
    BY <1>1 DEF PurchaseInv, PurchaseTypeOK, CallsInv, WriteDelete, DeleteRow,
       EditStep
<1>4. OneOrderPerNumber'
  <2>1. Orders' \subseteq Orders
      BY DEF PurchaseInv, PurchaseTypeOK, WriteDelete, DeleteRow, Orders,
             PurchaseOrderStatus
  <2> QED BY <2>1 DEF PurchaseInv, OneOrderPerNumber, WriteDelete, DeleteRow
<1>5. ASSUME NEW p \in Calls PROVE OrderInv(p)'
  <2>1. /\ OrderInv(p) /\ received' = received /\ lines' = lines
        /\ ReceiptsOf(p)' = ReceiptsOf(p)
        /\ status' = [status EXCEPT ![target[e]] = "DELETED"]
        /\ ReceiptsOf(target[e]) = {}
      BY DEF PurchaseInv, WriteDelete, DeleteRow, ReceiptsOf
  <2>2. CASE p # target[e]
      BY <2>1, <2>2 DEF PurchaseInv, PurchaseTypeOK, OrderInv
  <2>3. CASE p = target[e]
    <3>1. status'[p] = "DELETED"
        BY <2>1, <2>3 DEF PurchaseInv, PurchaseTypeOK
    <3> QED BY <2>1, <2>3, <3>1 DEF OrderInv
  <2> QED BY <2>2, <2>3
<1> QED BY <1>2, <1>3, <1>4, <1>5 DEF PurchaseInv

LEMMA EditFailsInv ==
    ASSUME PurchaseInv, NEW e \in Edits, EditFails(e)
    PROVE  PurchaseInv'
<1> USE DEF callVars, contentVars, receiptVars
<1>1. PurchaseTypeOK'
    BY DEF PurchaseInv, PurchaseTypeOK, EditFails, EditStep
<1>2. CallsInv'
    BY DEF PurchaseInv, PurchaseTypeOK, CallsInv, EditFails, EditStep
<1>3. OneOrderPerNumber'
    BY DEF PurchaseInv, OneOrderPerNumber, Orders, EditFails
<1>4. \A p \in Calls : OrderInv(p)'
    BY DEF PurchaseInv, OrderInv, ReceiptsOf, EditFails
<1> QED BY <1>1, <1>2, <1>3, <1>4 DEF PurchaseInv

(***************************************************************************)
(* The invariant holds in every reachable state.                           *)
(***************************************************************************)
THEOREM PurchaseInvariant == PurchaseSpec => []PurchaseInv
<1>1. PurchaseInit => PurchaseInv
    BY InitInv
<1>2. PurchaseInv /\ [PurchaseNext]_purchaseVars => PurchaseInv'
  <2> SUFFICES ASSUME PurchaseInv, [PurchaseNext]_purchaseVars PROVE PurchaseInv'
      OBVIOUS
  <2>1. CASE UNCHANGED purchaseVars
    <3> USE <2>1 DEF purchaseVars, callVars, editVars, contentVars, receiptVars
    <3>1. PurchaseTypeOK' /\ CallsInv'
        BY DEF PurchaseInv, PurchaseTypeOK, CallsInv
    <3>2. OneOrderPerNumber'
        BY DEF PurchaseInv, OneOrderPerNumber, Orders
    <3>3. \A o \in Calls : OrderInv(o)'
        BY DEF PurchaseInv, OrderInv, ReceiptsOf
    <3> QED BY <3>1, <3>2, <3>3 DEF PurchaseInv
  <2>2. ASSUME NEW c \in Calls, create(c) PROVE PurchaseInv'
      BY <2>2, CreateInv
  <2>3. ASSUME NEW o \in Calls, NEW s \in PurchaseOrderStatus, updateStatus(o, s)
        PROVE  PurchaseInv'
      BY <2>3, StatusInv
  <2>4. ASSUME NEW o \in Calls, NEW k \in ReceiptKeys, NEW q \in ReceiptBodies,
               receivePurchaseOrder(o, k, q)
        PROVE  PurchaseInv'
      BY <2>4, ReceiveInv
  <2>5. ASSUME NEW o \in Calls, NEW e \in Edits,
               ReadForUpdate(e, o) \/ ReadForDelete(e, o)
        PROVE  PurchaseInv'
      BY <2>5, ReadInv
  <2>6. ASSUME NEW e \in Edits, Write(e) PROVE PurchaseInv'
      BY <2>6, WriteUpdateInv, WriteDeleteInv, EditFailsInv DEF Write
  <2> QED BY <2>1, <2>2, <2>3, <2>4, <2>5, <2>6 DEF PurchaseNext
<1> QED BY <1>1, <1>2, PTL DEF PurchaseSpec

(***************************************************************************)
(* No two orders share a number, however create calls and deletions        *)
(* interleave.                                                             *)
(***************************************************************************)
THEOREM NumbersAreUnique == PurchaseSpec => []OneOrderPerNumber
<1>1. PurchaseInv => OneOrderPerNumber
    BY DEF PurchaseInv
<1> QED BY <1>1, PurchaseInvariant, PTL

(***************************************************************************)
(* The status of an order agrees with its receipts, late updates and       *)
(* deletes included.                                                       *)
(***************************************************************************)
THEOREM StatusTellsReceipts == PurchaseSpec => []StatusMatchesReceipts
<1>1. PurchaseInv => StatusMatchesReceipts
    BY DEF PurchaseInv, OrderInv, StatusMatchesReceipts, Orders
<1> QED BY <1>1, PurchaseInvariant, PTL

(***************************************************************************)
(* Lines and receipts of an order that took goods in never change, and it  *)
(* is never deleted.                                                       *)
(***************************************************************************)
THEOREM ReceivedOrdersAreFixed == PurchaseSpec => ReceivedIsFixed
<1> DEFINE Kept ==
        \A o \in Orders :
            /\ ReceiptsOf(o) # {} => lines'[o] = lines[o] /\ status'[o] # "DELETED"
            /\ \A k \in ReceiptsOf(o) : receipts'[o][k] = receipts[o][k]
            /\ status[o] \in {"COMPLETED", "CANCELLED"} =>
                 received'[o] = received[o]
<1>1. PurchaseInv /\ [PurchaseNext]_purchaseVars => Kept
  <2> SUFFICES ASSUME PurchaseInv, [PurchaseNext]_purchaseVars PROVE Kept
      OBVIOUS
  <2> USE DEF callVars, editVars, contentVars, receiptVars
  <2>0. \A o \in Orders : o \in Calls /\ status[o] # "NONE" /\ status[o] # "DELETED"
      BY DEF Orders, PurchaseOrderStatus
  <2>1. CASE UNCHANGED purchaseVars
      BY <2>0, <2>1 DEF purchaseVars
  <2>2. ASSUME NEW c \in Calls, create(c) PROVE Kept
    <3>1. ASSUME NEW b \in Bodies, NEW w \in OptionalWarehouse,
                 createPurchaseOrder(c, b, w)
          PROVE  Kept
      <4>1. c \notin Orders
          BY <2>0, <3>1 DEF PurchaseInv, CallsInv, createPurchaseOrder
      <4> QED BY <2>0, <3>1, <4>1
              DEF PurchaseInv, PurchaseTypeOK, createPurchaseOrder, InsertOrder
    <3>2. CASE UNCHANGED <<status, contentVars, receiptVars>>
        BY <2>0, <3>2
    <3> QED BY <2>2, <3>1, <3>2 DEF create, generatePoNumber, CreateFails
  <2>3. ASSUME NEW o \in Calls, NEW s \in PurchaseOrderStatus, updateStatus(o, s)
        PROVE  Kept
    <3>1. s # "DELETED"
        BY DEF PurchaseOrderStatus
    <3> QED BY <2>0, <2>3, <3>1 DEF PurchaseInv, PurchaseTypeOK, updateStatus
  <2>4. ASSUME NEW o \in Calls, NEW k \in ReceiptKeys, NEW q \in ReceiptBodies,
               receivePurchaseOrder(o, k, q)
        PROVE  Kept
    <3>1. ReceiptStatus(o, q) # "DELETED"
        BY DEF ReceiptStatus
    <3>2. k \notin ReceiptsOf(o) /\ status[o] \notin {"COMPLETED", "CANCELLED"}
        BY <2>4 DEF receivePurchaseOrder, ReceiptsOf
    <3> QED BY <2>0, <2>4, <3>1, <3>2
            DEF PurchaseInv, PurchaseTypeOK, receivePurchaseOrder,
            StoreReceipt, ReceiptsOf
  <2>5. ASSUME NEW o \in Calls, NEW e \in Edits,
               ReadForUpdate(e, o) \/ ReadForDelete(e, o)
        PROVE  Kept
      BY <2>0, <2>5 DEF ReadForUpdate, ReadForDelete
  <2>6. ASSUME NEW e \in Edits, NEW b \in Bodies \cup {NoItems},
               NEW w \in OptionalWarehouse, WriteUpdate(e, b, w)
        PROVE  Kept
    <3> SUFFICES ASSUME NEW p \in Orders
                 PROVE  /\ status'[p] = status[p] /\ receipts'[p] = receipts[p]
                        /\ ReceiptsOf(p) # {} => lines'[p] = lines[p]
                        /\ received'[p] = received[p]
        BY <2>0
    <3>1. status' = status /\ receipts' = receipts
        BY <2>6 DEF WriteUpdate, WriteContent
    <3>2. CASE b = NoItems
        BY <2>6, <3>1, <3>2 DEF WriteUpdate, WriteContent
    <3>3. CASE b # NoItems
      <4>1. /\ lines' = [lines EXCEPT ![target[e]] = b]
            /\ received' = [received EXCEPT ![target[e]] = Nothing]
            /\ ReceiptsOf(target[e]) = {} /\ target[e] \in Orders
          BY <2>6, <3>3 DEF WriteUpdate, WriteContent
      <4>2. received[target[e]] = Nothing
          BY <2>0, <4>1 DEF PurchaseInv, OrderInv
      <4> QED BY <2>0, <3>1, <4>1, <4>2 DEF PurchaseInv, PurchaseTypeOK
    <3> QED BY <3>2, <3>3
  <2>7. ASSUME NEW e \in Edits, WriteDelete(e) PROVE Kept
      BY <2>0, <2>7 DEF PurchaseInv, PurchaseTypeOK, WriteDelete, DeleteRow
  <2>8. ASSUME NEW e \in Edits, EditFails(e) PROVE Kept
      BY <2>0, <2>8 DEF EditFails
  <2> QED BY <2>1, <2>2, <2>3, <2>4, <2>5, <2>6, <2>7, <2>8 DEF PurchaseNext,
             Write
<1>2. PurchaseSpec => [][Kept]_purchaseVars
    BY <1>1, PurchaseInvariant, PTL DEF PurchaseSpec
<1> QED BY <1>2 DEF ReceivedIsFixed
-----------------------------------------------------------------------------
(***************************************************************************)
(* Stock, received quantities and outbox rows, against the receipts.  Only *)
(* a receipt changes any of them; every other step leaves them alone and   *)
(* takes no order with receipts away.                                      *)
(***************************************************************************)
Quiet ==
    /\ UNCHANGED <<receipts, received, stock, outbox>>
    /\ \A o \in Calls :
         /\ ReceiptsOf(o) # {} => (o \in Orders' <=> o \in Orders)
         /\ status[o] \in {"RECEIVED", "COMPLETED"} =>
              status'[o] \in {"RECEIVED", "COMPLETED"}

LEMMA OnlyReceiptsCount ==
    ASSUME PurchaseInv, [PurchaseNext]_purchaseVars
    PROVE  \/ \E o \in Calls, k \in ReceiptKeys, q \in ReceiptBodies :
                receivePurchaseOrder(o, k, q)
           \/ Quiet
  <1> USE DEF callVars, editVars, contentVars, receiptVars
  <1>0. \A o \in Calls : status[o] = "NONE" => ReceiptsOf(o) = {}
    BY DEF PurchaseInv, OrderInv
  <1>1. CASE UNCHANGED <<status, receiptVars>>
    BY <1>1 DEF Quiet, Orders
  <1>2. ASSUME NEW c \in Calls, NEW b \in Bodies, NEW w \in OptionalWarehouse,
               createPurchaseOrder(c, b, w)
        PROVE  Quiet
    <2>1. status[c] = "NONE"
      BY <1>2 DEF PurchaseInv, CallsInv, createPurchaseOrder
    <2> QED
      BY <1>0, <1>2, <2>1 DEF PurchaseInv, PurchaseTypeOK, Quiet, Orders,
         createPurchaseOrder, InsertOrder, PurchaseOrderStatus
  <1>3. ASSUME NEW o \in Calls, NEW s \in PurchaseOrderStatus, updateStatus(o, s)
        PROVE  Quiet
    BY <1>3 DEF PurchaseInv, PurchaseTypeOK, Quiet, Orders, updateStatus,
       validTransitions, PurchaseOrderStatus
  <1>4. ASSUME NEW e \in Edits, NEW b \in Bodies \cup {NoItems},
               NEW w \in OptionalWarehouse, WriteUpdate(e, b, w)
        PROVE  Quiet
    <2>1. UNCHANGED <<status, receipts, stock, outbox>>
      BY <1>4 DEF WriteUpdate, WriteContent
    <2>2. received' = received
      <3>1. CASE b = NoItems
        BY <1>4, <3>1 DEF WriteUpdate, WriteContent
      <3>2. CASE b # NoItems
        <4>1. /\ received' = [received EXCEPT ![target[e]] = Nothing]
              /\ ReceiptsOf(target[e]) = {} /\ target[e] \in Orders
          BY <1>4, <3>2 DEF WriteUpdate, WriteContent
        <4>2. received[target[e]] = Nothing
          BY <4>1 DEF PurchaseInv, OrderInv, Orders
        <4> QED BY <4>1, <4>2 DEF PurchaseInv, PurchaseTypeOK
      <3> QED BY <3>1, <3>2
    <2> QED BY <2>1, <2>2 DEF Quiet, Orders
  <1>5. ASSUME NEW e \in Edits, WriteDelete(e) PROVE Quiet
    <2>1. /\ target[e] \in Calls /\ ReceiptsOf(target[e]) = {}
          /\ status' = [status EXCEPT ![target[e]] = "DELETED"]
          /\ UNCHANGED receiptVars
      BY <1>5 DEF PurchaseInv, CallsInv, WriteDelete, DeleteRow
    <2>2. status[target[e]] \notin {"RECEIVED", "COMPLETED"}
      BY <2>1 DEF PurchaseInv, OrderInv
    <2> QED BY <2>1, <2>2 DEF PurchaseInv, PurchaseTypeOK, Quiet, Orders
  <1> QED
    BY <1>1, <1>2, <1>3, <1>4, <1>5 DEF PurchaseNext, purchaseVars, create,
       generatePoNumber, CreateFails, Write, EditFails, ReadForUpdate,
       ReadForDelete

(* What a receipt does.                                                    *)
LEMMA ReceiptEffect ==
    ASSUME PurchaseInv, NEW o \in Calls, NEW k \in ReceiptKeys,
           NEW q \in ReceiptBodies, receivePurchaseOrder(o, k, q)
    PROVE  /\ q \in Quantities /\ warehouse[o] \in Warehouses
           /\ receipts[o][k] = NoReceipt
           /\ receipts'[o] = [receipts[o] EXCEPT
                                ![k] = [units |-> q, warehouse |-> warehouse[o]]]
           /\ \A p \in Calls : p # o => /\ receipts'[p] = receipts[p]
                                        /\ received'[p] = received[p]
                                        /\ outbox'[p] = outbox[p]
                                        /\ status'[p] = status[p]
           /\ \A i \in Items :
                /\ received'[o][i] = received[o][i] + q[i]
                /\ stock'[warehouse[o]][i] = stock[warehouse[o]][i] + q[i]
                /\ \A w \in Warehouses :
                     w # warehouse[o] => stock'[w][i] = stock[w][i]
           /\ o \in Orders /\ Orders' = Orders
           /\ [units |-> q, warehouse |-> warehouse[o]] # NoReceipt
  <1>1. q \in Quantities
    BY DEF ReceiptBodies, Quantities
  <1>2. warehouse[o] \in Warehouses
    BY DEF PurchaseInv, PurchaseTypeOK, receivePurchaseOrder, OptionalWarehouse
  <1>3. [units |-> q, warehouse |-> warehouse[o]] \in Receipts
    BY <1>1, <1>2 DEF Receipts
  <1>4. [units |-> q, warehouse |-> warehouse[o]] # NoReceipt
    BY <1>3 DEF Receipts
  <1>5. o \in Orders /\ Orders' = Orders
    BY DEF PurchaseInv, PurchaseTypeOK, receivePurchaseOrder, StoreReceipt,
           ReceiptStatus, Orders, PurchaseOrderStatus
  <1>6. /\ receipts[o][k] = NoReceipt
        /\ receipts'[o] = [receipts[o] EXCEPT
                             ![k] = [units |-> q, warehouse |-> warehouse[o]]]
        /\ \A p \in Calls : p # o => receipts'[p] = receipts[p]
    BY DEF PurchaseInv, PurchaseTypeOK, receivePurchaseOrder, StoreReceipt
  <1>7. /\ \A p \in Calls : p # o => /\ received'[p] = received[p]
                                     /\ outbox'[p] = outbox[p]
                                     /\ status'[p] = status[p]
        /\ \A i \in Items : received'[o][i] = received[o][i] + q[i]
    BY DEF PurchaseInv, PurchaseTypeOK, receivePurchaseOrder, StoreReceipt
  <1>8. \A i \in Items :
          /\ stock'[warehouse[o]][i] = stock[warehouse[o]][i] + q[i]
          /\ \A w \in Warehouses : w # warehouse[o] => stock'[w][i] = stock[w][i]
    BY <1>2 DEF PurchaseInv, PurchaseTypeOK, receivePurchaseOrder, StoreReceipt
  <1> QED BY <1>1, <1>2, <1>4, <1>5, <1>6, <1>7, <1>8

(* The stored receipts of an order, item by item.                          *)
Stored(o, i) == [k \in ReceiptKeys |-> ReceiptUnits(o, k, i)]
LineMatches(o, i) ==
    received[o][i] = SumFunctionOnSet(Stored(o, i), ReceiptKeys)

(* A receipt under a new key adds its units to the sum of the receipts.    *)
LEMMA LineMatchesNext ==
    ASSUME PurchaseInv, [PurchaseNext]_purchaseVars,
           NEW o \in Calls, NEW i \in Items, LineMatches(o, i)
    PROVE  LineMatches(o, i)'
  <1>1. CASE received'[o] = received[o] /\ receipts'[o] = receipts[o]
    <2>1. Stored(o, i)' = Stored(o, i)
      BY <1>1 DEF Stored, ReceiptUnits, ReceiptsOf
    <2> QED BY <1>1, <2>1 DEF LineMatches
  <1>2. ASSUME NEW k \in ReceiptKeys, NEW q \in ReceiptBodies,
               receivePurchaseOrder(o, k, q)
        PROVE  LineMatches(o, i)'
    <2> DEFINE r == [units |-> q, warehouse |-> warehouse[o]]
    <2>1. /\ q \in Quantities /\ receipts[o][k] = NoReceipt
          /\ receipts'[o] = [receipts[o] EXCEPT ![k] = r]
          /\ received'[o][i] = received[o][i] + q[i] /\ r # NoReceipt
      BY <1>2, ReceiptEffect
    <2>2. r.units = q
      OBVIOUS
    <2> HIDE DEF r
    <2>3. q[i] \in Nat /\ received[o][i] \in Nat
      BY <2>1 DEF PurchaseInv, PurchaseTypeOK, Quantities
    <2>4. receipts[o] \in [ReceiptKeys -> Receipts \cup {NoReceipt}]
      BY DEF PurchaseInv, PurchaseTypeOK
    <2>5. /\ Stored(o, i)[k] = 0 /\ Stored(o, i)'[k] = q[i]
          /\ \A n \in ReceiptKeys : n # k => Stored(o, i)'[n] = Stored(o, i)[n]
      BY <2>1, <2>2, <2>4 DEF Stored, ReceiptUnits, ReceiptsOf
    <2>6. \A n \in ReceiptKeys : Stored(o, i)[n] \in Int
      BY <2>4 DEF Stored, ReceiptUnits, ReceiptsOf, Receipts, Quantities
    <2>7. /\ SumFunctionOnSet(Stored(o, i)', ReceiptKeys)
               = SumFunctionOnSet(Stored(o, i), ReceiptKeys)
                   + (Stored(o, i)'[k] - Stored(o, i)[k])
          /\ SumFunctionOnSet(Stored(o, i), ReceiptKeys) \in Int
      <3>1. Stored(o, i)'[k] \in Int
        BY <2>3, <2>5
      <3> QED BY <2>5, <2>6, <3>1, SumUpdate, SumInt
    <2> QED BY <2>1, <2>3, <2>5, <2>7 DEF LineMatches
  <1>3. ASSUME NEW p \in Calls, NEW k \in ReceiptKeys, NEW q \in ReceiptBodies,
               receivePurchaseOrder(p, k, q), p # o
        PROVE  received'[o] = received[o] /\ receipts'[o] = receipts[o]
    BY <1>3, ReceiptEffect
  <1> QED BY <1>1, <1>2, <1>3, OnlyReceiptsCount DEF Quiet

(* The stock of an item in a warehouse, over the orders and their keys.    *)
Into(w, o, i) == [k \in ReceiptKeys |-> UnitsInto(w, o, k, i)]
Brought(w, i) == [o \in Calls |-> UnitsReceived(o, w, i)]
ShelfMatches(w, i) == stock[w][i] = SumFunctionOnSet(Brought(w, i), Calls)

LEMMA IntoType ==
    ASSUME PurchaseTypeOK, NEW w, NEW i \in Items, NEW o \in Calls
    PROVE  /\ \A k \in ReceiptKeys : Into(w, o, i)[k] \in Int
           /\ SumFunctionOnSet(Into(w, o, i), ReceiptKeys) \in Int
           /\ Brought(w, i)[o] \in Int
           /\ Brought(w, i)[o] = IF o \in Orders
                                 THEN SumFunctionOnSet(Into(w, o, i), ReceiptKeys)
                                 ELSE 0
  <1>1. receipts[o] \in [ReceiptKeys -> Receipts \cup {NoReceipt}]
    BY DEF PurchaseTypeOK
  <1>2. \A k \in ReceiptKeys : Into(w, o, i)[k] \in Int
    BY <1>1 DEF Into, UnitsInto, ReceiptsOf, Receipts, Quantities
  <1>3. SumFunctionOnSet(Into(w, o, i), ReceiptKeys) \in Int
    BY <1>2, SumInt
  <1>4. Brought(w, i)[o] = IF o \in Orders
                           THEN SumFunctionOnSet(Into(w, o, i), ReceiptKeys)
                           ELSE 0
    BY DEF Brought, UnitsReceived, Into
  <1> QED BY <1>2, <1>3, <1>4

(* Steps other than receipts bring nothing.                                *)
LEMMA QuietBringsNothing ==
    ASSUME PurchaseInv, Quiet, NEW w \in Warehouses, NEW i \in Items,
           ShelfMatches(w, i)
    PROVE  ShelfMatches(w, i)'
  <1>1. ASSUME NEW o \in Calls
        PROVE  UnitsReceived(o, w, i)' = UnitsReceived(o, w, i)
    <2>1. Into(w, o, i)' = Into(w, o, i)
      BY DEF Quiet, Into, UnitsInto, ReceiptsOf
    <2>2. CASE o \in Orders' <=> o \in Orders
      BY <2>1, <2>2 DEF UnitsReceived, Into
    <2>3. CASE ReceiptsOf(o) = {}
      <3>1. \A k \in ReceiptKeys : Into(w, o, i)[k] = 0
        BY <2>3 DEF Into, UnitsInto
      <3>2. SumFunctionOnSet(Into(w, o, i), ReceiptKeys) = 0
        BY <3>1, SumZero
      <3> QED BY <2>1, <3>2 DEF UnitsReceived, Into
    <2> QED BY <2>2, <2>3 DEF Quiet
  <1>2. Brought(w, i)' = Brought(w, i)
    BY <1>1 DEF Brought
  <1> QED BY <1>2 DEF ShelfMatches, Quiet

(* A receipt brings its units to the warehouse of the order.               *)
LEMMA ReceiptBrings ==
    ASSUME PurchaseInv, PurchaseInv', NEW o \in Calls, NEW k \in ReceiptKeys,
           NEW q \in ReceiptBodies, receivePurchaseOrder(o, k, q),
           NEW w \in Warehouses, NEW i \in Items, ShelfMatches(w, i)
    PROVE  ShelfMatches(w, i)'
  <1> DEFINE r == [units |-> q, warehouse |-> warehouse[o]]
             units == IF w = warehouse[o] THEN q[i] ELSE 0
  <1>1. /\ q \in Quantities /\ receipts[o][k] = NoReceipt
        /\ receipts'[o] = [receipts[o] EXCEPT ![k] = r] /\ r # NoReceipt
        /\ \A p \in Calls : p # o => receipts'[p] = receipts[p]
        /\ o \in Orders /\ Orders' = Orders
        /\ w = warehouse[o] => stock'[w][i] = stock[w][i] + q[i]
        /\ w # warehouse[o] => stock'[w][i] = stock[w][i]
    BY ReceiptEffect
  <1>2. r.units = q /\ r.warehouse = warehouse[o]
    OBVIOUS
  <1> HIDE DEF r
  <1>3. q[i] \in Nat /\ stock[w][i] \in Nat
    BY <1>1 DEF PurchaseInv, PurchaseTypeOK, Quantities
  <1>4. units \in Nat /\ stock'[w][i] = stock[w][i] + units
    BY <1>1, <1>3
  <1>5. receipts[o] \in [ReceiptKeys -> Receipts \cup {NoReceipt}]
    BY DEF PurchaseInv, PurchaseTypeOK
  <1>6. /\ Into(w, o, i)[k] = 0 /\ Into(w, o, i)'[k] = units
        /\ \A n \in ReceiptKeys : n # k => Into(w, o, i)'[n] = Into(w, o, i)[n]
    BY <1>1, <1>2, <1>5 DEF Into, UnitsInto, ReceiptsOf
  <1> HIDE DEF units
  <1>7. PurchaseTypeOK
    BY DEF PurchaseInv
  <1>8. SumFunctionOnSet(Into(w, o, i)', ReceiptKeys)
          = SumFunctionOnSet(Into(w, o, i), ReceiptKeys) + units
    <2>1. \A n \in ReceiptKeys : Into(w, o, i)[n] \in Int
      BY <1>7, IntoType
    <2>2. SumFunctionOnSet(Into(w, o, i)', ReceiptKeys)
            = SumFunctionOnSet(Into(w, o, i), ReceiptKeys)
                + (Into(w, o, i)'[k] - Into(w, o, i)[k])
      <3>1. Into(w, o, i)'[k] \in Int
        BY <1>4, <1>6
      <3> QED BY <1>6, <2>1, <3>1, SumUpdate
    <2> QED BY <1>4, <1>6, <2>2
  <1>9. \A p \in Calls : p # o => Brought(w, i)'[p] = Brought(w, i)[p]
    <2> SUFFICES ASSUME NEW p \in Calls, p # o
                 PROVE  UnitsReceived(p, w, i)' = UnitsReceived(p, w, i)
      BY DEF Brought
    <2>1. [n \in ReceiptKeys |-> UnitsInto(w, p, n, i)]'
            = [n \in ReceiptKeys |-> UnitsInto(w, p, n, i)]
      BY <1>1 DEF UnitsInto, ReceiptsOf
    <2> QED BY <1>1, <2>1 DEF UnitsReceived
  <1>10. /\ Brought(w, i)[o] = SumFunctionOnSet(Into(w, o, i), ReceiptKeys)
         /\ Brought(w, i)'[o] = SumFunctionOnSet(Into(w, o, i)', ReceiptKeys)
         /\ Brought(w, i)[o] \in Int
    <2>1. Brought(w, i)'[o] = SumFunctionOnSet(Into(w, o, i)', ReceiptKeys)
      BY <1>1 DEF Brought, UnitsReceived, Into
    <2> QED BY <1>1, <1>7, <2>1, IntoType
  <1>11. SumFunctionOnSet(Brought(w, i)', Calls)
           = SumFunctionOnSet(Brought(w, i), Calls)
               + (Brought(w, i)'[o] - Brought(w, i)[o])
    <2>1. \A p \in Calls : Brought(w, i)[p] \in Int
      BY <1>7, IntoType
    <2>2. Brought(w, i)'[o] \in Int
      BY <1>4, <1>8, <1>10
    <2> QED BY <1>9, <2>1, <2>2, SumUpdate
  <1>12. Brought(w, i)'[o] - Brought(w, i)[o] = units
    BY <1>4, <1>8, <1>10
  <1> QED BY <1>4, <1>11, <1>12 DEF ShelfMatches

(* The outbox rows of an order, existing or not.                           *)
RowPerReceipt(o) == Len(outbox[o]) = Cardinality(ReceiptsOf(o))
ToldOnce(o) ==
    \A n \in DOMAIN outbox[o] :
        outbox[o][n] = "RECEIVED" =>
            n = Len(outbox[o]) /\ status[o] \in {"RECEIVED", "COMPLETED"}

(* Before the last receipt no row says RECEIVED.                           *)
LEMMA ToldNext ==
    ASSUME PurchaseInv, [PurchaseNext]_purchaseVars, NEW o \in Calls,
           RowPerReceipt(o), ToldOnce(o)
    PROVE  RowPerReceipt(o)' /\ ToldOnce(o)'
  <1>1. CASE Quiet
    <2>1. RowPerReceipt(o)'
      BY <1>1 DEF Quiet, RowPerReceipt, ReceiptsOf
    <2>2. ToldOnce(o)'
      BY <1>1 DEF Quiet, ToldOnce
    <2> QED BY <2>1, <2>2
  <1>2. ASSUME NEW p \in Calls, NEW k \in ReceiptKeys, NEW q \in ReceiptBodies,
               receivePurchaseOrder(p, k, q), p # o
        PROVE  RowPerReceipt(o)' /\ ToldOnce(o)'
    <2>1. /\ receipts'[o] = receipts[o] /\ outbox'[o] = outbox[o]
          /\ status'[o] = status[o]
      BY <1>2, ReceiptEffect
    <2> QED BY <2>1 DEF RowPerReceipt, ToldOnce, ReceiptsOf
  <1>3. ASSUME NEW k \in ReceiptKeys, NEW q \in ReceiptBodies,
               receivePurchaseOrder(o, k, q)
        PROVE  RowPerReceipt(o)' /\ ToldOnce(o)'
    <2> DEFINE b == outbox[o]
               s == ReceiptStatus(o, q)
               n == Len(b)
    <2>1. /\ outbox'[o] = Append(b, s) /\ status'[o] = s
          /\ status[o] \notin {"RECEIVED", "COMPLETED"}
      BY <1>3 DEF PurchaseInv, PurchaseTypeOK, receivePurchaseOrder,
         StoreReceipt
    <2>2. s \in ReceiptStatuses /\ b \in Seq(ReceiptStatuses) /\ n \in Nat
      BY DEF PurchaseInv, PurchaseTypeOK, ReceiptStatus, ReceiptStatuses
    <2> HIDE DEF s
    <2>3. /\ Len(Append(b, s)) = n + 1
          /\ DOMAIN Append(b, s) = 1..(n + 1) /\ DOMAIN b = 1..n
          /\ \A m \in 1..n : Append(b, s)[m] = b[m]
          /\ Append(b, s)[n + 1] = s
      BY <2>2
    <2>4. RowPerReceipt(o)'
      <3>1. ReceiptsOf(o)' = ReceiptsOf(o) \cup {k} /\ k \notin ReceiptsOf(o)
        <4>1. receipts[o] \in [ReceiptKeys -> Receipts \cup {NoReceipt}]
          BY DEF PurchaseInv, PurchaseTypeOK
        <4> DEFINE r == [units |-> q, warehouse |-> warehouse[o]]
        <4>2. /\ receipts[o][k] = NoReceipt /\ r # NoReceipt
              /\ receipts'[o] = [receipts[o] EXCEPT ![k] = r]
          BY <1>3, ReceiptEffect
        <4> HIDE DEF r
        <4> QED BY <4>1, <4>2 DEF ReceiptsOf
      <3>2. ReceiptsOf(o) \subseteq ReceiptKeys
        BY DEF ReceiptsOf
      <3>3. IsFiniteSet(ReceiptsOf(o))
        BY <3>2, FS_Subset
      <3>4. Cardinality(ReceiptsOf(o)') = Cardinality(ReceiptsOf(o)) + 1
        BY <3>1, <3>3, FS_AddElement
      <3> QED BY <2>1, <2>3, <3>4 DEF RowPerReceipt
    <2>5. \A m \in 1..n : Append(b, s)[m] # "RECEIVED"
      BY <2>1, <2>3 DEF ToldOnce
    <2> HIDE DEF n, b
    <2>6. ToldOnce(o)'
      BY <2>1, <2>2, <2>3, <2>5 DEF ToldOnce
    <2> QED BY <2>4, <2>6
  <1> QED BY <1>1, <1>2, <1>3, OnlyReceiptsCount

(* The books of all orders together.                                       *)
BooksInv ==
    /\ \A w \in Warehouses, i \in Items : ShelfMatches(w, i)
    /\ \A o \in Calls, i \in Items : LineMatches(o, i)
    /\ \A o \in Calls : RowPerReceipt(o) /\ ToldOnce(o)

(***************************************************************************)
(* Every unit in stock has a receipt of an order that still exists, in the *)
(* warehouse the receipt names; an order counts as received the sum of its *)
(* receipts, at most what was ordered; each receipt has one outbox row and *)
(* only the last says RECEIVED: for any number of orders, keys and late    *)
(* updates or deletes.                                                     *)
(***************************************************************************)
THEOREM BooksAgree == PurchaseSpec => []ReceiptsAgree
  <1>1. PurchaseInit => BooksInv
    <2> SUFFICES ASSUME PurchaseInit PROVE BooksInv
      OBVIOUS
    <2>0. \A o \in Calls : ReceiptsOf(o) = {} /\ o \notin Orders
      BY DEF PurchaseInit, ReceiptsOf, Orders, PurchaseOrderStatus
    <2>1. ASSUME NEW w \in Warehouses, NEW i \in Items PROVE ShelfMatches(w, i)
      <3>1. \A o \in Calls : Brought(w, i)[o] = 0
        BY <2>0 DEF Brought, UnitsReceived
      <3>2. SumFunctionOnSet(Brought(w, i), Calls) = 0
        BY <3>1, SumZero
      <3> QED BY <3>2 DEF PurchaseInit, ShelfMatches, Nothing
    <2>2. ASSUME NEW o \in Calls, NEW i \in Items PROVE LineMatches(o, i)
      <3>1. \A k \in ReceiptKeys : Stored(o, i)[k] = 0
        BY <2>0 DEF Stored, ReceiptUnits
      <3>2. SumFunctionOnSet(Stored(o, i), ReceiptKeys) = 0
        BY <3>1, SumZero
      <3> QED BY <3>2 DEF PurchaseInit, LineMatches, Nothing
    <2>3. \A o \in Calls : RowPerReceipt(o) /\ ToldOnce(o)
      <3> SUFFICES ASSUME NEW o \in Calls PROVE RowPerReceipt(o) /\ ToldOnce(o)
        OBVIOUS
      <3>1. outbox[o] = <<>> /\ Len(outbox[o]) = 0 /\ DOMAIN outbox[o] = {}
        BY DEF PurchaseInit
      <3>2. Cardinality(ReceiptsOf(o)) = 0
        BY <2>0, FS_EmptySet
      <3> QED BY <3>1, <3>2 DEF RowPerReceipt, ToldOnce
    <2> QED BY <2>1, <2>2, <2>3 DEF BooksInv
  <1>2. /\ PurchaseInv /\ PurchaseInv' /\ BooksInv
        /\ [PurchaseNext]_purchaseVars
        => BooksInv'
    <2> SUFFICES ASSUME PurchaseInv, PurchaseInv', BooksInv,
                        [PurchaseNext]_purchaseVars
                 PROVE  BooksInv'
      OBVIOUS
    <2>1. ASSUME NEW w \in Warehouses, NEW i \in Items PROVE ShelfMatches(w, i)'
      BY OnlyReceiptsCount, QuietBringsNothing, ReceiptBrings DEF BooksInv
    <2>2. \A o \in Calls, i \in Items : LineMatches(o, i)'
      BY LineMatchesNext DEF BooksInv
    <2>3. \A o \in Calls : RowPerReceipt(o)' /\ ToldOnce(o)'
      BY ToldNext DEF BooksInv
    <2> QED BY <2>1, <2>2, <2>3 DEF BooksInv
  <1>3. PurchaseInv /\ BooksInv => ReceiptsAgree
    <2> SUFFICES ASSUME PurchaseInv, BooksInv PROVE ReceiptsAgree
      OBVIOUS
    <2>1. StockMatchesReceipts
      BY DEF BooksInv, ShelfMatches, Brought, StockMatchesReceipts
    <2>2. ReceivedMatchesReceipts
      BY DEF PurchaseInv, OrderInv, BooksInv, LineMatches, Stored,
             ReceivedMatchesReceipts, Orders
    <2>3. OutboxTellsReceipts
      BY DEF BooksInv, RowPerReceipt, ToldOnce, OutboxTellsReceipts, Orders
    <2> QED BY <2>1, <2>2, <2>3 DEF ReceiptsAgree
  <1> QED BY <1>1, <1>2, <1>3, PurchaseInvariant, PTL DEF PurchaseSpec
=============================================================================
