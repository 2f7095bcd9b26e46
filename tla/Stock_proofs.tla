---------------------------- MODULE Stock_proofs ----------------------------
(***************************************************************************)
(* Proofs about the stock: WarehouseTransfer, for any number of calls,     *)
(* keys, items and receipts, InventoryCosting, for any number of buyers    *)
(* and locations and any amounts and unit costs, and HistoricalFifo, for   *)
(* any length of the ledger.                                               *)
(***************************************************************************)
EXTENDS WarehouseTransfer, InventoryCosting, HistoricalFifo, Sums_proofs,
        TLAPS

USE TransferConstants

(***************************************************************************)
(* The inductive invariant.  Its parts need each other: that a key names   *)
(* one row rests on the types, and that an answer stays right on rows      *)
(* never being rewritten.                                                  *)
(***************************************************************************)
TransferInv ==
    /\ TransferTypeOK
    /\ OneTransferPerKey
    /\ AnswersOwnRequest
    /\ StatusMatchesLines

(***************************************************************************)
(* The initial states satisfy the invariant: there is no transfer yet.     *)
(***************************************************************************)
LEMMA InitInv == TransferInit => TransferInv
<1> SUFFICES ASSUME TransferInit PROVE TransferInv
    OBVIOUS
<1>1. TransferTypeOK
    BY DEF TransferInit, TransferTypeOK, CallStep, TransferStatus, Quantities,
       EventType
<1>2. OneTransferPerKey /\ AnswersOwnRequest
    BY DEF TransferInit, OneTransferPerKey, AnswersOwnRequest, Transfers
<1>3. StatusMatchesLines
    BY <1>1 DEF TransferInit, StatusMatchesLines, TransferTypeOK, Quantities
<1> QED BY <1>1, <1>2, <1>3 DEF TransferInv

(***************************************************************************)
(* Answering a call touches neither transfers nor inputs, and is safe when *)
(* what is answered is a transfer with the key and body of the call.       *)
(***************************************************************************)
LEMMA AnswerInv ==
    ASSUME TransferInv, NEW c \in Calls, NEW step \in CallStep,
           NEW t \in Calls \cup {NoTransfer},
           Answer(c, step, t), UNCHANGED shipmentVars,
           step = "returned" =>
               /\ t \in Transfers
               /\ key[t] = key[c]
               /\ request[t] = request[c]
    PROVE  TransferInv'
<1>1. TransferTypeOK'
    BY DEF TransferInv, TransferTypeOK, Answer, shipmentVars
<1>2. OneTransferPerKey'
    BY DEF TransferInv, OneTransferPerKey, Transfers, Answer, shipmentVars
<1>3. AnswersOwnRequest'
    BY DEF TransferInv, TransferTypeOK, AnswersOwnRequest, Transfers, Answer,
           shipmentVars
<1>4. StatusMatchesLines'
    BY DEF TransferInv, StatusMatchesLines, Answer, shipmentVars
<1> QED BY <1>1, <1>2, <1>3, <1>4 DEF TransferInv

(***************************************************************************)
(* replayOrConflict returns a transfer only to a call with the same body.  *)
(***************************************************************************)
LEMMA ReplayInv ==
    ASSUME TransferInv, NEW c \in Calls, NEW t \in FindByKey(key[c]),
           replayOrConflict(c, t), UNCHANGED shipmentVars
    PROVE  TransferInv'
<1>1. t \in Transfers /\ t \in Calls /\ key[t] = key[c]
    BY DEF FindByKey, Transfers
<1>2. CASE request[t] = request[c]
    BY <1>1, <1>2, AnswerInv DEF replayOrConflict, CallStep
<1>3. CASE request[t] # request[c]
    BY <1>1, <1>3, AnswerInv DEF replayOrConflict, CallStep
<1> QED BY <1>2, <1>3

(***************************************************************************)
(* The steps of create.                                                    *)
(***************************************************************************)
LEMMA CreateInv ==
    ASSUME TransferInv, NEW c \in Calls, create(c)
    PROVE  TransferInv'
<1>1. CASE Check(c)
  <2>1. CASE \E t \in FindByKey(key[c]) : replayOrConflict(c, t)
      BY <1>1, <2>1, ReplayInv DEF Check
  <2>2. CASE Answer(c, "checked", NoTransfer)
      BY <1>1, <2>2, AnswerInv DEF Check, CallStep
  <2> QED BY <1>1, <2>1, <2>2 DEF Check
<1>2. CASE Insert(c)
  <2>1. TransferTypeOK'
      BY <1>2 DEF TransferInv, TransferTypeOK, Insert, Answer, CallStep,
         TransferStatus,
                  EventType
  <2>2. Transfers' = Transfers \cup {c}
      BY <1>2 DEF TransferInv, TransferTypeOK, Insert, Transfers
  <2>3. OneTransferPerKey'
      BY <1>2, <2>2 DEF TransferInv, OneTransferPerKey, Insert, Answer,
                        FindByKey, Transfers
  <2>4. AnswersOwnRequest'
      BY <1>2, <2>2 DEF TransferInv, TransferTypeOK, AnswersOwnRequest,
         Insert, Answer
  <2>5. StatusMatchesLines'
    <3>1. status[c] = "NONE"
        BY <1>2 DEF Insert, FindByKey, Transfers
    <3> QED BY <1>2, <3>1 DEF TransferInv, TransferTypeOK, StatusMatchesLines,
               Insert,
                              Answer
  <2> QED BY <2>1, <2>3, <2>4, <2>5 DEF TransferInv
<1>3. CASE InsertCollides(c)
    BY <1>3, AnswerInv DEF InsertCollides, CallStep
<1>4. CASE InsertFails(c)
    BY <1>4, AnswerInv DEF InsertFails, CallStep
<1>5. CASE Reread(c)
    BY <1>5, ReplayInv DEF Reread
<1> QED BY <1>1, <1>2, <1>3, <1>4, <1>5 DEF create

(***************************************************************************)
(* A step on an existing transfer that keeps it existing disturbs neither  *)
(* the keys nor the answers.                                               *)
(***************************************************************************)
LEMMA KeysKept ==
    ASSUME TransferInv, NEW t \in Calls, NEW s \in TransferStatus \ {"NONE"},
           status[t] # "NONE", status' = [status EXCEPT ![t] = s],
           UNCHANGED callVars
    PROVE  OneTransferPerKey' /\ AnswersOwnRequest'
<1>1. Transfers' = Transfers
    BY DEF TransferInv, TransferTypeOK, Transfers
<1> QED BY <1>1 DEF TransferInv, OneTransferPerKey, AnswersOwnRequest, callVars

(***************************************************************************)
(* ship, receive and cancel.                                               *)
(***************************************************************************)
LEMMA ShipInv ==
    ASSUME TransferInv, NEW t \in Calls, ship(t)
    PROVE  TransferInv'
<1>1. TransferTypeOK'
  <2>1. source' \in Quantities
    <3>1. source \in Quantities /\ request[t] \in Quantities
        BY DEF TransferInv, TransferTypeOK
    <3>2. \A i \in Items : source[i] - request[t][i] \in Nat
      <4> TAKE i \in Items
      <4>1. source[i] \in Nat /\ request[t][i] \in Nat
          BY <3>1 DEF Quantities
      <4>2. source[i] >= request[t][i]
          BY DEF ship
      <4> QED BY <4>1, <4>2
    <3>3. source' = [i \in Items |-> source[i] - request[t][i]]
        BY DEF ship
    <3> QED BY <3>2, <3>3 DEF Quantities
  <2>2. outbox' \in [Calls -> Seq(EventType)]
      BY DEF TransferInv, TransferTypeOK, ship, EventType
  <2> QED BY <2>1, <2>2 DEF TransferInv, TransferTypeOK, ship, callVars,
             TransferStatus
<1>2. OneTransferPerKey' /\ AnswersOwnRequest'
    BY KeysKept DEF ship, TransferStatus
<1>3. StatusMatchesLines'
    BY DEF TransferInv, TransferTypeOK, StatusMatchesLines, ship, callVars
<1> QED BY <1>1, <1>2, <1>3 DEF TransferInv

LEMMA CancelInv ==
    ASSUME TransferInv, NEW t \in Calls, cancel(t)
    PROVE  TransferInv'
<1>1. TransferTypeOK'
  <2>1. outbox' \in [Calls -> Seq(EventType)]
      BY DEF TransferInv, TransferTypeOK, cancel, EventType
  <2> QED BY <2>1 DEF TransferInv, TransferTypeOK, cancel, callVars,
             TransferStatus
<1>2. OneTransferPerKey' /\ AnswersOwnRequest'
    BY KeysKept DEF cancel, TransferStatus
<1>3. StatusMatchesLines'
    BY DEF TransferInv, TransferTypeOK, StatusMatchesLines, cancel, callVars
<1> QED BY <1>1, <1>2, <1>3 DEF TransferInv

LEMMA ReceiveInv ==
    ASSUME TransferInv, NEW t \in Calls, NEW k \in ReceiptKeys,
           NEW q \in ReceiptBodies, receive(t, k, q)
    PROVE  TransferInv'
<1> DEFINE total == [i \in Items |-> received[t][i] + q[i]]
<1>1. q \in Quantities /\ \E i \in Items : q[i] > 0
    BY DEF ReceiptBodies, Quantities
<1>2. received[t] \in Quantities /\ request[t] \in Quantities
    BY DEF TransferInv, TransferTypeOK
<1>3. total \in Quantities
    BY <1>1, <1>2 DEF Quantities
<1>4. /\ received' = [received EXCEPT ![t] = total]
      /\ \A i \in Items : total[i] = received[t][i] + q[i]
    BY DEF receive
<1> HIDE DEF total
<1>5. ReceiptStatus(t, q) \in {"RECEIVED", "PARTIALLY_RECEIVED"}
    BY DEF ReceiptStatus
<1>6. TransferTypeOK'
  <2>1. destination' \in Quantities
    <3>1. destination' = [i \in Items |-> destination[i] + q[i]]
        BY DEF receive
    <3>2. destination \in [Items -> Nat] /\ q \in [Items -> Nat]
        BY <1>1 DEF TransferInv, TransferTypeOK, Quantities
    <3> QED BY <3>1, <3>2 DEF Quantities
  <2>2. received' \in [Calls -> Quantities]
      BY <1>3, <1>4 DEF TransferInv, TransferTypeOK
  <2>3. receipts' \in [Calls -> [ReceiptKeys -> Quantities \cup {NoReceipt}]]
      BY <1>1 DEF TransferInv, TransferTypeOK, receive
  <2>4. status' \in [Calls -> TransferStatus]
      BY <1>5 DEF TransferInv, TransferTypeOK, receive, TransferStatus
  <2>5. outbox' \in [Calls -> Seq(EventType)]
      BY <1>5 DEF TransferInv, TransferTypeOK, receive, EventType
  <2> QED BY <2>1, <2>2, <2>3, <2>4, <2>5
          DEF TransferInv, TransferTypeOK, receive, callVars
<1>7. OneTransferPerKey' /\ AnswersOwnRequest'
    BY <1>5, KeysKept DEF receive, TransferStatus
<1>8. StatusMatchesLines'
  <2>1. \A i \in Items : total[i] <= request[t][i]
      BY <1>4 DEF receive, Receivable
  <2>2. \E i \in Items : total[i] > 0
      BY <1>1, <1>2, <1>4 DEF Quantities
  <2>3. CASE \A i \in Items : total[i] = request[t][i]
    <3>1. ReceiptStatus(t, q) = "RECEIVED"
        BY <1>4, <2>3 DEF ReceiptStatus
    <3> QED BY <1>3, <1>4, <2>1, <2>3, <3>1
            DEF TransferInv, TransferTypeOK, StatusMatchesLines, receive,
            callVars
  <2>4. CASE \E i \in Items : total[i] # request[t][i]
    <3>1. ReceiptStatus(t, q) = "PARTIALLY_RECEIVED"
        BY <1>4, <2>4 DEF ReceiptStatus
    <3>2. \E i \in Items : total[i] < request[t][i]
        BY <1>2, <1>3, <2>1, <2>4 DEF Quantities
    <3> QED BY <1>3, <1>4, <2>1, <2>2, <3>1, <3>2
            DEF TransferInv, TransferTypeOK, StatusMatchesLines, receive,
            callVars
  <2> QED BY <2>3, <2>4
<1> QED BY <1>6, <1>7, <1>8 DEF TransferInv

(***************************************************************************)
(* The invariant holds in every reachable state.                           *)
(***************************************************************************)
THEOREM TransferInvariant == TransferSpec => []TransferInv
<1>1. TransferInit => TransferInv
    BY InitInv
<1>2. TransferInv /\ [TransferNext]_transferVars => TransferInv'
  <2> SUFFICES ASSUME TransferInv, [TransferNext]_transferVars PROVE TransferInv'
      OBVIOUS
  <2>1. CASE UNCHANGED transferVars
      BY <2>1 DEF TransferInv, TransferTypeOK, OneTransferPerKey,
         AnswersOwnRequest,
                  StatusMatchesLines, Transfers, transferVars, callVars,
                  shipmentVars
  <2>2. ASSUME NEW c \in Calls, create(c) PROVE TransferInv'
      BY <2>2, CreateInv
  <2>3. ASSUME NEW t \in Calls, ship(t) PROVE TransferInv'
      BY <2>3, ShipInv
  <2>4. ASSUME NEW t \in Calls, NEW k \in ReceiptKeys, NEW q \in ReceiptBodies,
               receive(t, k, q)
        PROVE  TransferInv'
      BY <2>4, ReceiveInv
  <2>5. ASSUME NEW t \in Calls, cancel(t) PROVE TransferInv'
      BY <2>5, CancelInv
  <2> QED BY <2>1, <2>2, <2>3, <2>4, <2>5 DEF TransferNext
<1> QED BY <1>1, <1>2, PTL DEF TransferSpec

(***************************************************************************)
(* An idempotency key names at most one transfer, however many calls of    *)
(* create race, and create never answers a call with the transfer of       *)
(* another request.                                                        *)
(***************************************************************************)
THEOREM CreateIdempotent == TransferSpec => []CreateIsIdempotent
<1>1. TransferInv => CreateIsIdempotent
    BY DEF TransferInv, CreateIsIdempotent
<1> QED BY <1>1, TransferInvariant, PTL

(***************************************************************************)
(* No transfer receives more than it shipped, and its status agrees with   *)
(* its lines.                                                              *)
(***************************************************************************)
THEOREM LinesMatchStatus == TransferSpec => []StatusMatchesLines
<1>1. TransferInv => StatusMatchesLines
    BY DEF TransferInv
<1> QED BY <1>1, TransferInvariant, PTL

(***************************************************************************)
(* Receipts and final statuses never change.                               *)
(***************************************************************************)
THEOREM FinalHistory == TransferSpec => HistoryIsFinal
<1> DEFINE Kept ==
        \A t \in Calls :
            /\ status[t] \in {"RECEIVED", "CANCELLED"} => status'[t] = status[t]
            /\ \A k \in ReceiptKeys :
                  receipts[t][k] # NoReceipt => receipts'[t][k] = receipts[t][k]
<1>1. TransferInv /\ [TransferNext]_transferVars => Kept
  <2> SUFFICES ASSUME TransferInv, [TransferNext]_transferVars PROVE Kept
      OBVIOUS
  <2>1. CASE UNCHANGED transferVars
      BY <2>1 DEF transferVars, shipmentVars
  <2>2. ASSUME NEW c \in Calls, create(c) PROVE Kept
    <3>1. CASE Insert(c)
      <4>1. status[c] = "NONE"
          BY <3>1 DEF Insert, FindByKey, Transfers
      <4> QED BY <3>1, <4>1 DEF TransferInv, TransferTypeOK, Insert
    <3>2. CASE UNCHANGED shipmentVars
        BY <3>2 DEF shipmentVars
    <3> QED BY <2>2, <3>1, <3>2
            DEF create, Check, InsertCollides, InsertFails, Reread
  <2>3. ASSUME NEW t \in Calls, ship(t) \/ cancel(t) PROVE Kept
      BY <2>3 DEF TransferInv, TransferTypeOK, ship, cancel
  <2>4. ASSUME NEW t \in Calls, NEW k \in ReceiptKeys, NEW q \in ReceiptBodies,
               receive(t, k, q)
        PROVE  Kept
      BY <2>4 DEF TransferInv, TransferTypeOK, receive
  <2> QED BY <2>1, <2>2, <2>3, <2>4 DEF TransferNext
<1>2. TransferSpec => [][Kept]_transferVars
    BY <1>1, TransferInvariant, PTL DEF TransferSpec
<1> QED BY <1>2 DEF HistoryIsFinal
-----------------------------------------------------------------------------
(***************************************************************************)
(* Conservation of stock, one item at a time.  Of the units in transit a   *)
(* step changes those of one transfer.                                     *)
(***************************************************************************)
OnTheWay(i) == [t \in Calls |-> InTransit(t, i)]
ItemConserved(i) ==
    source[i] + destination[i] + SumFunctionOnSet(OnTheWay(i), Calls)
        = InitialStock[i]

LEMMA ItemByItem == StockConserved <=> \A i \in Items : ItemConserved(i)
  BY DEF StockConserved, ItemConserved, OnTheWay

LEMMA OnTheWayType ==
    ASSUME TransferTypeOK, NEW i \in Items
    PROVE  /\ \A t \in Calls : /\ OnTheWay(i)[t] = InTransit(t, i)
                               /\ OnTheWay(i)[t] \in Int
           /\ source[i] \in Nat /\ destination[i] \in Nat
  BY DEF TransferTypeOK, Quantities, OnTheWay, InTransit

(* What a step takes from a transfer it adds to one of the warehouses, or  *)
(* the other way round.                                                    *)
LEMMA TransferMoved ==
    ASSUME TransferTypeOK, TransferTypeOK', NEW i \in Items, ItemConserved(i),
           NEW t \in Calls,
           \A u \in Calls : u # t => InTransit(u, i)' = InTransit(u, i),
           source'[i] + destination'[i]
               = source[i] + destination[i] - (InTransit(t, i)' - InTransit(t, i))
    PROVE  ItemConserved(i)'
  <1>1. /\ \A u \in Calls : /\ OnTheWay(i)[u] = InTransit(u, i)
                            /\ OnTheWay(i)[u] \in Int
        /\ source[i] \in Nat /\ destination[i] \in Nat
    BY OnTheWayType
  <1>2. /\ \A u \in Calls : /\ OnTheWay(i)'[u] = InTransit(u, i)'
                            /\ OnTheWay(i)'[u] \in Int
        /\ source'[i] \in Nat /\ destination'[i] \in Nat
    <2>1. /\ \A u \in Calls : request'[u][i] \in Nat /\ received'[u][i] \in Nat
          /\ source'[i] \in Nat /\ destination'[i] \in Nat
      BY DEF TransferTypeOK, Quantities
    <2>2. \A u \in Calls : InTransit(u, i)' \in Int
      BY <2>1 DEF InTransit
    <2> QED BY <2>1, <2>2 DEF OnTheWay
  <1>3. \A u \in Calls : u # t => OnTheWay(i)'[u] = OnTheWay(i)[u]
    BY <1>1, <1>2
  <1>4. /\ SumFunctionOnSet(OnTheWay(i)', Calls)
             = SumFunctionOnSet(OnTheWay(i), Calls)
                 + (OnTheWay(i)'[t] - OnTheWay(i)[t])
        /\ SumFunctionOnSet(OnTheWay(i), Calls) \in Int
    BY <1>1, <1>2, <1>3, SumUpdate, SumInt
  <1>5. source[i] + destination[i] + SumFunctionOnSet(OnTheWay(i), Calls)
          = InitialStock[i]
    BY DEF ItemConserved
  <1>6. source'[i] + destination'[i] + SumFunctionOnSet(OnTheWay(i)', Calls)
          = InitialStock[i]
    BY <1>1, <1>2, <1>4, <1>5
  <1> QED BY <1>6 DEF ItemConserved

(* A step that moves no unit.                                              *)
LEMMA NothingMoved ==
    ASSUME TransferTypeOK, NEW i \in Items, ItemConserved(i),
           UNCHANGED <<source, destination>>,
           \A u \in Calls : InTransit(u, i)' = InTransit(u, i)
    PROVE  ItemConserved(i)'
  <1>1. OnTheWay(i)' = OnTheWay(i)
    BY DEF OnTheWay
  <1> QED BY <1>1 DEF ItemConserved

(* Every step conserves every item.                                        *)
LEMMA ItemConservedNext ==
    ASSUME TransferInv, TransferInv', [TransferNext]_transferVars,
           NEW i \in Items, ItemConserved(i)
    PROVE  ItemConserved(i)'
  <1> USE DEF TransferInv
  <1>1. CASE UNCHANGED shipmentVars /\ UNCHANGED request
    BY <1>1, NothingMoved DEF shipmentVars, InTransit
  <1>2. ASSUME NEW c \in Calls, Insert(c) PROVE ItemConserved(i)'
    <2>1. status[c] = "NONE"
      BY <1>2 DEF Insert, FindByKey, Transfers
    <2>2. \A u \in Calls : InTransit(u, i)' = InTransit(u, i)
      BY <1>2, <2>1 DEF TransferTypeOK, Insert, Answer, InTransit, Shipped
    <2> QED BY <1>2, <2>2, NothingMoved DEF Insert
  <1>3. ASSUME NEW t \in Calls, cancel(t) PROVE ItemConserved(i)'
    <2>1. \A u \in Calls : InTransit(u, i)' = InTransit(u, i)
      BY <1>3 DEF TransferTypeOK, cancel, callVars, InTransit, Shipped
    <2> QED BY <1>3, <2>1, NothingMoved DEF cancel
  <1>4. ASSUME NEW t \in Calls, ship(t) PROVE ItemConserved(i)'
    <2>1. /\ InTransit(t, i) = 0
          /\ InTransit(t, i)' = request[t][i] - received[t][i]
          /\ \A u \in Calls : u # t => InTransit(u, i)' = InTransit(u, i)
      BY <1>4 DEF TransferTypeOK, ship, callVars, InTransit, Shipped
    <2>2. received[t][i] = 0
      BY <1>4 DEF ship, StatusMatchesLines
    <2>3. /\ request[t][i] \in Nat /\ source[i] \in Nat
          /\ destination[i] \in Nat
      BY DEF TransferTypeOK, Quantities
    <2>4. source'[i] = source[i] - request[t][i] /\ destination'[i] = destination[i]
      BY <1>4 DEF ship
    <2>5. source'[i] + destination'[i]
            = source[i] + destination[i] - (InTransit(t, i)' - InTransit(t, i))
      BY <2>1, <2>2, <2>3, <2>4
    <2> QED BY <2>1, <2>5, TransferMoved
  <1>5. ASSUME NEW t \in Calls, NEW k \in ReceiptKeys, NEW q \in ReceiptBodies,
               receive(t, k, q)
        PROVE  ItemConserved(i)'
    <2>1. /\ q[i] \in Nat /\ request[t][i] \in Nat /\ received[t][i] \in Nat
          /\ source[i] \in Nat /\ destination[i] \in Nat
      BY DEF ReceiptBodies, TransferTypeOK, Quantities
    <2>2. status'[t] \in Shipped /\ \A u \in Calls : u # t => status'[u] = status[u]
      BY <1>5 DEF TransferTypeOK, receive, ReceiptStatus, Shipped
    <2>3. /\ received'[t][i] = received[t][i] + q[i]
          /\ \A u \in Calls : u # t => received'[u] = received[u]
      BY <1>5 DEF TransferTypeOK, receive
    <2>4. /\ InTransit(t, i) = request[t][i] - received[t][i]
          /\ InTransit(t, i)' = request[t][i] - (received[t][i] + q[i])
          /\ \A u \in Calls : u # t => InTransit(u, i)' = InTransit(u, i)
      BY <1>5, <2>2, <2>3 DEF receive, callVars, InTransit, Shipped
    <2>5. source'[i] = source[i] /\ destination'[i] = destination[i] + q[i]
      BY <1>5 DEF receive
    <2>6. source'[i] + destination'[i]
            = source[i] + destination[i] - (InTransit(t, i)' - InTransit(t, i))
      BY <2>1, <2>4, <2>5
    <2> QED BY <2>4, <2>6, TransferMoved
  <1> QED
    BY <1>1, <1>2, <1>3, <1>4, <1>5 DEF TransferNext, create, Check,
       InsertCollides, InsertFails, Reread, replayOrConflict, Answer,
       transferVars, callVars, shipmentVars

(***************************************************************************)
(* No unit of any item is lost or created by shipments and receipts,       *)
(* however many transfers there are and however often a request is sent.   *)
(***************************************************************************)
THEOREM NoUnitLost == TransferSpec => []StockConserved
  <1>1. TransferInit => StockConserved
    <2> SUFFICES ASSUME TransferInit, NEW i \in Items PROVE ItemConserved(i)
      BY ItemByItem
    <2>1. \A t \in Calls : OnTheWay(i)[t] = 0
      BY DEF TransferInit, OnTheWay, InTransit, Shipped
    <2>2. SumFunctionOnSet(OnTheWay(i), Calls) = 0
      BY <2>1, SumZero
    <2> QED BY <2>2 DEF TransferInit, ItemConserved, Quantities
  <1>2. /\ TransferInv /\ TransferInv' /\ StockConserved
        /\ [TransferNext]_transferVars
        => StockConserved'
    <2> SUFFICES ASSUME TransferInv, TransferInv', StockConserved,
                        [TransferNext]_transferVars
                 PROVE  StockConserved'
      OBVIOUS
    <2>1. \A i \in Items : ItemConserved(i)'
      BY ItemByItem, ItemConservedNext
    <2> QED BY <2>1 DEF StockConserved, ItemConserved, OnTheWay
  <1> QED BY <1>1, <1>2, TransferInvariant, PTL DEF TransferSpec
-----------------------------------------------------------------------------
(***************************************************************************)
(* Receipts: a receipt adds its units to the sum of the stored receipts,   *)
(* because the key had none before.                                        *)
(***************************************************************************)
Stored(t, i) == [k \in ReceiptKeys |-> ReceiptUnits(t, k, i)]
LineMatches(t, i) ==
    received[t][i] = SumFunctionOnSet(Stored(t, i), ReceiptKeys)

LEMMA LineByLine ==
    ReceivedMatchesReceipts <=> \A t \in Calls, i \in Items : LineMatches(t, i)
  BY DEF ReceivedMatchesReceipts, LineMatches, Stored

LEMMA LineMatchesNext ==
    ASSUME TransferInv, [TransferNext]_transferVars,
           NEW t \in Calls, NEW i \in Items, LineMatches(t, i)
    PROVE  LineMatches(t, i)'
  <1> USE DEF TransferInv
  <1>1. CASE received'[t] = received[t] /\ receipts'[t] = receipts[t]
    <2>1. Stored(t, i)' = Stored(t, i)
      BY <1>1 DEF Stored, ReceiptUnits
    <2> QED BY <1>1, <2>1 DEF LineMatches
  <1>2. ASSUME NEW k \in ReceiptKeys, NEW q \in ReceiptBodies, receive(t, k, q)
        PROVE  LineMatches(t, i)'
    <2>1. q[i] \in Nat /\ received[t][i] \in Nat /\ q # NoReceipt
      BY DEF ReceiptBodies, TransferTypeOK, Quantities
    <2>2. /\ receipts[t][k] = NoReceipt
          /\ receipts'[t] = [receipts[t] EXCEPT ![k] = q]
          /\ received'[t][i] = received[t][i] + q[i]
      BY <1>2 DEF TransferTypeOK, receive
    <2>3. receipts[t] \in [ReceiptKeys -> Quantities \cup {NoReceipt}]
      BY DEF TransferTypeOK
    <2>4. /\ Stored(t, i)[k] = 0 /\ Stored(t, i)'[k] = q[i]
          /\ \A n \in ReceiptKeys : n # k => Stored(t, i)'[n] = Stored(t, i)[n]
      BY <2>1, <2>2, <2>3 DEF Stored, ReceiptUnits
    <2>5. \A n \in ReceiptKeys : Stored(t, i)[n] \in Int
      BY <2>3 DEF Stored, ReceiptUnits, Quantities
    <2>6. /\ SumFunctionOnSet(Stored(t, i)', ReceiptKeys)
               = SumFunctionOnSet(Stored(t, i), ReceiptKeys)
                   + (Stored(t, i)'[k] - Stored(t, i)[k])
          /\ SumFunctionOnSet(Stored(t, i), ReceiptKeys) \in Int
      <3>1. Stored(t, i)'[k] \in Int
        BY <2>1, <2>4
      <3> QED BY <2>4, <2>5, <3>1, SumUpdate, SumInt
    <2> QED BY <2>1, <2>2, <2>4, <2>6 DEF LineMatches
  <1>3. ASSUME NEW u \in Calls, NEW k \in ReceiptKeys, NEW q \in ReceiptBodies,
               receive(u, k, q), u # t
        PROVE  received'[t] = received[t] /\ receipts'[t] = receipts[t]
    BY <1>3 DEF TransferTypeOK, receive
  <1> QED
    BY <1>1, <1>2, <1>3 DEF TransferNext, create, Check, Insert,
       InsertCollides, InsertFails, Reread, ship, cancel,
       transferVars, callVars, shipmentVars

(***************************************************************************)
(* Events: those told up to a status.  Each status has an event of its     *)
(* own that was not told before, except that receipts may be partial again *)
(* and again.                                                              *)
(***************************************************************************)
Told == [
    NONE               |-> {},
    PENDING            |-> {"CREATED"},
    IN_TRANSIT         |-> {"CREATED", "SHIPPED"},
    PARTIALLY_RECEIVED |-> {"CREATED", "SHIPPED", "PARTIALLY_RECEIVED"},
    RECEIVED           |-> {"CREATED", "SHIPPED", "PARTIALLY_RECEIVED", "RECEIVED"},
    CANCELLED          |-> {"CREATED", "CANCELLED"}]

StoryOf(t) ==
    /\ \A n \in DOMAIN outbox[t] : outbox[t][n] \in Told[status[t]]
    /\ status[t] # "NONE" =>
         /\ outbox[t] # <<>>
         /\ outbox[t][Len(outbox[t])] = EventOf(status[t])
    /\ \A m, n \in DOMAIN outbox[t] :
          outbox[t][m] = outbox[t][n] /\ outbox[t][m] # "PARTIALLY_RECEIVED"
            => m = n

(* s can come after r: its event is new, and nothing is untold.            *)
Succeeds(r, s) ==
    /\ s # "NONE" /\ EventOf(s) \in EventType \cap Told[s]
    /\ Told[r] \subseteq Told[s]
    /\ EventOf(s) \in Told[r] => EventOf(s) = "PARTIALLY_RECEIVED"

LEMMA StatusesSucceed ==
    /\ Succeeds("NONE", "PENDING")
    /\ Succeeds("PENDING", "IN_TRANSIT")
    /\ Succeeds("PENDING", "CANCELLED")
    /\ \A r \in {"IN_TRANSIT", "PARTIALLY_RECEIVED"} :
         Succeeds(r, "PARTIALLY_RECEIVED") /\ Succeeds(r, "RECEIVED")
  BY DEF Succeeds, EventOf, Told, EventType

LEMMA OwnEvents ==
    /\ EventOf("PENDING") = "CREATED" /\ EventOf("IN_TRANSIT") = "SHIPPED"
    /\ \A s \in {"PARTIALLY_RECEIVED", "RECEIVED", "CANCELLED"} : EventOf(s) = s
  BY DEF EventOf

(* A change of status that appends its event keeps the story.              *)
LEMMA StoryGoesOn ==
    ASSUME TransferTypeOK, NEW t \in Calls, NEW s,
           status' = [status EXCEPT ![t] = s],
           outbox' = [outbox EXCEPT ![t] = Append(@, EventOf(s))],
           Succeeds(status[t], s),
           StoryOf(t)
    PROVE  StoryOf(t)'
  <1> DEFINE b == outbox[t]
             e == EventOf(s)
             n == Len(b)
  <1>1. b \in Seq(EventType) /\ n \in Nat
    BY DEF TransferTypeOK
  <1>2. status'[t] = s /\ outbox'[t] = Append(b, e)
    BY DEF TransferTypeOK
  <1>3. /\ s # "NONE" /\ e \in EventType /\ e \in Told[s]
        /\ Told[status[t]] \subseteq Told[s]
        /\ e \in Told[status[t]] => e = "PARTIALLY_RECEIVED"
    BY DEF Succeeds
  <1> HIDE DEF e
  <1>4. /\ Append(b, e) # <<>> /\ Len(Append(b, e)) = n + 1
        /\ DOMAIN Append(b, e) = 1..(n + 1) /\ DOMAIN b = 1..n
        /\ Append(b, e)[n + 1] = e
        /\ \A m \in 1..n : Append(b, e)[m] = b[m]
    BY <1>1, <1>3
  <1>5. \A m \in 1..n : b[m] \in Told[status[t]]
    BY <1>4 DEF StoryOf
  <1>6. \A m \in 1..(n + 1) : Append(b, e)[m] \in Told[s]
    <2> TAKE m \in 1..(n + 1)
    <2>1. CASE m = n + 1
      BY <1>3, <1>4, <2>1
    <2>2. CASE m \in 1..n
      BY <1>3, <1>4, <1>5, <2>2
    <2> QED BY <1>1, <2>1, <2>2
  <1>7. ASSUME NEW l \in 1..(n + 1), NEW m \in 1..(n + 1),
               Append(b, e)[l] = Append(b, e)[m],
               Append(b, e)[l] # "PARTIALLY_RECEIVED"
        PROVE  l = m
    <2>1. CASE l \in 1..n /\ m \in 1..n
      BY <1>4, <1>7, <2>1 DEF StoryOf
    <2>2. CASE l = n + 1 /\ m \in 1..n
      <3>1. e \in Told[status[t]] /\ e # "PARTIALLY_RECEIVED"
        BY <1>4, <1>5, <1>7, <2>2
      <3> QED BY <1>3, <3>1
    <2>3. CASE m = n + 1 /\ l \in 1..n
      <3>1. e \in Told[status[t]] /\ e # "PARTIALLY_RECEIVED"
        BY <1>4, <1>5, <1>7, <2>3
      <3> QED BY <1>3, <3>1
    <2>4. l \in 1..n \/ l = n + 1
      BY <1>1
    <2>5. m \in 1..n \/ m = n + 1
      BY <1>1
    <2> QED BY <2>1, <2>2, <2>3, <2>4, <2>5
  <1> HIDE DEF n, b
  <1> QED BY <1>2, <1>3, <1>4, <1>6, <1>7 DEF StoryOf, e

LEMMA StoryNext ==
    ASSUME TransferInv, [TransferNext]_transferVars, NEW t \in Calls, StoryOf(t)
    PROVE  StoryOf(t)'
  <1> USE DEF TransferInv
  <1>1. CASE status'[t] = status[t] /\ outbox'[t] = outbox[t]
    BY <1>1 DEF StoryOf
  <1>2. CASE Insert(t)
    <2>1. status[t] = "NONE"
      BY <1>2 DEF Insert, FindByKey, Transfers
    <2> QED BY <1>2, <2>1, StatusesSucceed, OwnEvents, StoryGoesOn DEF Insert
  <1>3. CASE ship(t)
    BY <1>3, StatusesSucceed, OwnEvents, StoryGoesOn DEF ship
  <1>4. CASE cancel(t)
    BY <1>4, StatusesSucceed, OwnEvents, StoryGoesOn DEF cancel
  <1>5. ASSUME NEW k \in ReceiptKeys, NEW q \in ReceiptBodies, receive(t, k, q)
        PROVE  StoryOf(t)'
    <2> DEFINE s == ReceiptStatus(t, q)
    <2>1. /\ s \in {"RECEIVED", "PARTIALLY_RECEIVED"}
          /\ status[t] \in {"IN_TRANSIT", "PARTIALLY_RECEIVED"}
          /\ status' = [status EXCEPT ![t] = s]
          /\ outbox' = [outbox EXCEPT ![t] = Append(@, s)]
      BY <1>5 DEF receive, ReceiptStatus
    <2> HIDE DEF s
    <2>2. EventOf(s) = s /\ Succeeds(status[t], s)
      BY <2>1, StatusesSucceed, OwnEvents
    <2> QED BY <2>1, <2>2, StoryGoesOn
  <1>6. ASSUME NEW u \in Calls, u # t,
               \/ Insert(u) \/ ship(u) \/ cancel(u)
               \/ \E k \in ReceiptKeys, q \in ReceiptBodies : receive(u, k, q)
        PROVE  status'[t] = status[t] /\ outbox'[t] = outbox[t]
    BY <1>6 DEF TransferTypeOK, Insert, ship, cancel, receive
  <1> QED
    BY <1>1, <1>2, <1>3, <1>4, <1>5, <1>6 DEF TransferNext, create, Check,
       InsertCollides, InsertFails, Reread, transferVars, callVars, shipmentVars

(* Receipts and events together.                                           *)
BooksInv ==
    /\ \A t \in Calls, i \in Items : LineMatches(t, i)
    /\ \A t \in Calls : StoryOf(t)

(***************************************************************************)
(* What a transfer counts as received is the sum of its stored receipts,   *)
(* its status agrees with its lines and its events with its status, for    *)
(* any number of receipts under any keys, sent however often.              *)
(***************************************************************************)
THEOREM BooksAgree == TransferSpec => []TransferBooksAgree
  <1>1. TransferInit => BooksInv
    <2> SUFFICES ASSUME TransferInit PROVE BooksInv
      OBVIOUS
    <2>1. ASSUME NEW t \in Calls, NEW i \in Items PROVE LineMatches(t, i)
      <3>1. \A k \in ReceiptKeys : Stored(t, i)[k] = 0
        BY DEF TransferInit, Stored, ReceiptUnits
      <3>2. SumFunctionOnSet(Stored(t, i), ReceiptKeys) = 0
        BY <3>1, SumZero
      <3> QED BY <3>2 DEF TransferInit, LineMatches
    <2>2. \A t \in Calls : StoryOf(t)
      BY DEF TransferInit, StoryOf
    <2> QED BY <2>1, <2>2 DEF BooksInv
  <1>2. TransferInv /\ BooksInv /\ [TransferNext]_transferVars => BooksInv'
    <2> SUFFICES ASSUME TransferInv, BooksInv, [TransferNext]_transferVars
                 PROVE  BooksInv'
      OBVIOUS
    <2>1. \A t \in Calls, i \in Items : LineMatches(t, i)'
      BY LineMatchesNext DEF BooksInv
    <2>2. \A t \in Calls : StoryOf(t)'
      BY StoryNext DEF BooksInv
    <2> QED BY <2>1, <2>2 DEF BooksInv
  <1>3. TransferInv /\ BooksInv => TransferBooksAgree
    <2> SUFFICES ASSUME TransferInv, BooksInv PROVE TransferBooksAgree
      OBVIOUS
    <2>1. ReceivedMatchesReceipts
      BY LineByLine DEF BooksInv
    <2>2. OutboxTellsStatus
      BY DEF BooksInv, StoryOf, OutboxTellsStatus, Transfers
    <2> QED BY <2>1, <2>2 DEF TransferInv, TransferBooksAgree
  <1> QED BY <1>1, <1>2, <1>3, TransferInvariant, PTL DEF TransferSpec

HIDE TransferConstants
-----------------------------------------------------------------------------
(***************************************************************************)
(* InventoryCosting.  The inductive invariant adds to the two invariants   *)
(* the shipment's allocations, the adjustment that holds the item lock and *)
(* averages that are fractions.                                            *)
(***************************************************************************)

(* An average of unit costs: a fraction between two of them.               *)
Between(a) ==
    \E low, high \in Costs : low * a.q <= a.v /\ a.v <= high * a.q
Averaged(a) == a.q > 0 /\ Between(a)

Fractions == [v : Nat, q : Nat]
Parts == [left : Nat, cost : Nat]
Layers == [at : At, left : Nat, cost : Nat]
PartLefts == [i \in 1..Len(shipment.parts) |-> shipment.parts[i].left]

(* A transfer that was shipped: its allocations add up to the units sent   *)
(* under FIFO, and have an average otherwise.                              *)
ShipmentInv ==
    /\ shipment \in [sent : Nat, received : Nat, parts : Seq(Parts),
                     unit : Fractions]
    /\ shipment.received <= shipment.sent
    /\ shipment.sent = 0 => shipment.parts = <<>>
    /\ isFifo => Total(PartLefts) = shipment.sent
    /\ ~isFifo => shipment.parts = <<>>
    /\ shipment.sent > 0 => locked
    /\ shipment.sent > 0 /\ ~isFifo => Averaged(shipment.unit)

(* The adjustment in progress read a balance that has only grown since,    *)
(* because no one but a release works beside it.                           *)
Adjustment == [at : At, before : Nat, delta : Deltas, cost : Nat,
               up : SUBSET At]
AdjustingInv ==
    \/ adjusting = Idle
    \/ /\ adjusting \in Adjustment
       /\ adjusting.delta > 0 => adjusting.cost \in Costs
       /\ adjusting.before <= onHand[adjusting.at]
       /\ adjusting.before + adjusting.delta >= 0
       /\ method # "NONE"
       /\ adjusting.up \subseteq {adjusting.at}
       /\ adjusting.up # {} /\ ~isFifo =>
             average[Pool(adjusting.at)] # NoCost

CostingInv ==
    /\ CostingTypeOK /\ StockIsCosted /\ ValueConserved
    /\ ShipmentInv /\ AdjustingInv
    /\ \A l \in At : average[l] = NoCost \/ Averaged(average[l])
    /\ ~isFifo => layers = <<>>
    /\ ~locked => valueOut = 0
    /\ method = "NONE" => ~locked
-----------------------------------------------------------------------------
(***************************************************************************)
(* Sums over the first entries of a sequence.                              *)
(***************************************************************************)
LEMMA FunctionIsSeq ==
  ASSUME NEW S, NEW n \in Nat, NEW f \in [1..n -> S]
  PROVE  f \in Seq(S) /\ Len(f) = n /\ DOMAIN f = 1..n
  OBVIOUS

LEMMA SumToZero == \A s : SumTo(s, 0) = 0
  <1>1. 1..0 = {}
    OBVIOUS
  <1> QED
    BY <1>1, SumEmpty DEF SumTo

LEMMA SumToNext ==
  ASSUME NEW n \in Nat, NEW s, \A i \in 1..(n + 1) : s[i] \in Int
  PROVE  SumTo(s, n + 1) = SumTo(s, n) + s[n + 1]
  <1>1. /\ 1..(n + 1) = (1..n) \cup {n + 1} /\ n + 1 \notin 1..n
        /\ \A i \in (1..n) \cup {n + 1} : s[i] \in Int
    OBVIOUS
  <1>2. IsFiniteSet(1..n)
    BY FS_Interval
  <1>3. SumFunctionOnSet(s, (1..n) \cup {n + 1})
          = s[n + 1] + SumFunctionOnSet(s, 1..n)
    BY <1>1, <1>2, SumAdd
  <1>4. SumFunctionOnSet(s, 1..n) \in Int /\ s[n + 1] \in Int
    BY <1>1, <1>2, SumInt
  <1>5. SumTo(s, n + 1) = SumFunctionOnSet(s, (1..n) \cup {n + 1})
    BY <1>1 DEF SumTo
  <1> QED
    BY <1>3, <1>4, <1>5 DEF SumTo

LEMMA SumToInt ==
  ASSUME NEW n \in Nat, NEW s, \A i \in 1..n : s[i] \in Int
  PROVE  SumTo(s, n) \in Int
  <1>1. IsFiniteSet(1..n)
    BY FS_Interval
  <1> QED
    BY <1>1, SumInt DEF SumTo

LEMMA SumToNat ==
  ASSUME NEW n \in Nat, NEW s, \A i \in 1..n : s[i] \in Nat
  PROVE  SumTo(s, n) \in Nat
  <1>1. IsFiniteSet(1..n)
    BY FS_Interval
  <1> QED
    BY <1>1, SumNat DEF SumTo

LEMMA SumToSame ==
  ASSUME NEW n \in Nat, NEW s, NEW t, \A i \in 1..n : s[i] = t[i]
  PROVE  SumTo(s, n) = SumTo(t, n)
  <1>1. IsFiniteSet(1..n)
    BY FS_Interval
  <1> QED
    BY <1>1, SumSame DEF SumTo

LEMMA SumToNull ==
  ASSUME NEW n \in Nat, NEW s, \A i \in 1..n : s[i] = 0
  PROVE  SumTo(s, n) = 0
  <1>1. IsFiniteSet(1..n)
    BY FS_Interval
  <1> QED
    BY <1>1, SumZero DEF SumTo

(* One entry is at most the sum, if none is negative.                      *)
LEMMA SumToEntry ==
  ASSUME NEW n \in Nat, NEW s, \A i \in 1..n : s[i] \in Nat, NEW k \in 1..n
  PROVE  s[k] <= SumTo(s, n)
  <1>1. IsFiniteSet(1..n) /\ IsFiniteSet((1..n) \ {k})
    <2>1. IsFiniteSet(1..n)
      BY FS_Interval
    <2> QED
      BY <2>1, FS_RemoveElement
  <1>2. \A i \in 1..n : s[i] \in Int
    OBVIOUS
  <1>3. SumFunctionOnSet(s, 1..n) = s[k] + SumFunctionOnSet(s, (1..n) \ {k})
    BY <1>1, <1>2, SumRemove
  <1>4. SumFunctionOnSet(s, (1..n) \ {k}) \in Nat
    BY <1>1, SumNat
  <1> QED
    BY <1>3, <1>4 DEF SumTo

LEMMA SumToMinus ==
  ASSUME NEW n \in Nat, NEW a, NEW b, NEW c,
         \A i \in 1..n : a[i] \in Int /\ b[i] \in Int /\ c[i] = a[i] - b[i]
  PROVE  SumTo(c, n) = SumTo(a, n) - SumTo(b, n)
  <1> DEFINE P == {k \in Nat : k <= n =>
                     SumTo(c, k) = SumTo(a, k) - SumTo(b, k)}
  <1>1. 0 \in P
    BY SumToZero
  <1>2. ASSUME NEW k \in Nat, k \in P PROVE k + 1 \in P
    <2> SUFFICES ASSUME k + 1 <= n
                 PROVE  SumTo(c, k + 1) = SumTo(a, k + 1) - SumTo(b, k + 1)
      OBVIOUS
    <2>1. \A i \in 1..(k + 1) : a[i] \in Int /\ b[i] \in Int /\ c[i] \in Int
      OBVIOUS
    <2>2. /\ SumTo(a, k + 1) = SumTo(a, k) + a[k + 1]
          /\ SumTo(b, k + 1) = SumTo(b, k) + b[k + 1]
          /\ SumTo(c, k + 1) = SumTo(c, k) + c[k + 1]
      BY <2>1, SumToNext
    <2>3. /\ SumTo(a, k) \in Int /\ SumTo(b, k) \in Int
          /\ SumTo(c, k) = SumTo(a, k) - SumTo(b, k)
      BY <1>2, <2>1, SumToInt
    <2>4. c[k + 1] = a[k + 1] - b[k + 1] /\ a[k + 1] \in Int /\ b[k + 1] \in Int
      OBVIOUS
    <2> QED
      BY <2>2, <2>3, <2>4
  <1> HIDE DEF P
  <1>3. Nat \subseteq P
    BY <1>1, <1>2, NatSetInduction
  <1> QED
    BY <1>3 DEF P

LEMMA SumToPlus ==
  ASSUME NEW n \in Nat, NEW a, NEW b, NEW c,
         \A i \in 1..n : a[i] \in Int /\ b[i] \in Int /\ c[i] = a[i] + b[i]
  PROVE  SumTo(c, n) = SumTo(a, n) + SumTo(b, n)
  <1>1. \A i \in 1..n : c[i] \in Int /\ a[i] \in Int /\ b[i] = c[i] - a[i]
    OBVIOUS
  <1>2. SumTo(b, n) = SumTo(c, n) - SumTo(a, n)
    BY <1>1, SumToMinus
  <1>3. SumTo(c, n) \in Int /\ SumTo(a, n) \in Int
    BY <1>1, SumToInt
  <1> QED
    BY <1>2, <1>3

(* A sequence of m entries followed by one of n.                           *)
Joins(a, m, b, n, c) ==
    /\ \A i \in 1..m : a[i] \in Int /\ c[i] = a[i]
    /\ \A i \in 1..n : b[i] \in Int /\ c[m + i] = b[i]

LEMMA SumToJoin ==
  ASSUME NEW m \in Nat, NEW n \in Nat, NEW a, NEW b, NEW c,
         Joins(a, m, b, n, c)
  PROVE  SumTo(c, m + n) = SumTo(a, m) + SumTo(b, n)
  <1> USE DEF Joins
  <1> DEFINE P == {k \in Nat : k <= n =>
                     SumTo(c, m + k) = SumTo(a, m) + SumTo(b, k)}
  <1>0. SumTo(a, m) \in Int /\ SumTo(a, m) = SumTo(c, m)
    BY SumToInt, SumToSame
  <1>1. 0 \in P
    BY <1>0, SumToZero
  <1>2. ASSUME NEW k \in Nat, k \in P PROVE k + 1 \in P
    <2> SUFFICES ASSUME k + 1 <= n
                 PROVE  SumTo(c, m + (k + 1)) = SumTo(a, m) + SumTo(b, k + 1)
      OBVIOUS
    <2>1. \A i \in 1..((m + k) + 1) : c[i] \in Int
      <3> SUFFICES ASSUME NEW i \in 1..((m + k) + 1), i \notin 1..m
                   PROVE  c[i] \in Int
        OBVIOUS
      <3>1. i - m \in 1..n /\ m + (i - m) = i
        OBVIOUS
      <3>2. b[i - m] \in Int /\ c[m + (i - m)] = b[i - m]
        BY <3>1
      <3> QED
        BY <3>1, <3>2
    <2>2. \A i \in 1..(k + 1) : b[i] \in Int
      OBVIOUS
    <2>3. SumTo(c, (m + k) + 1) = SumTo(c, m + k) + c[(m + k) + 1]
      <3>1. m + k \in Nat
        OBVIOUS
      <3> QED
        BY <2>1, <3>1, SumToNext
    <2>4. SumTo(b, k + 1) = SumTo(b, k) + b[k + 1] /\ SumTo(b, k) \in Int
      BY <2>2, SumToNext, SumToInt
    <2>5. /\ c[m + (k + 1)] = b[k + 1] /\ b[k + 1] \in Int
          /\ m + (k + 1) = (m + k) + 1
      OBVIOUS
    <2>6. SumTo(c, m + k) = SumTo(a, m) + SumTo(b, k)
      BY <1>2
    <2> QED
      BY <1>0, <2>3, <2>4, <2>5, <2>6
  <1> HIDE DEF P
  <1>3. Nat \subseteq P
    BY <1>1, <1>2, NatSetInduction
  <1> QED
    BY <1>3 DEF P
-----------------------------------------------------------------------------
(***************************************************************************)
(* Units taken in order.                                                   *)
(***************************************************************************)
LEMMA OfTwo ==
  ASSUME NEW a \in Int, NEW b \in Int
  PROVE  /\ Min({a, b}) = IF a <= b THEN a ELSE b
         /\ Max({a, b}) = IF a >= b THEN a ELSE b
  BY DEF Min, Max

Taken(s, n, i) == InOrder(s, n)[i]

LEMMA InOrderIs ==
  ASSUME NEW s \in Seq(Nat), NEW n \in Nat
  PROVE  /\ InOrder(s, n) \in Seq(Nat) /\ Len(InOrder(s, n)) = Len(s)
         /\ \A i \in 1..Len(s) :
              /\ InOrder(s, n)[i] \in Nat /\ InOrder(s, n)[i] <= s[i]
              /\ SumTo(s, i - 1) \in Nat /\ s[i] \in Nat
              /\ InOrder(s, n)[i] =
                   LET d == n - SumTo(s, i - 1)
                       e == IF 0 >= d THEN 0 ELSE d
                   IN  IF s[i] <= e THEN s[i] ELSE e
  <1>1. ASSUME NEW i \in 1..Len(s)
        PROVE  /\ InOrder(s, n)[i] \in Nat /\ InOrder(s, n)[i] <= s[i]
               /\ SumTo(s, i - 1) \in Nat /\ s[i] \in Nat
               /\ InOrder(s, n)[i] =
                    LET d == n - SumTo(s, i - 1)
                        e == IF 0 >= d THEN 0 ELSE d
                    IN  IF s[i] <= e THEN s[i] ELSE e
    <2>1. i - 1 \in Nat /\ s[i] \in Nat /\ \A j \in 1..(i - 1) : s[j] \in Nat
      OBVIOUS
    <2>2. SumTo(s, i - 1) \in Nat
      BY <2>1, SumToNat
    <2>3. InOrder(s, n)[i] = Min({s[i], Max({0, n - SumTo(s, i - 1)})})
      BY DEF InOrder
    <2>4. PICK e : e = Max({0, n - SumTo(s, i - 1)})
      OBVIOUS
    <2>5. e \in Nat /\ e = (LET d == n - SumTo(s, i - 1)
                            IN  IF 0 >= d THEN 0 ELSE d)
      <3>1. PICK d \in Int : d = n - SumTo(s, i - 1)
        BY <2>2
      <3>2. Max({0, d}) = IF 0 >= d THEN 0 ELSE d
        BY DEF Max
      <3> QED
        BY <2>4, <3>1, <3>2
    <2>6. InOrder(s, n)[i] = IF s[i] <= e THEN s[i] ELSE e
      <3>1. PICK a \in Nat : a = s[i]
        BY <2>1
      <3>2. Min({a, e}) = IF a <= e THEN a ELSE e
        BY <2>5, OfTwo
      <3>3. InOrder(s, n)[i] = Min({a, e})
        BY <2>3, <2>4, <3>1
      <3> QED
        BY <3>1, <3>2, <3>3
    <2> QED
      BY <2>1, <2>2, <2>5, <2>6
  <1>2. InOrder(s, n) \in [1..Len(s) -> Nat]
    BY <1>1 DEF InOrder
  <1>3. Len(s) \in Nat
    OBVIOUS
  <1> QED
    BY <1>1, <1>2, <1>3, FunctionIsSeq

(* The first k entries give n units, or all they have.                     *)
LEMMA InOrderSum ==
  ASSUME NEW s \in Seq(Nat), NEW n \in Nat
  PROVE  /\ Total(s) \in Nat
         /\ Total(InOrder(s, n)) = IF Total(s) <= n THEN Total(s) ELSE n
  <1> DEFINE t == InOrder(s, n)
             P == {k \in Nat : k <= Len(s) =>
                     SumTo(t, k) = IF SumTo(s, k) <= n THEN SumTo(s, k) ELSE n}
  <1>0. /\ Len(s) \in Nat /\ Len(t) = Len(s)
        /\ \A i \in 1..Len(s) : t[i] \in Nat /\ s[i] \in Nat
    BY InOrderIs
  <1> HIDE DEF t
  <1>1. 0 \in P
    BY SumToZero
  <1>2. ASSUME NEW k \in Nat, k \in P PROVE k + 1 \in P
    <2> SUFFICES ASSUME k + 1 <= Len(s)
                 PROVE  SumTo(t, k + 1) = IF SumTo(s, k + 1) <= n
                                          THEN SumTo(s, k + 1) ELSE n
      OBVIOUS
    <2>1. \A i \in 1..(k + 1) : t[i] \in Int /\ s[i] \in Int
      BY <1>0
    <2>2. /\ SumTo(s, k + 1) = SumTo(s, k) + s[k + 1]
          /\ SumTo(t, k + 1) = SumTo(t, k) + t[k + 1]
      BY <2>1, SumToNext
    <2>3. k + 1 \in 1..Len(s) /\ (k + 1) - 1 = k
      BY <1>0
    <2>4. /\ SumTo(s, k) \in Nat /\ s[k + 1] \in Nat
          /\ t[k + 1] = LET d == n - SumTo(s, k)
                            e == IF 0 >= d THEN 0 ELSE d
                        IN  IF s[k + 1] <= e THEN s[k + 1] ELSE e
      BY <2>3, InOrderIs DEF t
    <2>5. SumTo(t, k) = IF SumTo(s, k) <= n THEN SumTo(s, k) ELSE n
      BY <1>2, <1>0
    <2> QED
      BY <2>2, <2>4, <2>5
  <1> HIDE DEF P
  <1>3. Nat \subseteq P
    BY <1>1, <1>2, NatSetInduction
  <1>4. SumTo(s, Len(s)) \in Nat
    BY <1>0, SumToNat
  <1> QED
    BY <1>0, <1>3, <1>4 DEF P, Total, t

LEMMA InOrderGrows ==
  ASSUME NEW s \in Seq(Nat), NEW n \in Nat, NEW m \in Nat, n <= m
  PROVE  \A i \in 1..Len(s) : InOrder(s, n)[i] <= InOrder(s, m)[i]
  <1> SUFFICES ASSUME NEW i \in 1..Len(s)
               PROVE  InOrder(s, n)[i] <= InOrder(s, m)[i]
    OBVIOUS
  <1>1. /\ SumTo(s, i - 1) \in Nat /\ s[i] \in Nat
        /\ InOrder(s, n)[i] = LET d == n - SumTo(s, i - 1)
                                  e == IF 0 >= d THEN 0 ELSE d
                              IN  IF s[i] <= e THEN s[i] ELSE e
    BY InOrderIs
  <1>2. InOrder(s, m)[i] = LET d == m - SumTo(s, i - 1)
                               e == IF 0 >= d THEN 0 ELSE d
                           IN  IF s[i] <= e THEN s[i] ELSE e
    BY InOrderIs
  <1> QED
    BY <1>1, <1>2

LEMMA InOrderNone ==
  ASSUME NEW s \in Seq(Nat)
  PROVE  \A i \in 1..Len(s) : InOrder(s, 0)[i] = 0
  <1> SUFFICES ASSUME NEW i \in 1..Len(s) PROVE InOrder(s, 0)[i] = 0
    OBVIOUS
  <1>1. /\ SumTo(s, i - 1) \in Nat /\ s[i] \in Nat
        /\ InOrder(s, 0)[i] = LET d == 0 - SumTo(s, i - 1)
                                  e == IF 0 >= d THEN 0 ELSE d
                              IN  IF s[i] <= e THEN s[i] ELSE e
    BY InOrderIs
  <1> QED
    BY <1>1
-----------------------------------------------------------------------------
(***************************************************************************)
(* Fractions and averages.                                                 *)
(***************************************************************************)

(* The largest number of a set with a bound.                               *)
LEMMA MaxIs ==
  ASSUME NEW S, S # {}, NEW b \in Nat, S \subseteq 1..b
  PROVE  Max(S) \in S
  <1> DEFINE T == {k \in Nat : b - k \in S}
  <1>1. T # {}
    <2>1. PICK x : x \in S
      OBVIOUS
    <2>2. b - x \in Nat /\ b - (b - x) = x
      BY <2>1
    <2> QED
      BY <2>1, <2>2
  <1>2. PICK k \in T : \A j \in T : k <= j
    <2>1. T \subseteq Nat
      OBVIOUS
    <2> HIDE DEF T
    <2> QED
      BY <1>1, <2>1, LeastNat
  <1>3. b - k \in S /\ k \in Nat
    BY <1>2
  <1>4. ASSUME NEW y \in S PROVE b - k >= y
    <2>1. b - y \in Nat /\ b - (b - y) = y
      OBVIOUS
    <2>2. b - y \in T
      BY <2>1
    <2>3. k <= b - y
      BY <1>2, <2>2
    <2> QED
      BY <1>3, <2>1, <2>3
  <1>5. \E x \in S : \A y \in S : x >= y
    BY <1>3, <1>4
  <1> HIDE DEF T
  <1> QED
    BY <1>5 DEF Max

LEMMA Divides ==
  ASSUME NEW v \in Nat, NEW d \in Nat, d > 0, v % d = 0
  PROVE  v \div d \in Nat /\ v = d * (v \div d)
  OBVIOUS

(* Lowest terms: both are divided by the same number.                      *)
LEMMA FractionIs ==
  ASSUME NEW v \in Nat, NEW q \in Nat, q > 0
  PROVE  /\ Fraction(v, q) \in Fractions
         /\ \E d \in Nat : /\ d > 0 /\ v = d * Fraction(v, q).v
                           /\ q = d * Fraction(v, q).q
  <1> DEFINE S == {k \in 1..q : v % k = 0 /\ q % k = 0}
  <1>1. 1 \in S
    <2>1. v % 1 = 0 /\ q % 1 = 0
      OBVIOUS
    <2> QED
      BY <2>1
  <1>2. S # {} /\ S \subseteq 1..q
    BY <1>1
  <1>3. Max(S) \in S
    <2> HIDE DEF S
    <2> QED
      BY <1>2, MaxIs
  <1>4. PICK d : d = Max(S)
    OBVIOUS
  <1>5. d \in Nat /\ d > 0 /\ v % d = 0 /\ q % d = 0
    BY <1>3, <1>4
  <1>6. Fraction(v, q) = [v |-> v \div d, q |-> q \div d]
    BY <1>4 DEF Fraction
  <1>7. /\ v \div d \in Nat /\ v = d * (v \div d)
        /\ q \div d \in Nat /\ q = d * (q \div d)
    BY <1>5, Divides
  <1> QED
    BY <1>5, <1>6, <1>7 DEF Fractions

(* Products of naturals keep an order.                                     *)
LEMMA Times ==
  ASSUME NEW a \in Nat, NEW b \in Nat, NEW k \in Nat, a <= b
  PROVE  a * k \in Nat /\ b * k \in Nat /\ a * k <= b * k
  OBVIOUS

LEMMA Cancels ==
  ASSUME NEW a \in Nat, NEW b \in Nat, NEW d \in Nat, d > 0, d * a <= d * b
  PROVE  a <= b
  OBVIOUS

LEMMA FractionAveraged ==
  ASSUME NEW v \in Nat, NEW q \in Nat, q > 0,
         NEW low \in Costs, NEW high \in Costs, low * q <= v, v <= high * q
  PROVE  /\ Fraction(v, q) \in Fractions /\ Averaged(Fraction(v, q))
         /\ Fraction(v, q) # NoCost
  <1> DEFINE x == Fraction(v, q).v
             y == Fraction(v, q).q
  <1>1. PICK d \in Nat : d > 0 /\ v = d * x /\ q = d * y
    BY FractionIs
  <1>2. Fraction(v, q) \in Fractions /\ x \in Nat /\ y \in Nat
    BY FractionIs DEF Fractions
  <1>3. low \in Nat /\ high \in Nat
    BY CostingConstants
  <1> HIDE DEF x, y
  <1>4. y > 0
    <2> SUFFICES ASSUME y = 0 PROVE FALSE
      BY <1>2
    <2> QED
      BY <1>1
  <1>5. low * y <= x
    <2>1. d * (low * y) = low * q /\ low * y \in Nat
      BY <1>1, <1>2, <1>3
    <2> QED
      BY <1>1, <1>2, <2>1, Cancels
  <1>6. x <= high * y
    <2>1. d * (high * y) = high * q /\ high * y \in Nat
      BY <1>1, <1>2, <1>3
    <2> QED
      BY <1>1, <1>2, <2>1, Cancels
  <1> QED
    BY <1>2, <1>4, <1>5, <1>6 DEF Averaged, Between, NoCost, x, y

(* A weighted average of two averages.                                     *)
LEMMA Weighted ==
  ASSUME NEW m \in Nat, NEW n \in Nat,
         NEW a \in Nat, NEW p \in Nat, NEW b \in Nat, NEW q \in Nat,
         NEW k \in Nat, k * p <= a, k * q <= b
  PROVE  k * (p * q * (m + n)) <= m * a * q + n * b * p
  <1>1. (k * p) * (m * q) <= a * (m * q)
    <2>1. k * p \in Nat /\ m * q \in Nat
      OBVIOUS
    <2> QED
      BY <2>1, Times
  <1>2. (k * q) * (n * p) <= b * (n * p)
    <2>1. k * q \in Nat /\ n * p \in Nat
      OBVIOUS
    <2> QED
      BY <2>1, Times
  <1>3. k * (p * q * (m + n)) = (k * p) * (m * q) + (k * q) * (n * p)
    OBVIOUS
  <1>4. m * a * q + n * b * p = a * (m * q) + b * (n * p)
    OBVIOUS
  <1> QED
    BY <1>1, <1>2, <1>3, <1>4

LEMMA WeightedBelow ==
  ASSUME NEW m \in Nat, NEW n \in Nat,
         NEW a \in Nat, NEW p \in Nat, NEW b \in Nat, NEW q \in Nat,
         NEW k \in Nat, a <= k * p, b <= k * q
  PROVE  m * a * q + n * b * p <= k * (p * q * (m + n))
  <1>1. a * (m * q) <= (k * p) * (m * q)
    <2>1. k * p \in Nat /\ m * q \in Nat
      OBVIOUS
    <2> QED
      BY <2>1, Times
  <1>2. b * (n * p) <= (k * q) * (n * p)
    <2>1. k * q \in Nat /\ n * p \in Nat
      OBVIOUS
    <2> QED
      BY <2>1, Times
  <1>3. k * (p * q * (m + n)) = (k * p) * (m * q) + (k * q) * (n * p)
    OBVIOUS
  <1>4. m * a * q + n * b * p = a * (m * q) + b * (n * p)
    OBVIOUS
  <1> QED
    BY <1>1, <1>2, <1>3, <1>4

LEMMA Positive ==
  ASSUME NEW a \in Nat, NEW b \in Nat, a > 0, b > 0
  PROVE  a * b \in Nat /\ a * b > 0
  OBVIOUS

LEMMA Distributes ==
  ASSUME NEW k \in Nat, NEW a \in Nat, NEW b \in Nat
  PROVE  /\ k * (a + b) = k * a + k * b /\ a * b = b * a /\ a * b \in Nat
         /\ k * a \in Nat
  OBVIOUS

LEMMA WeightedAveraged ==
  ASSUME NEW m \in Nat, NEW n \in Nat, n > 0,
         NEW x \in Fractions, Averaged(x), NEW y \in Fractions, Averaged(y),
         NEW z, z = Fraction(m * x.v * y.q + n * y.v * x.q,
                             x.q * y.q * (m + n))
  PROVE  z \in Fractions /\ Averaged(z) /\ z # NoCost
  <1>1. PICK a \in Nat, p \in Nat, b \in Nat, q \in Nat :
          a = x.v /\ p = x.q /\ b = y.v /\ q = y.q
    BY DEF Fractions
  <1>2. p > 0 /\ q > 0
    BY <1>1 DEF Averaged
  <1>3. PICK l1 \in Costs, h1 \in Costs : l1 * p <= a /\ a <= h1 * p
    BY <1>1 DEF Averaged, Between
  <1>4. PICK l2 \in Costs, h2 \in Costs : l2 * q <= b /\ b <= h2 * q
    BY <1>1 DEF Averaged, Between
  <1>5. /\ l1 \in Nat /\ l2 \in Nat /\ h1 \in Nat /\ h2 \in Nat
    BY CostingConstants
  <1>6. PICK low \in Costs : low \in Nat /\ low <= l1 /\ low <= l2
    BY <1>5
  <1>7. PICK high \in Costs : high \in Nat /\ h1 <= high /\ h2 <= high
    BY <1>5
  <1>8. low * p <= a /\ low * q <= b
    <2>1. low * p <= l1 * p /\ low * p \in Nat /\ l1 * p \in Nat
      BY <1>5, <1>6, Times
    <2>2. low * q <= l2 * q /\ low * q \in Nat /\ l2 * q \in Nat
      BY <1>5, <1>6, Times
    <2> QED
      BY <1>3, <1>4, <2>1, <2>2
  <1>9. a <= high * p /\ b <= high * q
    <2>1. h1 * p <= high * p /\ high * p \in Nat /\ h1 * p \in Nat
      BY <1>5, <1>7, Times
    <2>2. h2 * q <= high * q /\ high * q \in Nat /\ h2 * q \in Nat
      BY <1>5, <1>7, Times
    <2> QED
      BY <1>3, <1>4, <2>1, <2>2
  <1>10. PICK v, w : /\ v = m * a * q + n * b * p
                     /\ w = p * q * (m + n)
    OBVIOUS
  <1>11. low * w <= v /\ v <= high * w
    BY <1>6, <1>7, <1>8, <1>9, <1>10, Weighted, WeightedBelow
  <1>12. w \in Nat /\ w > 0
    <2>1. m + n \in Nat /\ m + n > 0
      OBVIOUS
    <2>2. p * q \in Nat /\ p * q > 0
      BY <1>2, Positive
    <2> QED
      BY <1>10, <2>1, <2>2, Positive
  <1>13. v \in Nat
    BY <1>10
  <1>14. z = Fraction(v, w)
    BY <1>1, <1>10
  <1> QED
    BY <1>11, <1>12, <1>13, <1>14, FractionAveraged

(* Opening balances at costs of their own have an average.                 *)
LEMMA WorthBetween ==
  ASSUME NEW n \in Nat, n > 0, NEW c \in [1..n -> Costs],
         NEW u \in [1..n -> Nat],
         NEW w, \A i \in 1..n : w[i] = u[i] * c[i]
  PROVE  /\ SumTo(w, n) \in Nat /\ SumTo(u, n) \in Nat
         /\ \E low, high \in Costs : /\ low * SumTo(u, n) <= SumTo(w, n)
                                     /\ SumTo(w, n) <= high * SumTo(u, n)
  <1> DEFINE Fits(k, low, high) == /\ low * SumTo(u, k) <= SumTo(w, k)
                                   /\ SumTo(w, k) <= high * SumTo(u, k)
             P == {k \in Nat : k <= n =>
                     \E low, high \in Costs : Fits(k, low, high)}
  <1>0. \A i \in 1..n : /\ c[i] \in Costs /\ c[i] \in Nat /\ u[i] \in Nat
                        /\ w[i] \in Nat
    <2> SUFFICES ASSUME NEW i \in 1..n
                 PROVE  /\ c[i] \in Costs /\ c[i] \in Nat /\ u[i] \in Nat
                        /\ w[i] \in Nat
      OBVIOUS
    <2>1. c[i] \in Costs /\ c[i] \in Nat /\ u[i] \in Nat
      BY CostingConstants
    <2>2. w[i] = u[i] * c[i]
      OBVIOUS
    <2> QED
      BY <2>1, <2>2, Distributes
  <1>1. 0 \in P
    <2>1. c[1] \in Costs /\ c[1] \in Nat
      BY <1>0
    <2>2. Fits(0, c[1], c[1])
      BY <2>1, SumToZero
    <2> QED
      BY <2>1, <2>2
  <1>2. ASSUME NEW k \in Nat, k \in P PROVE k + 1 \in P
    <2> SUFFICES ASSUME k + 1 <= n
                 PROVE  \E low, high \in Costs : Fits(k + 1, low, high)
      OBVIOUS
    <2>1. PICK l1 \in Costs, h1 \in Costs : Fits(k, l1, h1)
      BY <1>2
    <2>2. PICK U \in Nat, W \in Nat, x \in Nat, y \in Nat :
            /\ U = SumTo(u, k) /\ W = SumTo(w, k)
            /\ x = u[k + 1] /\ y = c[k + 1]
            /\ SumTo(u, k + 1) = U + x /\ SumTo(w, k + 1) = W + x * y
            /\ y \in Costs
      <3>1. \A i \in 1..(k + 1) : u[i] \in Nat /\ w[i] \in Nat
        BY <1>0
      <3>2. SumTo(u, k) \in Nat /\ SumTo(w, k) \in Nat
        BY <3>1, SumToNat
      <3>3. /\ SumTo(u, k + 1) = SumTo(u, k) + u[k + 1]
            /\ SumTo(w, k + 1) = SumTo(w, k) + w[k + 1]
        <4>1. \A i \in 1..(k + 1) : u[i] \in Int /\ w[i] \in Int
          BY <3>1
        <4> QED
          BY <4>1, SumToNext
      <3>4. k + 1 \in 1..n
        OBVIOUS
      <3>5. /\ w[k + 1] = u[k + 1] * c[k + 1] /\ u[k + 1] \in Nat
            /\ c[k + 1] \in Nat /\ c[k + 1] \in Costs
        BY <1>0, <3>4
      <3> QED
        BY <3>2, <3>3, <3>5
    <2>3. l1 \in Nat /\ h1 \in Nat
      BY CostingConstants
    <2>4. PICK low \in Costs : low \in Nat /\ low <= l1 /\ low <= y
      BY <2>2, <2>3
    <2>5. PICK high \in Costs : high \in Nat /\ h1 <= high /\ y <= high
      BY <2>2, <2>3
    <2>6. low * (U + x) <= W + x * y
      <3>1. low * U <= l1 * U /\ low * x <= y * x
        BY <2>2, <2>3, <2>4, Times
      <3>2. l1 * U <= W
        BY <2>1, <2>2
      <3>3. /\ low * (U + x) = low * U + low * x /\ x * y = y * x
            /\ low * U \in Nat /\ low * x \in Nat /\ l1 * U \in Nat
            /\ y * x \in Nat
        <4>1. low * (U + x) = low * U + low * x /\ low * U \in Nat
          BY <2>4, Distributes
        <4>2. x * y = y * x /\ y * x \in Nat
          BY Distributes
        <4>3. low * x \in Nat /\ l1 * U \in Nat
          BY <2>3, <2>4, Distributes
        <4> QED
          BY <4>1, <4>2, <4>3
      <3> QED
        BY <3>1, <3>2, <3>3
    <2>7. W + x * y <= high * (U + x)
      <3>1. h1 * U <= high * U /\ y * x <= high * x
        BY <2>2, <2>3, <2>5, Times
      <3>2. W <= h1 * U
        BY <2>1, <2>2
      <3>3. /\ high * (U + x) = high * U + high * x /\ x * y = y * x
            /\ high * U \in Nat /\ high * x \in Nat /\ h1 * U \in Nat
            /\ y * x \in Nat
        <4>1. high * (U + x) = high * U + high * x /\ high * U \in Nat
          BY <2>5, Distributes
        <4>2. x * y = y * x /\ y * x \in Nat
          BY Distributes
        <4>3. high * x \in Nat /\ h1 * U \in Nat
          BY <2>3, <2>5, Distributes
        <4> QED
          BY <4>1, <4>2, <4>3
      <3> QED
        BY <3>1, <3>2, <3>3
    <2>8. Fits(k + 1, low, high)
      BY <2>2, <2>6, <2>7
    <2> QED
      BY <2>8
  <1> HIDE DEF P
  <1>3. Nat \subseteq P
    BY <1>1, <1>2, NatSetInduction
  <1>4. \E low, high \in Costs : Fits(n, low, high)
    BY <1>3 DEF P
  <1>5. SumTo(w, n) \in Nat /\ SumTo(u, n) \in Nat
    BY <1>0, SumToNat
  <1> QED
    BY <1>4, <1>5
-----------------------------------------------------------------------------
(***************************************************************************)
(* Layers: their units by location and their worth.                        *)
(***************************************************************************)
LeftsOf(s, l) ==
    [i \in 1..Len(s) |-> IF s[i].at = l THEN s[i].left ELSE 0]
Values(s) == [i \in 1..Len(s) |-> s[i].left * s[i].cost]
Priced(s) ==
    /\ Len(s) \in Nat
    /\ \A i \in 1..Len(s) : s[i].left \in Nat /\ s[i].cost \in Nat

LEMMA LayersArePriced ==
  ASSUME NEW s \in Seq(Layers)
  PROVE  Priced(s) /\ \A i \in 1..Len(s) : s[i] \in Layers /\ s[i].at \in At
  <1>1. Len(s) \in Nat /\ \A i \in 1..Len(s) : s[i] \in Layers
    OBVIOUS
  <1> QED
    BY <1>1 DEF Layers, Priced

LEMMA PartsArePriced ==
  ASSUME NEW s \in Seq(Parts)
  PROVE  Priced(s)
  <1>1. Len(s) \in Nat /\ \A i \in 1..Len(s) : s[i] \in Parts
    OBVIOUS
  <1> QED
    BY <1>1 DEF Parts, Priced

LEMMA ValuesAre ==
  ASSUME NEW s, Priced(s)
  PROVE  /\ Values(s) \in Seq(Nat) /\ Len(Values(s)) = Len(s)
         /\ \A i \in 1..Len(s) : /\ Values(s)[i] = s[i].left * s[i].cost
                                 /\ Values(s)[i] \in Nat
         /\ Worth(s) = SumTo(Values(s), Len(s)) /\ Worth(s) \in Nat
  <1>1. \A i \in 1..Len(s) : s[i].left * s[i].cost \in Nat
    BY Distributes DEF Priced
  <1>2. Values(s) \in [1..Len(s) -> Nat]
    BY <1>1 DEF Values
  <1>3. /\ Values(s) \in Seq(Nat) /\ Len(Values(s)) = Len(s)
        /\ \A i \in 1..Len(s) : Values(s)[i] = s[i].left * s[i].cost
    BY <1>2, FunctionIsSeq DEF Values, Priced
  <1>4. Worth(s) = SumTo(Values(s), Len(s))
    BY <1>3 DEF Worth, Total, Values
  <1>5. SumTo(Values(s), Len(s)) \in Nat
    BY <1>1, <1>3, SumToNat DEF Priced
  <1> QED
    BY <1>1, <1>3, <1>4, <1>5

LEMMA LeftsAre ==
  ASSUME NEW s \in Seq(Layers), NEW l
  PROVE  /\ LeftsOf(s, l) \in Seq(Nat) /\ Len(LeftsOf(s, l)) = Len(s)
         /\ \A i \in 1..Len(s) :
              /\ LeftsOf(s, l)[i] = IF s[i].at = l THEN s[i].left ELSE 0
              /\ LeftsOf(s, l)[i] \in Nat
         /\ Total(LeftsOf(s, l)) = SumTo(LeftsOf(s, l), Len(s))
         /\ Total(LeftsOf(s, l)) \in Nat
  <1>1. /\ Len(s) \in Nat /\ \A i \in 1..Len(s) : s[i].left \in Nat
    BY LayersArePriced DEF Priced
  <1>2. LeftsOf(s, l) \in [1..Len(s) -> Nat]
    BY <1>1 DEF LeftsOf
  <1>3. /\ LeftsOf(s, l) \in Seq(Nat) /\ Len(LeftsOf(s, l)) = Len(s)
    BY <1>1, <1>2, FunctionIsSeq
  <1>4. \A i \in 1..Len(s) :
              /\ LeftsOf(s, l)[i] = IF s[i].at = l THEN s[i].left ELSE 0
              /\ LeftsOf(s, l)[i] \in Nat
    BY <1>1 DEF LeftsOf
  <1>5. SumTo(LeftsOf(s, l), Len(s)) \in Nat
    BY <1>1, <1>4, SumToNat
  <1> QED
    BY <1>3, <1>4, <1>5 DEF Total

LEMMA JoinedLayers ==
  ASSUME NEW s \in Seq(Layers), NEW t \in Seq(Layers)
  PROVE  /\ s \o t \in Seq(Layers)
         /\ Worth(s \o t) = Worth(s) + Worth(t)
         /\ \A l : Total(LeftsOf(s \o t, l))
                     = Total(LeftsOf(s, l)) + Total(LeftsOf(t, l))
  <1>1. PICK u, m, n, k : /\ u = s \o t /\ m = Len(s) /\ n = Len(t)
                          /\ k = m + n
    OBVIOUS
  <1>2. /\ u \in Seq(Layers) /\ Len(u) = k /\ m \in Nat /\ n \in Nat
        /\ \A i \in 1..m : u[i] = s[i]
        /\ \A i \in 1..n : u[m + i] = t[i]
    BY <1>1
  <1>3. /\ \A i \in 1..m : i \in 1..k
        /\ \A i \in 1..n : m + i \in 1..k
    BY <1>1, <1>2
  <1>4. Priced(s) /\ Priced(t) /\ Priced(u)
    BY <1>2, LayersArePriced
  <1>5. /\ \A i \in 1..m : /\ Values(s)[i] = s[i].left * s[i].cost
                           /\ Values(s)[i] \in Nat
        /\ Worth(s) = SumTo(Values(s), m)
    BY <1>1, <1>4, ValuesAre
  <1>6. /\ \A i \in 1..n : /\ Values(t)[i] = t[i].left * t[i].cost
                           /\ Values(t)[i] \in Nat
        /\ Worth(t) = SumTo(Values(t), n)
    BY <1>1, <1>4, ValuesAre
  <1>7. /\ \A i \in 1..k : Values(u)[i] = u[i].left * u[i].cost
        /\ Worth(u) = SumTo(Values(u), k)
    BY <1>2, <1>4, ValuesAre
  <1>8. Worth(u) = Worth(s) + Worth(t)
    <2>1. \A i \in 1..m : Values(s)[i] \in Int /\ Values(u)[i] = Values(s)[i]
      BY <1>2, <1>3, <1>5, <1>7
    <2>2. \A i \in 1..n : /\ Values(t)[i] \in Int
                         /\ Values(u)[m + i] = Values(t)[i]
      <3> SUFFICES ASSUME NEW i \in 1..n
                   PROVE  /\ Values(t)[i] \in Int
                          /\ Values(u)[m + i] = Values(t)[i]
        OBVIOUS
      <3>1. PICK j : j = m + i
        OBVIOUS
      <3>2. j \in 1..k /\ u[j] = t[i]
        BY <1>2, <1>3, <3>1
      <3>3. /\ Values(u)[j] = u[j].left * u[j].cost
            /\ Values(t)[i] = t[i].left * t[i].cost /\ Values(t)[i] \in Nat
        BY <1>6, <1>7, <3>2
      <3> QED
        BY <3>1, <3>2, <3>3
    <2>3. SumTo(Values(u), m + n) = SumTo(Values(s), m) + SumTo(Values(t), n)
      <3>1. m \in Nat /\ n \in Nat
        BY <1>2
      <3> QED
        <4>1. Joins(Values(s), m, Values(t), n, Values(u))
          BY <2>1, <2>2 DEF Joins
        <4> QED
          BY <3>1, <4>1, SumToJoin
    <2> QED
      BY <1>1, <1>5, <1>6, <1>7, <2>3
  <1>9. ASSUME NEW l
        PROVE  Total(LeftsOf(u, l))
                 = Total(LeftsOf(s, l)) + Total(LeftsOf(t, l))
    <2>1. PICK a, b, c : /\ a = LeftsOf(s, l) /\ b = LeftsOf(t, l)
                         /\ c = LeftsOf(u, l)
      OBVIOUS
    <2>2. /\ \A i \in 1..m : /\ a[i] = IF s[i].at = l THEN s[i].left ELSE 0
                             /\ a[i] \in Nat
          /\ Total(a) = SumTo(a, m)
      BY <1>1, <2>1, LeftsAre
    <2>3. /\ \A i \in 1..n : /\ b[i] = IF t[i].at = l THEN t[i].left ELSE 0
                             /\ b[i] \in Nat
          /\ Total(b) = SumTo(b, n)
      BY <1>1, <2>1, LeftsAre
    <2>4. /\ \A i \in 1..k :
               c[i] = IF u[i].at = l THEN u[i].left ELSE 0
          /\ Total(c) = SumTo(c, k)
      BY <1>2, <2>1, LeftsAre
    <2>5. \A i \in 1..m : a[i] \in Int /\ c[i] = a[i]
      <3> SUFFICES ASSUME NEW i \in 1..m PROVE a[i] \in Int /\ c[i] = a[i]
        OBVIOUS
      <3>1. i \in 1..k /\ u[i] = s[i]
        BY <1>2, <1>3
      <3> QED
        BY <2>2, <2>4, <3>1
    <2>6. \A i \in 1..n : b[i] \in Int /\ c[m + i] = b[i]
      <3> SUFFICES ASSUME NEW i \in 1..n
                   PROVE  b[i] \in Int /\ c[m + i] = b[i]
        OBVIOUS
      <3>1. PICK j : j = m + i
        OBVIOUS
      <3>2. j \in 1..k /\ u[j] = t[i]
        BY <1>2, <1>3, <3>1
      <3>3. /\ c[j] = IF u[j].at = l THEN u[j].left ELSE 0
            /\ b[i] = IF t[i].at = l THEN t[i].left ELSE 0
            /\ b[i] \in Nat
        BY <2>3, <2>4, <3>2
      <3> QED
        BY <3>1, <3>2, <3>3
    <2>7. SumTo(c, m + n) = SumTo(a, m) + SumTo(b, n)
      <3>1. m \in Nat /\ n \in Nat
        BY <1>2
      <3> QED
        <4>1. Joins(a, m, b, n, c)
          BY <2>5, <2>6 DEF Joins
        <4> QED
          BY <3>1, <4>1, SumToJoin
    <2> QED
      BY <1>1, <2>1, <2>2, <2>3, <2>4, <2>7
  <1> QED
    BY <1>1, <1>2, <1>8, <1>9

(* One layer more.                                                         *)
LayerMore(t, s, l, n, c) ==
    t = Append(s, [at |-> l, left |-> n, cost |-> c])

LayerCounts(t, s, l, n, c) ==
    /\ t \in Seq(Layers) /\ Worth(t) = Worth(s) + n * c
    /\ \A k : Total(LeftsOf(t, k))
                = Total(LeftsOf(s, k)) + (IF k = l THEN n ELSE 0)

LEMMA NewLayer ==
  ASSUME NEW s \in Seq(Layers), NEW l \in At, NEW n \in Nat, NEW c \in Nat,
         NEW t, LayerMore(t, s, l, n, c)
  PROVE  LayerCounts(t, s, l, n, c)
  <1>1. PICK e, one : e = [at |-> l, left |-> n, cost |-> c] /\ one = <<e>>
    OBVIOUS
  <1>2. e \in Layers /\ e.at = l /\ e.left = n /\ e.cost = c
    BY <1>1 DEF Layers
  <1>3. /\ one \in Seq(Layers) /\ Len(one) = 1 /\ one[1] = e
        /\ t = s \o one
    BY <1>1, <1>2 DEF LayerMore
  <1>4. Priced(one)
    BY <1>3, LayersArePriced
  <1>5. \A f : (\A i \in 1..1 : f[i] \in Nat) => SumTo(f, 1) = f[1]
    <2> SUFFICES ASSUME NEW f, f[1] \in Nat PROVE SumTo(f, 1) = f[1]
      OBVIOUS
    <2>1. \A i \in 1..(0 + 1) : f[i] \in Int
      OBVIOUS
    <2>2. SumTo(f, 0 + 1) = SumTo(f, 0) + f[0 + 1]
      BY <2>1, SumToNext
    <2> QED
      BY <2>2, SumToZero
  <1>6. Worth(one) = n * c
    <2>1. /\ Worth(one) = SumTo(Values(one), 1)
          /\ Values(one)[1] = one[1].left * one[1].cost
          /\ Values(one)[1] \in Nat
      <3>1. 1 \in 1..Len(one)
        BY <1>3
      <3> QED
        BY <1>3, <1>4, <3>1, ValuesAre
    <2>2. SumTo(Values(one), 1) = Values(one)[1]
      BY <1>5, <2>1
    <2>3. one[1].left = n /\ one[1].cost = c
      BY <1>2, <1>3
    <2> QED
      BY <2>1, <2>2, <2>3
  <1>7. ASSUME NEW k
        PROVE  Total(LeftsOf(one, k)) = IF k = l THEN n ELSE 0
    <2>1. /\ Total(LeftsOf(one, k)) = SumTo(LeftsOf(one, k), 1)
          /\ LeftsOf(one, k)[1] = IF l = k THEN n ELSE 0
          /\ LeftsOf(one, k)[1] \in Nat
      BY <1>2, <1>3, LeftsAre
    <2> QED
      BY <1>5, <2>1
  <1>8. /\ s \o one \in Seq(Layers)
        /\ Worth(s \o one) = Worth(s) + Worth(one)
        /\ \A k : Total(LeftsOf(s \o one, k))
                     = Total(LeftsOf(s, k)) + Total(LeftsOf(one, k))
    BY <1>3, JoinedLayers
  <1> QED
    BY <1>3, <1>6, <1>7, <1>8 DEF LayerCounts
-----------------------------------------------------------------------------
(***************************************************************************)
(* An issue.                                                               *)
(***************************************************************************)
Covered(units) ==
    /\ layers \in Seq(Layers) /\ units \in [At -> Nat]
    /\ \A l \in At : Total(LeftAt(l)) >= units[l]

LEMMA LeftAtIs == \A l : LeftAt(l) = LeftsOf(layers, l)
  BY DEF LeftAt, LeftsOf

LEMMA ConsumedIs ==
  ASSUME NEW units, Covered(units)
  PROVE  \A i \in 1..Len(layers) :
           /\ layers[i].at \in At
           /\ consumed(units)[i] \in Nat
           /\ consumed(units)[i] <= layers[i].left
           /\ \A l \in At : InOrder(LeftsOf(layers, l), units[l])[i] =
                              IF layers[i].at = l THEN consumed(units)[i]
                              ELSE 0
  <1> SUFFICES ASSUME NEW i \in 1..Len(layers)
               PROVE  /\ layers[i].at \in At
                      /\ consumed(units)[i] \in Nat
                      /\ consumed(units)[i] <= layers[i].left
                      /\ \A l \in At :
                           InOrder(LeftsOf(layers, l), units[l])[i] =
                             IF layers[i].at = l THEN consumed(units)[i]
                             ELSE 0
    OBVIOUS
  <1>1. layers \in Seq(Layers) /\ \A l \in At : units[l] \in Nat
    BY DEF Covered
  <1>2. layers[i].at \in At /\ layers[i].left \in Nat
    BY <1>1, LayersArePriced DEF Priced
  <1>3. ASSUME NEW l \in At
        PROVE  /\ InOrder(LeftsOf(layers, l), units[l])[i] \in Nat
               /\ InOrder(LeftsOf(layers, l), units[l])[i]
                    <= LeftsOf(layers, l)[i]
               /\ LeftsOf(layers, l)[i] = IF layers[i].at = l
                                          THEN layers[i].left ELSE 0
    <2>1. /\ LeftsOf(layers, l) \in Seq(Nat)
          /\ Len(LeftsOf(layers, l)) = Len(layers)
          /\ LeftsOf(layers, l)[i] = IF layers[i].at = l
                                     THEN layers[i].left ELSE 0
      BY <1>1, LeftsAre
    <2> QED
      BY <1>1, <2>1, InOrderIs
  <1>4. consumed(units)[i] =
          InOrder(LeftsOf(layers, layers[i].at), units[layers[i].at])[i]
    BY LeftAtIs DEF consumed
  <1> QED
    BY <1>2, <1>3, <1>4

LEMMA MinusTimes ==
  ASSUME NEW a \in Nat, NEW b \in Nat, NEW c \in Nat, b <= a
  PROVE  /\ (a - b) * c = a * c - b * c
         /\ a - b \in Nat /\ a * c \in Nat /\ b * c \in Nat
  OBVIOUS

Rest(units) ==
    [i \in 1..Len(layers) |->
        [layers[i] EXCEPT !.left = @ - consumed(units)[i]]]

LEMMA RestIs ==
  ASSUME NEW units, Covered(units)
  PROVE  /\ Rest(units) \in Seq(Layers) /\ Len(Rest(units)) = Len(layers)
         /\ \A i \in 1..Len(layers) :
              /\ Rest(units)[i].at = layers[i].at
              /\ Rest(units)[i].cost = layers[i].cost
              /\ Rest(units)[i].left = layers[i].left - consumed(units)[i]
  <1>1. layers \in Seq(Layers) /\ Len(layers) \in Nat
    BY DEF Covered
  <1>2. ASSUME NEW i \in 1..Len(layers)
        PROVE  /\ Rest(units)[i] \in Layers
               /\ Rest(units)[i].at = layers[i].at
               /\ Rest(units)[i].cost = layers[i].cost
               /\ Rest(units)[i].left = layers[i].left - consumed(units)[i]
    <2>1. layers[i] \in Layers
      BY <1>1, LayersArePriced
    <2>2. layers[i].left - consumed(units)[i] \in Nat
      BY <1>1, <2>1, ConsumedIs DEF Layers
    <2>3. PICK d : d = consumed(units)[i]
      OBVIOUS
    <2>4. Rest(units)[i] = [layers[i] EXCEPT !.left = @ - d]
      BY <2>3 DEF Rest
    <2> QED
      BY <2>1, <2>2, <2>3, <2>4 DEF Layers
  <1>3. Rest(units) \in [1..Len(layers) -> Layers]
    BY <1>2 DEF Rest
  <1> QED
    BY <1>1, <1>2, <1>3, FunctionIsSeq

(* Every location has lost the units that left it, and the layers what     *)
(* the issue cost.                                                         *)
LEMMA RestCovers ==
  ASSUME NEW units, Covered(units), NEW l \in At
  PROVE  Total(LeftsOf(Rest(units), l))
           = Total(LeftsOf(layers, l)) - units[l]
  <1>1. /\ layers \in Seq(Layers) /\ units[l] \in Nat
        /\ Total(LeftsOf(layers, l)) >= units[l]
    BY LeftAtIs DEF Covered
  <1>2. PICK a, b, c, n : /\ a = LeftsOf(layers, l) /\ b = InOrder(a, units[l])
                          /\ c = LeftsOf(Rest(units), l) /\ n = Len(layers)
    OBVIOUS
  <1>3. /\ a \in Seq(Nat) /\ Len(a) = n /\ n \in Nat /\ Total(a) \in Nat
        /\ Total(a) = SumTo(a, n)
    BY <1>1, <1>2, LeftsAre
  <1>4. /\ Rest(units) \in Seq(Layers) /\ Len(Rest(units)) = n
    BY <1>2, RestIs
  <1>5. Total(c) = SumTo(c, n)
    BY <1>2, <1>4, LeftsAre
  <1>6. Total(b) = units[l] /\ Total(b) = SumTo(b, n)
    <2>1. Total(b) = units[l]
      BY <1>1, <1>2, <1>3, InOrderSum
    <2>2. Len(b) = n
      BY <1>1, <1>2, <1>3, InOrderIs
    <2> QED
      BY <2>1, <2>2 DEF Total
  <1>7. \A i \in 1..n : a[i] \in Int /\ b[i] \in Int /\ c[i] = a[i] - b[i]
    <2> SUFFICES ASSUME NEW i \in 1..n
                 PROVE  a[i] \in Int /\ b[i] \in Int /\ c[i] = a[i] - b[i]
      OBVIOUS
    <2>1. /\ consumed(units)[i] \in Nat
          /\ b[i] = IF layers[i].at = l THEN consumed(units)[i] ELSE 0
      BY <1>2, ConsumedIs
    <2>2. /\ a[i] = IF layers[i].at = l THEN layers[i].left ELSE 0
          /\ a[i] \in Nat
      BY <1>1, <1>2, LeftsAre
    <2>3. /\ c[i] = IF Rest(units)[i].at = l THEN Rest(units)[i].left ELSE 0
      BY <1>2, <1>4, LeftsAre
    <2>4. /\ Rest(units)[i].at = layers[i].at
          /\ Rest(units)[i].left = layers[i].left - consumed(units)[i]
      BY <1>2, RestIs
    <2> QED
      BY <2>1, <2>2, <2>3, <2>4
  <1>8. SumTo(c, n) = SumTo(a, n) - SumTo(b, n)
    BY <1>3, <1>7, SumToMinus
  <1> QED
    BY <1>2, <1>3, <1>5, <1>6, <1>8

IssueCosts(units) ==
    [i \in 1..Len(layers) |-> consumed(units)[i] * layers[i].cost]

LEMMA RestWorth ==
  ASSUME NEW units, Covered(units)
  PROVE  /\ CostOf(units) \in Nat
         /\ Worth(Rest(units)) = Worth(layers) - CostOf(units)
  <1>1. layers \in Seq(Layers) /\ Len(layers) \in Nat
    BY DEF Covered
  <1>2. PICK n : n = Len(layers)
    OBVIOUS
  <1>3. /\ Rest(units) \in Seq(Layers) /\ Len(Rest(units)) = n
    BY <1>2, RestIs
  <1>4. Priced(layers) /\ Priced(Rest(units))
    BY <1>1, <1>3, LayersArePriced
  <1>5. ASSUME NEW i \in 1..n
        PROVE  /\ IssueCosts(units)[i] = consumed(units)[i] * layers[i].cost
               /\ IssueCosts(units)[i] \in Nat /\ Values(layers)[i] \in Nat
               /\ Values(Rest(units))[i]
                    = Values(layers)[i] - IssueCosts(units)[i]
    <2>1. PICK a \in Nat, b \in Nat, c \in Nat :
            a = layers[i].left /\ b = consumed(units)[i] /\ c = layers[i].cost
            /\ b <= a
      BY <1>2, <1>4, ConsumedIs DEF Priced
    <2>2. /\ Values(layers)[i] = a * c
          /\ Values(Rest(units))[i] = (a - b) * c
      BY <1>2, <1>3, <1>4, <2>1, ValuesAre, RestIs
    <2>3. IssueCosts(units)[i] = b * c
      BY <1>2, <2>1 DEF IssueCosts
    <2> QED
      BY <2>1, <2>2, <2>3, MinusTimes
  <1>6. IssueCosts(units) \in [1..n -> Nat]
    BY <1>2, <1>5 DEF IssueCosts
  <1>7. Len(IssueCosts(units)) = n
    BY <1>1, <1>2, <1>6, FunctionIsSeq
  <1>8. CostOf(units) = SumTo(IssueCosts(units), n)
    BY <1>7 DEF CostOf, IssueCosts, Total
  <1>9. SumTo(IssueCosts(units), n) \in Nat
    BY <1>1, <1>2, <1>5, SumToNat
  <1>10. SumTo(Values(Rest(units)), n)
           = SumTo(Values(layers), n) - SumTo(IssueCosts(units), n)
    <2>1. \A i \in 1..n :
            /\ Values(layers)[i] \in Int /\ IssueCosts(units)[i] \in Int
            /\ Values(Rest(units))[i] = Values(layers)[i] - IssueCosts(units)[i]
      BY <1>5
    <2> QED
      BY <1>1, <1>2, <2>1, SumToMinus
  <1> QED
    BY <1>2, <1>3, <1>4, <1>8, <1>9, <1>10, ValuesAre

LEMMA IssueIs ==
  ASSUME layers \in Seq(Layers), NEW units \in [At -> Nat], NEW up,
         issue(units, up), isFifo
  PROVE  /\ Covered(units) /\ layers' = Rest(units)
         /\ layers' \in Seq(Layers)
         /\ \A l \in At : Total(LeftAt(l))' = Total(LeftAt(l)) - units[l]
         /\ CostOf(units) \in Nat
         /\ Worth(layers') = Worth(layers) - CostOf(units)
  <1>1. ASSUME NEW l \in At PROVE Total(LeftAt(l)) >= units[l]
    <2>1. Total(LeftAt(l)) \in Nat
      BY LeftAtIs, LeftsAre
    <2>2. units[l] > 0 => \/ Total(LeftAt(l)) > units[l]
                          \/ Total(LeftAt(l)) = units[l]
      BY DEF issue, Issuable
    <2> QED
      BY <2>1, <2>2
  <1>2. Covered(units)
    BY <1>1 DEF Covered
  <1>3. layers' = Rest(units)
    BY DEF issue, Rest
  <1>4. \A l : LeftAt(l)' = LeftsOf(layers', l)
    BY DEF LeftAt, LeftsOf
  <1>5. \A l \in At : Total(LeftsOf(layers', l)) = Total(LeftAt(l)) - units[l]
    BY <1>2, <1>3, LeftAtIs, RestCovers
  <1>6. \A l : Total(LeftAt(l))' = Total(LeftsOf(layers', l))
    BY <1>4 DEF Total, SumTo
  <1> QED
    BY <1>2, <1>3, <1>5, <1>6, RestIs, RestWorth
-----------------------------------------------------------------------------
(***************************************************************************)
(* What holds in every state with CostingInv.                              *)
(***************************************************************************)
HeldBy(o, l) == IF held[o].ref = "ORDER_RESERVATION"
                THEN held[o].units[l] ELSE 0
Holders(l) == [o \in Buyers |-> HeldBy(o, l)]
Units(l) == onHand[l] + Reserved(l)

LEMMA Places == /\ Len(Opening) \in Nat /\ At = 1..Len(Opening)
                /\ 1 \in At /\ 2 \in At /\ IsFiniteSet(Buyers)
                /\ Opening \in [At -> Nat]
  BY CostingConstants DEF At

LEMMA ReservedIs ==
  \A l : Reserved(l) = SumFunctionOnSet(Holders(l), Buyers)
  BY DEF Reserved, Holders, HeldBy

Held == [ref : Ref, units : [At -> Nat], up : SUBSET At, cost : Nat]

LEMMA HeldNat ==
  ASSUME held \in [Buyers -> Held]
  PROVE  \A l \in At : /\ \A o \in Buyers : /\ Holders(l)[o] = HeldBy(o, l)
                                            /\ Holders(l)[o] \in Nat
                       /\ Reserved(l) \in Nat
  <1> SUFFICES ASSUME NEW l \in At
               PROVE  /\ \A o \in Buyers : /\ Holders(l)[o] = HeldBy(o, l)
                                           /\ Holders(l)[o] \in Nat
                      /\ Reserved(l) \in Nat
    OBVIOUS
  <1>1. ASSUME NEW o \in Buyers
        PROVE  Holders(l)[o] = HeldBy(o, l) /\ Holders(l)[o] \in Nat
    <2>1. held[o] \in Held
      OBVIOUS
    <2>2. held[o].units[l] \in Nat
      BY <2>1 DEF Held
    <2> QED
      BY <2>2 DEF Holders, HeldBy
  <1> QED
    BY <1>1, Places, ReservedIs, SumNat

LEMMA HeldNatNext ==
  ASSUME held' \in [Buyers -> Held]
  PROVE  \A l \in At : Reserved(l)' \in Nat
  <1> SUFFICES ASSUME NEW l \in At PROVE Reserved(l)' \in Nat
    OBVIOUS
  <1>1. PICK e : e = [p \in Buyers |-> IF held'[p].ref = "ORDER_RESERVATION"
                                       THEN held'[p].units[l] ELSE 0]
    OBVIOUS
  <1>2. ASSUME NEW p \in Buyers PROVE e[p] \in Nat
    <2>1. held'[p] \in Held
      OBVIOUS
    <2>2. held'[p].units[l] \in Nat
      BY <2>1 DEF Held
    <2> QED
      BY <1>1, <2>2
  <1>3. SumFunctionOnSet(e, Buyers) \in Nat
    BY <1>2, Places, SumNat
  <1> QED
    BY <1>1, <1>3 DEF Reserved

(* The types of the state.                                                 *)
LEMMA Typed ==
  ASSUME CostingInv
  PROVE  /\ onHand \in [At -> Nat] /\ onHand \in Seq(Nat)
         /\ Len(onHand) = Len(Opening)
         /\ layers \in Seq(Layers)
         /\ average \in [At -> Fractions]
         /\ held \in [Buyers -> Held] /\ above \subseteq At
         /\ valueIn \in Nat /\ valueOut \in Nat /\ method \in Method
         /\ \A l \in At : /\ onHand[l] \in Nat /\ Reserved(l) \in Nat
                          /\ Units(l) \in Nat
                          /\ average[l] \in Fractions /\ Pool(l) \in At
  <1>1. /\ onHand \in [At -> Nat] /\ valueIn \in Nat /\ valueOut \in Nat
        /\ method \in Method /\ above \subseteq At
    BY DEF CostingInv, CostingTypeOK
  <1>2. layers \in Seq(Layers) /\ average \in [At -> Fractions]
    BY DEF CostingInv, CostingTypeOK, Layers, Fractions
  <1>3. held \in [Buyers -> Held]
    BY DEF CostingInv, CostingTypeOK, Held
  <1>4. onHand \in Seq(Nat) /\ Len(onHand) = Len(Opening)
    BY <1>1, Places, FunctionIsSeq
  <1>5. \A l \in At : Reserved(l) \in Nat
    BY <1>3, HeldNat
  <1>6. \A l \in At : Pool(l) \in At
    BY Places DEF Pool
  <1> QED
    BY <1>1, <1>2, <1>3, <1>4, <1>5, <1>6 DEF Units

LEMMA UnitsNat ==
  ASSUME CostingInv, NEW k \in At
  PROVE  /\ onHand[k] \in Nat /\ Reserved(k) \in Nat
         /\ onHand[k] + Reserved(k) \in Nat
  <1>1. onHand[k] \in Nat /\ Reserved(k) \in Nat
    BY Typed
  <1> QED
    BY <1>1

LEMMA ReservedStays ==
  ASSUME held' = held
  PROVE  \A l \in At : Reserved(l)' = Reserved(l)
  BY DEF Reserved

(* The reservation of one order changes.                                   *)
LEMMA ReservedMoves ==
  ASSUME held \in [Buyers -> Held], held' \in [Buyers -> Held],
         NEW o \in Buyers, \A p \in Buyers : p # o => held'[p] = held[p],
         NEW l \in At
  PROVE  /\ HeldBy(o, l) \in Nat /\ HeldBy(o, l)' \in Nat
         /\ Reserved(l)' = Reserved(l) + (HeldBy(o, l)' - HeldBy(o, l))
  <1>1. PICK f, e : f = Holders(l) /\ e = Holders(l)'
    OBVIOUS
  <1>2. \A p \in Buyers : f[p] = HeldBy(p, l) /\ f[p] \in Nat
    BY <1>1, HeldNat
  <1>3. \A p \in Buyers : e[p] = HeldBy(p, l)' /\ e[p] \in Nat
    <2> SUFFICES ASSUME NEW p \in Buyers
                 PROVE  e[p] = HeldBy(p, l)' /\ e[p] \in Nat
      OBVIOUS
    <2>1. held'[p] \in Held
      OBVIOUS
    <2>2. held'[p].units[l] \in Nat
      BY <2>1 DEF Held
    <2> QED
      BY <1>1, <2>2 DEF Holders, HeldBy
  <1>4. \A p \in Buyers : p # o => e[p] = f[p]
    BY <1>2, <1>3 DEF HeldBy
  <1>5. SumFunctionOnSet(e, Buyers)
          = SumFunctionOnSet(f, Buyers) + (e[o] - f[o])
    <2>1. e[o] \in Int /\ \A p \in Buyers : f[p] \in Int
      BY <1>2, <1>3
    <2> QED
      BY <1>4, <2>1, Places, SumUpdate
  <1>6. Reserved(l) = SumFunctionOnSet(f, Buyers)
    BY <1>1, ReservedIs
  <1>7. Reserved(l)' = SumFunctionOnSet(e, Buyers)
    BY <1>1 DEF Reserved, Holders, HeldBy
  <1> QED
    BY <1>2, <1>3, <1>5, <1>6, <1>7
-----------------------------------------------------------------------------
(***************************************************************************)
(* The shipment.                                                           *)
(***************************************************************************)
Received(parts, r) ==
    [i \in 1..Len(parts) |->
        [left |-> InOrder([k \in 1..Len(parts) |-> parts[k].left], r)[i],
         cost |-> parts[i].cost]]

LEMMA TransitIs ==
  InTransitValue = Worth(shipment.parts)
                     - Worth(Received(shipment.parts, shipment.received))
  BY DEF InTransitValue, Received

LeftsIn(parts) == [k \in 1..Len(parts) |-> parts[k].left]

LEMMA ReceivedIs ==
  ASSUME NEW parts \in Seq(Parts), NEW r \in Nat
  PROVE  /\ Len(parts) \in Nat
         /\ LeftsIn(parts) \in Seq(Nat) /\ Len(LeftsIn(parts)) = Len(parts)
         /\ \A i \in 1..Len(parts) : LeftsIn(parts)[i] = parts[i].left
         /\ Received(parts, r) \in Seq(Parts)
         /\ Len(Received(parts, r)) = Len(parts)
         /\ \A i \in 1..Len(parts) :
              /\ Received(parts, r)[i].left = InOrder(LeftsIn(parts), r)[i]
              /\ Received(parts, r)[i].cost = parts[i].cost
  <1>1. Len(parts) \in Nat /\ \A i \in 1..Len(parts) :
          parts[i].left \in Nat /\ parts[i].cost \in Nat
    BY PartsArePriced DEF Priced
  <1>2. LeftsIn(parts) \in [1..Len(parts) -> Nat]
    BY <1>1 DEF LeftsIn
  <1>3. LeftsIn(parts) \in Seq(Nat) /\ Len(LeftsIn(parts)) = Len(parts)
    BY <1>1, <1>2, FunctionIsSeq
  <1>4. \A i \in 1..Len(parts) : InOrder(LeftsIn(parts), r)[i] \in Nat
    BY <1>3, InOrderIs
  <1>5. Received(parts, r) =
          [i \in 1..Len(parts) |->
             [left |-> InOrder(LeftsIn(parts), r)[i], cost |-> parts[i].cost]]
    BY DEF Received, LeftsIn
  <1>6. Received(parts, r) \in [1..Len(parts) -> Parts]
    BY <1>1, <1>4, <1>5 DEF Parts
  <1>7. Received(parts, r) \in Seq(Parts) /\ Len(Received(parts, r)) = Len(parts)
    BY <1>1, <1>6, FunctionIsSeq
  <1>8. \A i \in 1..Len(parts) :
              /\ Received(parts, r)[i].left = InOrder(LeftsIn(parts), r)[i]
              /\ Received(parts, r)[i].cost = parts[i].cost
    BY <1>5
  <1>9. \A i \in 1..Len(parts) : LeftsIn(parts)[i] = parts[i].left
    BY DEF LeftsIn
  <1> QED
    BY <1>1, <1>3, <1>7, <1>8, <1>9

(* Nothing received yet: nothing of the allocations is used.               *)
LEMMA NoneReceived ==
  ASSUME NEW parts \in Seq(Parts)
  PROVE  Worth(Received(parts, 0)) = 0
  <1>1. PICK p, n : p = Received(parts, 0) /\ n = Len(parts)
    OBVIOUS
  <1>2. /\ n \in Nat /\ p \in Seq(Parts) /\ Len(p) = n
        /\ LeftsIn(parts) \in Seq(Nat) /\ Len(LeftsIn(parts)) = n
        /\ \A i \in 1..n : p[i].left = InOrder(LeftsIn(parts), 0)[i]
    BY <1>1, ReceivedIs
  <1>3. \A i \in 1..n : p[i].left = 0
    BY <1>2, InOrderNone
  <1>4. Priced(p)
    BY <1>2, PartsArePriced
  <1>5. /\ \A i \in 1..n : Values(p)[i] = p[i].left * p[i].cost
        /\ Worth(p) = SumTo(Values(p), n)
    BY <1>2, <1>4, ValuesAre
  <1>6. \A i \in 1..n : Values(p)[i] = 0
    BY <1>2, <1>3, <1>4, <1>5 DEF Priced
  <1> QED
    BY <1>1, <1>2, <1>5, <1>6, SumToNull

LEMMA WorthOfNone == Worth(<<>>) = 0
  <1>1. PICK v : v = [i \in 1..Len(<<>>) |-> <<>>[i].left * <<>>[i].cost]
    OBVIOUS
  <1>2. Len(v) = 0
    BY <1>1
  <1> QED
    BY <1>1, <1>2, SumToZero DEF Worth, Total

LEMMA TransitNat ==
  ASSUME ShipmentInv
  PROVE  InTransitValue \in Int
  <1>1. shipment.parts \in Seq(Parts) /\ shipment.received \in Nat
    BY DEF ShipmentInv
  <1>2. Worth(shipment.parts) \in Nat
    BY <1>1, PartsArePriced, ValuesAre
  <1>3. Received(shipment.parts, shipment.received) \in Seq(Parts)
    BY <1>1, ReceivedIs
  <1>4. Worth(Received(shipment.parts, shipment.received)) \in Nat
    BY <1>3, PartsArePriced, ValuesAre
  <1> QED
    BY <1>2, <1>4, TransitIs

(* A step that leaves the shipment alone.                                  *)
LEMMA ShipmentStays ==
  ASSUME ShipmentInv, shipment' = shipment, method' = method,
         locked => locked'
  PROVE  ShipmentInv' /\ InTransitValue' = InTransitValue
  <1>1. PartLefts' = PartLefts /\ Total(PartLefts)' = Total(PartLefts)
    BY DEF PartLefts, Total
  <1>2. InTransitValue' = InTransitValue
    BY DEF InTransitValue
  <1>3. ShipmentInv'
    BY <1>1 DEF ShipmentInv, isFifo
  <1> QED
    BY <1>2, <1>3
-----------------------------------------------------------------------------
(***************************************************************************)
(* A receipt.                                                              *)
(***************************************************************************)
AveragesInv == \A l \in At : average[l] = NoCost \/ Averaged(average[l])

LEMMA NoCostIs == NoCost \in Fractions /\ \A a : Averaged(a) => a # NoCost
  BY DEF NoCost, Fractions, Averaged

(* The moving average after n units at c have joined the balances stock.   *)
LEMMA AverageMoves ==
  ASSUME average \in [At -> Fractions], AveragesInv,
         NEW stock \in [At -> Nat], NEW l \in At, NEW n \in Nat, n > 0,
         stock[l] >= n, NEW c \in Fractions, Averaged(c),
         Weighable(stock, l, n),
         average' = updateMovingAverage(stock, l, n, c)
  PROVE  /\ average' \in [At -> Fractions] /\ AveragesInv'
         /\ average'[Pool(l)] # NoCost
         /\ \A k \in At : k # Pool(l) => average'[k] = average[k]
  <1>1. PICK k, total : k = Pool(l) /\ total = InPool(stock, l)
    OBVIOUS
  <1>2. k \in At
    BY <1>1, Places DEF Pool
  <1>3. total \in Nat /\ total >= n
    <2>1. stock \in Seq(Nat) /\ Len(stock) = Len(Opening)
      BY Places, FunctionIsSeq
    <2>2. \A i \in 1..Len(Opening) : stock[i] \in Nat
      BY Places
    <2>3. /\ SumTo(stock, Len(Opening)) \in Nat
          /\ stock[l] <= SumTo(stock, Len(Opening))
      <3>1. l \in 1..Len(Opening)
        BY Places
      <3> QED
        BY <2>2, <3>1, Places, SumToNat, SumToEntry
    <2>4. CASE method = "PER_ITEM"
      BY <1>1, <2>1, <2>3, <2>4 DEF InPool, Total
    <2>5. CASE method # "PER_ITEM"
      BY <1>1, <2>5 DEF InPool
    <2> QED
      BY <2>4, <2>5
  <1>4. PICK m \in Nat : m = total - n /\ total = m + n
    BY <1>3
  <1>5. PICK old \in Fractions : old = average[k]
    BY <1>2
  <1>6. PICK new : new = IF m = 0 THEN Fraction(c.v, c.q)
                         ELSE Fraction(m * old.v * c.q + n * c.v * old.q,
                                       old.q * c.q * total)
    OBVIOUS
  <1>7. average' = [average EXCEPT ![k] = new]
    BY <1>1, <1>4, <1>5, <1>6 DEF updateMovingAverage
  <1>8. new \in Fractions /\ Averaged(new) /\ new # NoCost
    <2>1. CASE m = 0
      <3>1. c.v \in Nat /\ c.q \in Nat /\ c.q > 0
        BY DEF Fractions, Averaged
      <3>2. PICK low \in Costs, high \in Costs :
              low * c.q <= c.v /\ c.v <= high * c.q
        BY DEF Averaged, Between
      <3> QED
        BY <1>6, <2>1, <3>1, <3>2, FractionAveraged
    <2>2. CASE m # 0
      <3>1. Averaged(old)
        BY <1>1, <1>2, <1>3, <1>4, <1>5, <2>2 DEF Weighable, AveragesInv
      <3>2. new = Fraction(m * old.v * c.q + n * c.v * old.q,
                           old.q * c.q * (m + n))
        BY <1>4, <1>6, <2>2
      <3> QED
        BY <3>1, <3>2, WeightedAveraged
    <2> QED
      BY <2>1, <2>2
  <1>9. /\ average'[k] = new
        /\ \A j \in At : j # k => average'[j] = average[j]
    BY <1>2, <1>7
  <1>10. average' \in [At -> Fractions]
    BY <1>7, <1>8
  <1>11. AveragesInv'
    BY <1>2, <1>8, <1>9 DEF AveragesInv
  <1> QED
    BY <1>1, <1>8, <1>9, <1>10, <1>11

(* A unit cost is an average of its own.                                   *)
LEMMA UnitCost ==
  ASSUME NEW c \in Costs
  PROVE  [v |-> c, q |-> 1] \in Fractions /\ Averaged([v |-> c, q |-> 1])
  <1>1. c \in Nat /\ c * 1 = c
    BY CostingConstants
  <1> QED
    BY <1>1 DEF Fractions, Averaged, Between

(* The conjuncts of the invariant that say how stock and costs relate.     *)
LedgerInv ==
    /\ StockIsCosted /\ ValueConserved /\ AveragesInv
    /\ ~isFifo => layers = <<>>
    /\ ~locked => valueOut = 0
    /\ method = "NONE" => ~locked

LEMMA InvIs ==
  CostingInv <=> CostingTypeOK /\ LedgerInv /\ ShipmentInv /\ AdjustingInv
  BY DEF CostingInv, LedgerInv, AveragesInv

LEMMA LedgerIs == CostingInv => LedgerInv
  BY InvIs

LEMMA CoverIs == \A l : Total(LeftAt(l)) = Total(LeftsOf(layers, l))
  BY LeftAtIs

LEMMA CoverNext == \A l : Total(LeftAt(l))' = Total(LeftsOf(layers', l))
  BY DEF LeftAt, LeftsOf, Total, SumTo

(* Stock that a double shows, if the average of its pool covers it.        *)
UseIsCosted(k) == InUse(k) => average[Pool(k)] # NoCost
ByAverage == method # "NONE" /\ ~isFifo

LEMMA InUseIsCosted ==
  ASSUME CostingInv, ByAverage, NEW k \in At, InUse(k)
  PROVE  average[Pool(k)] # NoCost
  BY DEF CostingInv, StockIsCosted, ByAverage

(* Stock is in use after a step only if it was, or if the doubles that     *)
(* show it afterwards were computed from stock that was.                   *)
LEMMA UseStays ==
  ASSUME CostingInv, NEW k \in At,
         onHand'[k] + Reserved(k)' \in Nat,
         onHand'[k] + Reserved(k)' <= onHand[k] + Reserved(k),
         k \in above' => InUse(k),
         \A p \in Buyers : held'[p].ref = "ORDER_RESERVATION"
                             /\ k \in held'[p].up => InUse(k),
         InUse(k)'
  PROVE  InUse(k)
  <1>1. CASE onHand'[k] + Reserved(k)' > 0
    <2>1. onHand[k] + Reserved(k) > 0
      BY <1>1, UnitsNat
    <2> QED
      BY <2>1 DEF InUse
  <1>2. CASE k \in above'
    BY <1>2
  <1>3. CASE \E p \in Buyers : /\ held'[p].ref = "ORDER_RESERVATION"
                               /\ k \in held'[p].up
    BY <1>3
  <1> QED
    BY <1>1, <1>2, <1>3 DEF InUse

LEMMA HeldIsUsed ==
  ASSUME NEW p \in Buyers, held[p].ref = "ORDER_RESERVATION",
         NEW k \in held[p].up
  PROVE  InUse(k)
  BY DEF InUse

LEMMA AboveIsUsed == ASSUME NEW k \in above PROVE InUse(k)
  BY DEF InUse

LEMMA OnHandIsUsed ==
  ASSUME CostingInv, NEW k \in At, onHand[k] > 0
  PROVE  InUse(k)
  <1>1. onHand[k] + Reserved(k) > 0
    BY UnitsNat
  <1> QED
    BY <1>1 DEF InUse

(* A receipt that is costed: n units at cost c in location l, on top of    *)
(* balances that are nowhere larger.                                       *)
LEMMA CostedBooks ==
  ASSUME CostingInv, method' = method, method # "NONE",
         held' = held, shipment' = shipment, valueOut' = valueOut,
         onHand' \in [At -> Nat],
         NEW l \in At, NEW n \in Nat, n > 0, NEW c \in Costs,
         onHand'[l] >= n, onHand'[l] <= onHand[l] + n,
         \A k \in At : k # l => /\ onHand'[k] <= onHand[k]
                                /\ k \in above' => k \in above,
         costed(onHand', l, n, c)
  PROVE  /\ layers' \in Seq(Layers) /\ average' \in [At -> Fractions]
         /\ valueIn' \in Nat /\ locked' /\ LedgerInv'
         /\ ShipmentInv'
  <1>0. /\ layers \in Seq(Layers) /\ average \in [At -> Fractions]
        /\ valueIn \in Nat /\ valueOut \in Nat
        /\ \A k \in At : /\ onHand[k] \in Nat /\ Reserved(k) \in Nat
                         /\ onHand'[k] \in Nat
    BY Typed
  <1>1. locked' = TRUE
    BY DEF costed
  <1>2. ShipmentInv' /\ InTransitValue' = InTransitValue
        /\ InTransitValue \in Int
    BY <1>1, ShipmentStays, TransitNat DEF CostingInv
  <1>3. \A k \in At : Reserved(k)' = Reserved(k)
    BY ReservedStays
  <1>4. isFifo' <=> isFifo
    BY DEF isFifo
  <1>5. c \in Nat
    BY CostingConstants
  <1>6. LedgerInv
    BY LedgerIs
  <1>7. CASE isFifo
    <2>1. /\ layers' = Append(layers, [at |-> l, left |-> n, cost |-> c])
          /\ valueIn' = valueIn + n * c /\ average' = average
      BY <1>7 DEF costed
    <2>2. /\ layers' \in Seq(Layers) /\ Worth(layers') = Worth(layers) + n * c
          /\ \A k : Total(LeftsOf(layers', k))
                      = Total(LeftsOf(layers, k)) + (IF k = l THEN n ELSE 0)
      <3>1. PICK s, t : s = layers /\ t = layers'
        OBVIOUS
      <3>2. /\ s \in Seq(Layers)
            /\ t = Append(s, [at |-> l, left |-> n, cost |-> c])
        BY <1>0, <2>1, <3>1
      <3>3. LayerMore(t, s, l, n, c)
        BY <3>2 DEF LayerMore
      <3>4. LayerCounts(t, s, l, n, c)
        BY <1>5, <3>2, <3>3, NewLayer
      <3> QED
        BY <3>1, <3>4 DEF LayerCounts
    <2>3. n * c \in Nat /\ Worth(layers) \in Nat
      BY <1>0, <1>5, Distributes, LayersArePriced, ValuesAre
    <2>4. ASSUME NEW k \in At
          PROVE  Total(LeftAt(k))' >= onHand'[k] + Reserved(k)'
      <3>1. Total(LeftAt(k)) >= onHand[k] + Reserved(k)
        BY <1>6, <1>7 DEF LedgerInv, StockIsCosted, isFifo
      <3>2. Total(LeftsOf(layers, k)) \in Nat
        BY <1>0, LeftsAre
      <3>3. Total(LeftAt(k))'
              = Total(LeftAt(k)) + (IF k = l THEN n ELSE 0)
        BY <2>2, CoverIs, CoverNext
      <3>4. Total(LeftAt(k)) \in Nat
        BY <3>2, CoverIs
      <3>5. onHand'[k] <= onHand[k] + (IF k = l THEN n ELSE 0)
        BY <1>0
      <3> QED
        BY <1>0, <1>3, <3>1, <3>3, <3>4, <3>5
    <2>5. StockIsCosted'
      BY <1>4, <1>7, <2>4 DEF StockIsCosted
    <2>6. ValueConserved'
      <3>1. valueIn = valueOut + Worth(layers) + InTransitValue
        BY <1>6, <1>7 DEF LedgerInv, ValueConserved
      <3>2. Worth(layers)' = Worth(layers')
        BY DEF Worth, Total, SumTo
      <3> QED
        BY <1>0, <1>2, <2>1, <2>2, <2>3, <3>1, <3>2 DEF ValueConserved
    <2>7. AveragesInv'
      BY <1>6, <2>1 DEF LedgerInv, AveragesInv
    <2> QED
      BY <1>0, <1>1, <1>2, <1>4, <1>7, <2>1, <2>2, <2>3, <2>5, <2>6, <2>7
      DEF LedgerInv
  <1>8. CASE ~isFifo
    <2>1. /\ Weighable(onHand', l, n) /\ layers' = layers /\ valueIn' = valueIn
          /\ average' = updateMovingAverage(onHand', l, n, [v |-> c, q |-> 1])
      BY <1>8 DEF costed
    <2>2. /\ average' \in [At -> Fractions] /\ AveragesInv'
          /\ average'[Pool(l)] # NoCost
          /\ \A k \in At : k # Pool(l) => average'[k] = average[k]
      <3>1. AveragesInv
        BY <1>6 DEF LedgerInv
      <3>2. PICK u \in Fractions : u = [v |-> c, q |-> 1] /\ Averaged(u)
        BY UnitCost
      <3>3. average' = updateMovingAverage(onHand', l, n, u)
        BY <2>1, <3>2
      <3>4. PICK s \in [At -> Nat] : s = onHand'
        OBVIOUS
      <3>5. /\ average' = updateMovingAverage(s, l, n, u)
            /\ Weighable(s, l, n) /\ s[l] >= n
        BY <2>1, <3>3, <3>4
      <3> QED
        BY <1>0, <3>1, <3>2, <3>5, AverageMoves
    <2>3. StockIsCosted'
      <3> SUFFICES ASSUME NEW k \in At, InUse(k)'
                   PROVE  average'[Pool(k)'] # NoCost
        BY <1>4, <1>8 DEF StockIsCosted
      <3>1. Pool(k)' = Pool(k)
        BY DEF Pool
      <3>2. CASE Pool(k) = Pool(l)
        BY <2>2, <3>1, <3>2
      <3>3. CASE Pool(k) # Pool(l)
        <4>1. Pool(k) = k /\ k # l
          BY <3>3 DEF Pool
        <4>2. InUse(k)
          <5>1. /\ onHand'[k] + Reserved(k)' \in Nat
                /\ onHand'[k] + Reserved(k)' <= onHand[k] + Reserved(k)
            BY <1>0, <1>3, <4>1
          <5>2. k \in above' => InUse(k)
            BY <4>1, AboveIsUsed
          <5>3. \A p \in Buyers : held'[p].ref = "ORDER_RESERVATION"
                                   /\ k \in held'[p].up => InUse(k)
            BY HeldIsUsed
          <5> QED
            BY <5>1, <5>2, <5>3, UseStays
        <4>3. average[Pool(k)] # NoCost
          BY <1>6, <1>8, <4>2 DEF LedgerInv, StockIsCosted
        <4> QED
          BY <2>2, <3>1, <3>3, <4>1, <4>3
      <3> QED
        BY <3>2, <3>3
    <2>4. ValueConserved'
      BY <1>4, <1>8 DEF ValueConserved
    <2> QED
      BY <1>0, <1>1, <1>2, <1>4, <1>6, <1>8, <2>1, <2>2, <2>3, <2>4
      DEF LedgerInv
  <1> QED
    BY <1>7, <1>8
-----------------------------------------------------------------------------
(***************************************************************************)
(* Steps that cost nothing, and issues.                                    *)
(***************************************************************************)

(* A step that costs nothing and adds no unit to what is on hand or        *)
(* reserved.                                                               *)
LEMMA CostsStay ==
  ASSUME CostingInv,
         method' = method, locked' = locked, layers' = layers,
         average' = average, shipment' = shipment, valueIn' = valueIn,
         valueOut' = valueOut,
         \A k \in At : onHand'[k] + Reserved(k)' <= onHand[k] + Reserved(k),
         \A k \in At : onHand'[k] + Reserved(k)' \in Nat,
         ByAverage => \A k \in At : InUse(k)' => InUse(k)
  PROVE  LedgerInv' /\ ShipmentInv'
  <1>1. ShipmentInv' /\ InTransitValue' = InTransitValue
    BY ShipmentStays DEF CostingInv
  <1>2. LedgerInv /\ (isFifo' <=> isFifo)
    BY LedgerIs DEF isFifo
  <1>3. \A k \in At : onHand[k] + Reserved(k) \in Nat
    BY UnitsNat
  <1>4. StockIsCosted'
    <2> SUFFICES ASSUME method # "NONE", NEW k \in At
                 PROVE  IF isFifo
                        THEN Total(LeftAt(k))' >= onHand'[k] + Reserved(k)'
                        ELSE InUse(k)' => average'[Pool(k)'] # NoCost
      BY <1>2 DEF StockIsCosted
    <2>1. Total(LeftAt(k))' = Total(LeftAt(k)) /\ Pool(k)' = Pool(k)
      BY CoverIs, CoverNext DEF Pool
    <2>2. Total(LeftAt(k)) \in Nat
      BY Typed, CoverIs, LeftsAre
    <2>3. IF isFifo THEN Total(LeftAt(k)) >= onHand[k] + Reserved(k)
          ELSE InUse(k) => average[Pool(k)] # NoCost
      BY <1>2 DEF LedgerInv, StockIsCosted
    <2>4. ~isFifo => (InUse(k)' => InUse(k))
      BY DEF ByAverage
    <2> QED
      BY <1>3, <2>1, <2>2, <2>3, <2>4
  <1>5. ValueConserved'
    <2>1. Worth(layers)' = Worth(layers)
      BY DEF Worth, Total, SumTo
    <2> QED
      BY <1>1, <1>2, <2>1 DEF LedgerInv, ValueConserved
  <1>6. AveragesInv'
    BY <1>2 DEF LedgerInv, AveragesInv
  <1> QED
    BY <1>1, <1>2, <1>4, <1>5, <1>6 DEF LedgerInv

(* An issue of as many units as leave what is on hand or reserved.         *)
LEMMA IssueBooks ==
  ASSUME CostingInv, method' = method, method # "NONE",
         NEW units \in [At -> Nat], NEW up, issue(units, up),
         \A k \in At : onHand'[k] + Reserved(k)' + units[k]
                         <= onHand[k] + Reserved(k),
         \A k \in At : onHand'[k] + Reserved(k)' \in Nat,
         ~isFifo => \A k \in At : InUse(k)' => average[Pool(k)] # NoCost
  PROVE  /\ layers' \in Seq(Layers) /\ average' \in [At -> Fractions]
         /\ locked' /\ StockIsCosted' /\ AveragesInv'
         /\ ~isFifo => layers' = <<>>
         /\ CostOf(units) \in Nat /\ Worth(layers') \in Nat
         /\ isFifo => /\ Covered(units)
                      /\ Worth(layers') = Worth(layers) - CostOf(units)
  <1>1. locked' = TRUE /\ average' = average
    BY DEF issue
  <1>2. LedgerInv /\ (isFifo' <=> isFifo)
    BY LedgerIs DEF isFifo
  <1>3. /\ layers \in Seq(Layers) /\ average \in [At -> Fractions]
        /\ \A k \in At : onHand[k] + Reserved(k) \in Nat /\ units[k] \in Nat
    <2>1. layers \in Seq(Layers) /\ average \in [At -> Fractions]
      BY Typed
    <2> QED
      BY <2>1, UnitsNat
  <1>4. AveragesInv'
    BY <1>1, <1>2 DEF LedgerInv, AveragesInv
  <1>5. CASE isFifo
    <2>1. /\ Covered(units) /\ layers' \in Seq(Layers)
          /\ \A k \in At : Total(LeftAt(k))' = Total(LeftAt(k)) - units[k]
          /\ CostOf(units) \in Nat
          /\ Worth(layers') = Worth(layers) - CostOf(units)
      BY <1>3, <1>5, IssueIs
    <2>2. StockIsCosted'
      <3> SUFFICES ASSUME NEW k \in At
                   PROVE  Total(LeftAt(k))' >= onHand'[k] + Reserved(k)'
        BY <1>2, <1>5 DEF StockIsCosted
      <3>1. Total(LeftAt(k)) >= onHand[k] + Reserved(k)
        BY <1>2, <1>5 DEF LedgerInv, StockIsCosted, isFifo
      <3>2. Total(LeftAt(k)) \in Nat
        BY <1>3, CoverIs, LeftsAre
      <3> QED
        BY <1>3, <2>1, <3>1, <3>2
    <2>3. Worth(layers') \in Nat
      <3>1. PICK s : s = layers' /\ s \in Seq(Layers)
        BY <2>1
      <3>2. Worth(s) \in Nat
        BY <3>1, LayersArePriced, ValuesAre
      <3> QED
        BY <3>1, <3>2
    <2> QED
      BY <1>1, <1>3, <1>4, <1>5, <2>1, <2>2, <2>3
  <1>6. CASE ~isFifo
    <2>1. layers = <<>>
      BY <1>2, <1>6 DEF LedgerInv
    <2>2. layers' = <<>>
      BY <2>1 DEF issue
    <2>3. CostOf(units) = 0
      <3>1. PICK v : v = [i \in 1..Len(layers) |->
                            consumed(units)[i] * layers[i].cost]
        OBVIOUS
      <3>2. Len(v) = 0
        BY <2>1, <3>1
      <3> QED
        BY <3>1, <3>2, SumToZero DEF CostOf, Total
    <2>4. StockIsCosted'
      <3> SUFFICES ASSUME NEW k \in At, InUse(k)'
                   PROVE  average'[Pool(k)'] # NoCost
        BY <1>2, <1>6 DEF StockIsCosted
      <3>1. average[Pool(k)] # NoCost
        BY <1>6
      <3> QED
        BY <1>1, <3>1 DEF Pool
    <2>5. layers' \in Seq(Layers)
      BY <2>2
    <2> QED
      BY <1>1, <1>3, <1>4, <1>6, <2>2, <2>3, <2>4, <2>5, WorthOfNone
  <1> QED
    BY <1>5, <1>6

(* An issue that leaves the company.                                       *)
LEMMA IssuedOut ==
  ASSUME CostingInv, method' = method, method # "NONE",
         NEW units \in [At -> Nat], NEW up, issue(units, up),
         \A k \in At : onHand'[k] + Reserved(k)' + units[k]
                         <= onHand[k] + Reserved(k),
         \A k \in At : onHand'[k] + Reserved(k)' \in Nat,
         ~isFifo => \A k \in At : InUse(k)' => average[Pool(k)] # NoCost,
         shipment' = shipment, valueIn' = valueIn,
         valueOut' = valueOut + CostOf(units)
  PROVE  /\ layers' \in Seq(Layers) /\ average' \in [At -> Fractions]
         /\ valueOut' \in Nat /\ locked' /\ LedgerInv' /\ ShipmentInv'
  <1>1. /\ layers' \in Seq(Layers) /\ average' \in [At -> Fractions]
        /\ locked' /\ StockIsCosted' /\ AveragesInv'
        /\ ~isFifo => layers' = <<>>
        /\ CostOf(units) \in Nat /\ Worth(layers') \in Nat
        /\ isFifo => Worth(layers') = Worth(layers) - CostOf(units)
    BY IssueBooks
  <1>2. /\ ShipmentInv' /\ InTransitValue' = InTransitValue
        /\ InTransitValue \in Int
    BY <1>1, ShipmentStays, TransitNat DEF CostingInv
  <1>3. LedgerInv /\ (isFifo' <=> isFifo)
    BY LedgerIs DEF isFifo
  <1>4. ValueConserved'
    <2> SUFFICES ASSUME isFifo
                 PROVE  valueIn' = valueOut' + Worth(layers)'
                                     + InTransitValue'
      BY <1>3 DEF ValueConserved
    <2>1. Worth(layers)' = Worth(layers')
      BY DEF Worth, Total, SumTo
    <2>2. valueIn = valueOut + Worth(layers) + InTransitValue
      BY <1>3 DEF LedgerInv, ValueConserved
    <2>3. Worth(layers) \in Nat
      BY Typed, LayersArePriced, ValuesAre
    <2> QED
      BY <1>1, <1>2, <2>1, <2>2, <2>3, Typed
  <1>5. valueOut' \in Nat
    BY <1>1, Typed
  <1> QED
    BY <1>1, <1>2, <1>3, <1>4, <1>5 DEF LedgerInv
-----------------------------------------------------------------------------
(***************************************************************************)
(* Every operation keeps the invariant.                                    *)
(***************************************************************************)
LEMMA InvNext ==
  ASSUME onHand' \in [At -> Nat], above' \subseteq At,
         layers' \in Seq(Layers), average' \in [At -> Fractions],
         held' \in [Buyers -> Held],
         valueIn' \in Nat, valueOut' \in Nat, method' \in Method,
         locked' \in BOOLEAN, ShipmentInv', AdjustingInv', LedgerInv'
  PROVE  CostingInv'
  <1>1. shipment'.sent \in Nat /\ shipment'.received \in 0..shipment'.sent
    <2>1. PICK s, r : s = shipment'.sent /\ r = shipment'.received
      OBVIOUS
    <2>2. s \in Nat /\ r \in Nat /\ r <= s
      BY <2>1 DEF ShipmentInv
    <2>3. r \in 0..s
      BY <2>2
    <2> QED
      BY <2>1, <2>2, <2>3
  <1>2. adjusting'.at \in 0..Len(Opening)
    <2>1. CASE adjusting' = Idle
      BY <2>1, Places DEF Idle
    <2>2. CASE adjusting' \in Adjustment
      BY <2>2, Places DEF Adjustment
    <2> QED
      BY <2>1, <2>2 DEF AdjustingInv
  <1>3. layers' \in Seq([at : At, left : Nat, cost : Nat])
    BY DEF Layers
  <1>4. average' \in [At -> [v : Nat, q : Nat]]
    BY DEF Fractions
  <1>5. held' \in [Buyers -> [ref : Ref, units : [At -> Nat],
                              up : SUBSET At, cost : Nat]]
    BY DEF Held
  <1>6. CostingTypeOK'
    BY <1>1, <1>2, <1>3, <1>4, <1>5 DEF CostingTypeOK
  <1> QED
    BY <1>6 DEF CostingInv, LedgerInv, AveragesInv

(* Where a double can lie above once balances were computed anew.          *)
LEMMA RecomputedIs ==
  ASSUME NEW S, NEW T \in Recomputed(S)
  PROVE  T \subseteq At /\ \A k \in T : k \in above \/ k \in S
  BY DEF Recomputed

LEMMA AddedIs ==
  ASSUME NEW l, NEW n, NEW T \in Added(l, n)
  PROVE  /\ T \subseteq At /\ \A k \in T : k \in above \/ k = l
         /\ l \in T /\ onHand[l] = 0 => l \in above
  BY DEF Added, Recomputed

LEMMA StockInInv ==
  ASSUME CostingInv, NEW l \in At, NEW n \in Lots, NEW c \in Costs,
         stockIn(l, n, c)
  PROVE  CostingInv'
  <1>1. /\ onHand' = [onHand EXCEPT ![l] = @ + n] /\ costed(onHand', l, n, c)
        /\ above' \in Added(l, n)
        /\ method # "NONE" /\ method' = method /\ held' = held
        /\ shipment' = shipment /\ adjusting' = adjusting /\ adjusting = Idle
        /\ valueOut' = valueOut
    BY DEF stockIn, lockItem
  <1>2. n \in Nat /\ n > 0
    BY CostingConstants
  <1>3. /\ onHand' \in [At -> Nat] /\ onHand'[l] >= n
        /\ onHand'[l] <= onHand[l] + n
        /\ \A k \in At : k # l => onHand'[k] <= onHand[k]
    <2>1. onHand \in [At -> Nat]
      BY Typed
    <2> QED
      BY <1>1, <1>2, <2>1
  <1>7. /\ above' \subseteq At
        /\ \A k \in At : k # l => (k \in above' => k \in above)
    BY <1>1, AddedIs
  <1>4. /\ layers' \in Seq(Layers) /\ average' \in [At -> Fractions]
        /\ valueIn' \in Nat /\ locked' /\ LedgerInv' /\ ShipmentInv'
    BY <1>1, <1>2, <1>3, <1>7, CostedBooks
  <1>5. locked' \in BOOLEAN
    BY <1>1 DEF costed
  <1>6. AdjustingInv'
    BY <1>1 DEF AdjustingInv
  <1> QED
    BY <1>1, <1>3, <1>4, <1>5, <1>6, <1>7, Typed, InvNext

LEMMA ReadBalanceInv ==
  ASSUME CostingInv, NEW l \in At, NEW d \in Deltas, NEW c \in Costs,
         readBalance(l, d, c)
  PROVE  CostingInv'
  <1>1. /\ method' = method /\ locked' = locked /\ onHand' = onHand
        /\ layers' = layers /\ average' = average /\ held' = held
        /\ shipment' = shipment /\ valueIn' = valueIn /\ valueOut' = valueOut
        /\ above' = above /\ onHand[l] + d >= 0 /\ method # "NONE"
    BY DEF readBalance, lockItem
  <1>6. PICK up \in Added(l, d) :
          adjusting' = [at |-> l, before |-> onHand[l], delta |-> d,
                        cost |-> IF d > 0 THEN c ELSE 0, up |-> up \cap {l}]
    BY DEF readBalance
  <1>7. \A k \in At : InUse(k)' => InUse(k)
    BY <1>1, ReservedStays DEF InUse
  <1>2. \A k \in At : /\ onHand'[k] + Reserved(k)' <= onHand[k] + Reserved(k)
                      /\ onHand'[k] + Reserved(k)' \in Nat
    BY <1>1, ReservedStays, UnitsNat
  <1>3. LedgerInv' /\ ShipmentInv'
    BY <1>1, <1>2, <1>7, CostsStay
  <1>4. AdjustingInv'
    <2>1. onHand[l] \in Nat /\ c \in Nat /\ d \in Int
      BY Typed, CostingConstants
    <2>2. /\ adjusting'.before = onHand[l] /\ adjusting'.at = l
          /\ adjusting'.delta = d /\ adjusting'.up = up \cap {l}
          /\ adjusting'.delta > 0 => adjusting'.cost \in Costs
          /\ adjusting' \in Adjustment
      BY <1>6, <2>1 DEF Adjustment
    <2>3. ASSUME l \in up, ~isFifo PROVE average[Pool(l)] # NoCost
      <3>1. InUse(l)
        BY <2>1, <2>3, AddedIs, AboveIsUsed, OnHandIsUsed
      <3> QED
        BY <1>1, <2>3, <3>1, InUseIsCosted DEF ByAverage
    <2>4. (adjusting.up # {} /\ ~isFifo => average[Pool(adjusting.at)] # NoCost)'
      <3>1. (isFifo' <=> isFifo) /\ Pool(adjusting.at)' = Pool(l)
        BY <1>1, <2>2 DEF isFifo, Pool
      <3> QED
        BY <1>1, <2>2, <2>3, <3>1
    <2> QED
      BY <1>1, <2>1, <2>2, <2>4 DEF AdjustingInv
  <1>5. locked' \in BOOLEAN
    BY <1>1 DEF CostingInv, CostingTypeOK
  <1> QED
    BY <1>1, <1>3, <1>4, <1>5, Typed, InvNext

(* The balance written back is the one read, adjusted; what a release      *)
(* added in between is lost, which leaves fewer units to cost.             *)
LEMMA AdjustmentInv ==
  ASSUME CostingInv, adjustment
  PROVE  CostingInv'
  <1>1. /\ adjusting # Idle /\ adjusting' = Idle /\ method' = method
        /\ held' = held /\ shipment' = shipment
        /\ onHand' = [onHand EXCEPT ![adjusting.at]
                                      = adjusting.before + adjusting.delta]
        /\ above' = (above \ {adjusting.at}) \cup adjusting.up
    BY DEF adjustment
  <1>2. /\ adjusting \in Adjustment
        /\ adjusting.delta > 0 => adjusting.cost \in Costs
        /\ adjusting.before <= onHand[adjusting.at]
        /\ adjusting.before + adjusting.delta >= 0
        /\ method # "NONE" /\ adjusting.up \subseteq {adjusting.at}
        /\ adjusting.up # {} /\ ~isFifo =>
              average[Pool(adjusting.at)] # NoCost
    BY <1>1 DEF CostingInv, AdjustingInv
  <1>3. PICK l \in At, b \in Nat, d \in Deltas, c \in Nat, up \in SUBSET At :
          /\ l = adjusting.at /\ b = adjusting.before
          /\ d = adjusting.delta /\ c = adjusting.cost
          /\ up = adjusting.up
    BY <1>2 DEF Adjustment
  <1>10. /\ above' \subseteq At
         /\ \A k \in At : k \in above' => k \in above \/ (k = l /\ l \in up)
         /\ l \in up /\ ~isFifo => average[Pool(l)] # NoCost
    BY <1>1, <1>2, <1>3, Typed
  <1>4. d \in Int /\ d # 0 /\ b + d \in Nat /\ b <= onHand[l]
    BY <1>2, <1>3, CostingConstants
  <1>5. onHand \in [At -> Nat] /\ \A k \in At : onHand[k] \in Nat
    BY Typed
  <1>6. /\ onHand' \in [At -> Nat] /\ onHand'[l] = b + d
        /\ \A k \in At : k # l => onHand'[k] = onHand[k]
    BY <1>1, <1>3, <1>4, <1>5
  <1>7. AdjustingInv'
    BY <1>1 DEF AdjustingInv
  <1>8. CASE d > 0
    <2>1. costed(onHand', l, d, c) /\ valueOut' = valueOut
      BY <1>3, <1>8 DEF adjustment
    <2>2. /\ d \in Nat /\ onHand'[l] >= d /\ onHand'[l] <= onHand[l] + d
          /\ c \in Costs
          /\ \A k \in At : k # l => /\ onHand'[k] <= onHand[k]
                                    /\ k \in above' => k \in above
      BY <1>2, <1>3, <1>4, <1>5, <1>6, <1>8, <1>10
    <2>3. /\ layers' \in Seq(Layers) /\ average' \in [At -> Fractions]
          /\ valueIn' \in Nat /\ locked' /\ LedgerInv' /\ ShipmentInv'
      BY <1>1, <1>2, <1>6, <1>8, <2>1, <2>2, CostedBooks
    <2>4. locked' \in BOOLEAN
      BY <2>1 DEF costed
    <2> QED
      BY <1>1, <1>6, <1>7, <1>10, <2>1, <2>3, <2>4, Typed, InvNext
  <1>9. CASE ~(d > 0)
    <2>1. /\ issue(Only(l, -d), {})
          /\ valueOut' = valueOut + CostOf(Only(l, -d))
          /\ valueIn' = valueIn
      BY <1>3, <1>9 DEF adjustment
    <2>2. PICK units : units = Only(l, -d)
      OBVIOUS
    <2>3. /\ units \in [At -> Nat] /\ units[l] = -d
          /\ \A k \in At : k # l => units[k] = 0
      BY <1>4, <1>9, <2>2 DEF Only
    <2>4. /\ \A k \in At : onHand'[k] + Reserved(k)' + units[k]
                             <= onHand[k] + Reserved(k)
          /\ \A k \in At : onHand'[k] + Reserved(k)' \in Nat
      <3> SUFFICES ASSUME NEW k \in At
                   PROVE  /\ onHand'[k] + Reserved(k)' + units[k]
                               <= onHand[k] + Reserved(k)
                          /\ onHand'[k] + Reserved(k)' \in Nat
        OBVIOUS
      <3>1. Reserved(k)' = Reserved(k) /\ Reserved(k) \in Nat
        BY <1>1, ReservedStays, UnitsNat
      <3>2. PICK r \in Nat, o \in Nat, p \in Nat, u \in Nat :
              /\ r = Reserved(k) /\ o = onHand[k] /\ p = onHand'[k]
              /\ u = units[k]
        BY <1>5, <1>6, <2>3, <3>1
      <3>3. p + u <= o
        BY <1>4, <1>6, <2>3, <3>2
      <3> QED
        BY <3>1, <3>2, <3>3
    <2>7. ASSUME ~isFifo, NEW k \in At, InUse(k)'
          PROVE  average[Pool(k)] # NoCost
      <3>1. CASE k = l /\ l \in up
        BY <1>10, <2>7, <3>1
      <3>2. CASE ~(k = l /\ l \in up)
        <4>1. k \in above' => InUse(k)
          BY <1>10, <3>2, AboveIsUsed
        <4>2. \A p \in Buyers : held'[p].ref = "ORDER_RESERVATION"
                                 /\ k \in held'[p].up => InUse(k)
          BY <1>1, HeldIsUsed
        <4>3. onHand'[k] + Reserved(k)' <= onHand[k] + Reserved(k)
          <5>1. units[k] \in Nat /\ onHand'[k] + Reserved(k)' \in Nat
            BY <2>3, <2>4
          <5>2. onHand'[k] + Reserved(k)' + units[k] <= onHand[k] + Reserved(k)
            BY <2>4
          <5>3. onHand[k] + Reserved(k) \in Nat
            BY UnitsNat
          <5> QED
            BY <5>1, <5>2, <5>3
        <4>4. InUse(k)
          BY <2>4, <2>7, <4>1, <4>2, <4>3, UseStays
        <4> QED
          BY <1>2, <2>7, <4>4, InUseIsCosted DEF ByAverage
      <3> QED
        BY <3>1, <3>2
    <2>5. /\ layers' \in Seq(Layers) /\ average' \in [At -> Fractions]
          /\ valueOut' \in Nat /\ locked' /\ LedgerInv' /\ ShipmentInv'
      BY <1>1, <1>2, <2>1, <2>2, <2>3, <2>4, <2>7, IssuedOut
    <2>6. locked' \in BOOLEAN
      BY <2>1 DEF issue
    <2> QED
      BY <1>1, <1>6, <1>7, <1>10, <2>1, <2>5, <2>6, Typed, InvNext
  <1> QED
    BY <1>8, <1>9

(* A reservation moves units from the balances to the order.               *)
LEMMA ReserveStockInv ==
  ASSUME CostingInv, NEW o \in Buyers, NEW n \in Amounts, reserveStock(o, n)
  PROVE  CostingInv'
  <1>1. PICK units : units = InOrder(onHand, n)
    OBVIOUS
  <1>2. /\ adjusting = Idle /\ held[o].ref = "NONE"
        /\ onHand' = [l \in At |-> onHand[l] - units[l]]
        /\ method' = method /\ locked' = locked /\ layers' = layers
        /\ average' = average /\ shipment' = shipment
        /\ adjusting' = adjusting /\ valueIn' = valueIn
        /\ valueOut' = valueOut
    BY <1>1 DEF reserveStock
  <1>12. PICK up \in TakenAbove(units) :
           /\ held' = [held EXCEPT ![o] =
                 [ref |-> "ORDER_RESERVATION", units |-> units, up |-> up,
                  cost |-> 0]]
           /\ above' \in Recomputed(Touched(units, up))
    BY <1>1 DEF reserveStock
  <1>3. /\ onHand \in Seq(Nat) /\ Len(onHand) = Len(Opening)
        /\ held \in [Buyers -> Held] /\ n \in Nat
    BY Typed, CostingConstants
  <1>4. /\ units \in Seq(Nat) /\ Len(units) = Len(Opening)
        /\ \A l \in At : /\ units[l] \in Nat /\ units[l] <= onHand[l]
                         /\ onHand[l] \in Nat
    <2>1. At = 1..Len(onHand)
      BY <1>3, Places
    <2> QED
      BY <1>1, <1>3, <2>1, InOrderIs
  <1>5. units \in [At -> Nat]
    BY <1>4, Places
  <1>6. held' \in [Buyers -> Held]
    <2>1. [ref |-> "ORDER_RESERVATION", units |-> units, up |-> up,
           cost |-> 0] \in Held
      BY <1>5 DEF Held, Ref, TakenAbove
    <2> QED
      BY <1>3, <1>12, <2>1
  <1>7. onHand' \in [At -> Nat]
    BY <1>2, <1>4
  <1>8. ASSUME NEW l \in At
        PROVE  /\ onHand'[l] + Reserved(l)' = onHand[l] + Reserved(l)
               /\ onHand'[l] + Reserved(l)' \in Nat
    <2>1. /\ HeldBy(o, l) \in Nat /\ HeldBy(o, l)' \in Nat
          /\ Reserved(l)' = Reserved(l) + (HeldBy(o, l)' - HeldBy(o, l))
      <3>1. \A p \in Buyers : p # o => held'[p] = held[p]
        BY <1>3, <1>12
      <3> QED
        BY <1>3, <1>6, <3>1, ReservedMoves
    <2>2. HeldBy(o, l) = 0
      BY <1>2 DEF HeldBy
    <2>3. HeldBy(o, l)' = units[l]
      BY <1>3, <1>12 DEF HeldBy
    <2>4. onHand'[l] = onHand[l] - units[l]
      BY <1>2
    <2>5. Reserved(l) \in Nat /\ onHand[l] \in Nat
      BY UnitsNat
    <2> QED
      BY <1>4, <2>1, <2>2, <2>3, <2>4, <2>5
  <1>9. /\ \A k \in At : onHand'[k] + Reserved(k)' <= onHand[k] + Reserved(k)
        /\ \A k \in At : onHand'[k] + Reserved(k)' \in Nat
    BY <1>8
  <1>13. ASSUME NEW k \in At, k \in up \/ k \in Touched(units, up)
         PROVE  InUse(k)
    <2>1. CASE onHand[k] > 0
      BY <2>1, OnHandIsUsed
    <2>2. CASE ~(onHand[k] > 0)
      <3>1. k \in up /\ units[k] = onHand[k]
        BY <1>4, <1>13, <2>2 DEF Touched
      <3>2. k \in above
        BY <3>1 DEF TakenAbove
      <3> QED
        BY <3>2, AboveIsUsed
    <2> QED
      BY <2>1, <2>2
  <1>14. above' \subseteq At
    BY <1>12, RecomputedIs
  <1>15. ASSUME NEW k \in At, InUse(k)' PROVE InUse(k)
    <2>1. k \in above' => InUse(k)
      BY <1>12, <1>13, RecomputedIs, AboveIsUsed
    <2>2. ASSUME NEW p \in Buyers, held'[p].ref = "ORDER_RESERVATION",
                 k \in held'[p].up
          PROVE  InUse(k)
      <3>1. CASE p = o
        <4>1. held'[p].up = up
          BY <1>3, <1>12, <3>1
        <4> QED
          BY <1>13, <2>2, <4>1
      <3>2. CASE p # o
        <4>1. held'[p] = held[p]
          BY <1>3, <1>12, <3>2
        <4> QED
          BY <2>2, <4>1, HeldIsUsed
      <3> QED
        BY <3>1, <3>2
    <2> QED
      BY <1>9, <1>15, <2>1, <2>2, UseStays
  <1>10. LedgerInv' /\ ShipmentInv'
    BY <1>2, <1>9, <1>15, CostsStay
  <1>11. AdjustingInv' /\ locked' \in BOOLEAN
    BY <1>2 DEF AdjustingInv, CostingInv, CostingTypeOK
  <1> QED
    BY <1>2, <1>6, <1>7, <1>10, <1>11, <1>14, Typed, InvNext

(* What an order reserved is part of what is reserved in the location.     *)
LEMMA HeldIsReserved ==
  ASSUME CostingInv, NEW o \in Buyers, held[o].ref = "ORDER_RESERVATION"
  PROVE  /\ held[o].units \in [At -> Nat]
         /\ \A l \in At : held[o].units[l] <= onHand[l] + Reserved(l)
  <1>1. held \in [Buyers -> Held] /\ held[o].units \in [At -> Nat]
    BY Typed DEF Held
  <1>2. ASSUME NEW l \in At
        PROVE  held[o].units[l] <= onHand[l] + Reserved(l)
    <2>1. PICK f : f = Holders(l)
      OBVIOUS
    <2>2. /\ f[o] = held[o].units[l]
          /\ \A p \in Buyers : f[p] \in Nat
      BY <1>1, <2>1, HeldNat DEF HeldBy
    <2>3. IsFiniteSet(Buyers) /\ IsFiniteSet(Buyers \ {o})
      BY Places, FS_RemoveElement
    <2>4. SumFunctionOnSet(f, Buyers)
            = f[o] + SumFunctionOnSet(f, Buyers \ {o})
      <3>1. \A p \in Buyers : f[p] \in Int
        BY <2>2
      <3> QED
        BY <2>3, <3>1, SumRemove
    <2>5. SumFunctionOnSet(f, Buyers \ {o}) \in Nat /\ f[o] \in Nat
      BY <2>2, <2>3, SumNat
    <2>6. Reserved(l) = SumFunctionOnSet(f, Buyers) /\ onHand[l] \in Nat
      BY <2>1, ReservedIs, UnitsNat
    <2> QED
      BY <2>2, <2>4, <2>5, <2>6
  <1> QED
    BY <1>1, <1>2

(* A release moves them back, also while an adjustment is in progress.     *)
LEMMA ReleaseInv ==
  ASSUME CostingInv, NEW o \in Buyers, releaseReservation(o)
  PROVE  CostingInv'
  <1>1. /\ held[o].ref = "ORDER_RESERVATION"
        /\ onHand' = [l \in At |-> onHand[l] + held[o].units[l]]
        /\ held' = [held EXCEPT ![o].ref = "ORDER_RESERVATION_RELEASED",
                                ![o].up = {}]
        /\ above' \in Recomputed(Touched(held[o].units, held[o].up))
        /\ method' = method /\ locked' = locked /\ layers' = layers
        /\ average' = average /\ shipment' = shipment
        /\ adjusting' = adjusting /\ valueIn' = valueIn
        /\ valueOut' = valueOut
    BY DEF releaseReservation
  <1>2. /\ onHand \in [At -> Nat] /\ held \in [Buyers -> Held]
    BY Typed
  <1>3. PICK units \in [At -> Nat] : units = held[o].units
    <2>1. held[o] \in Held
      BY <1>2
    <2> QED
      BY <2>1 DEF Held
  <1>4. held' \in [Buyers -> Held]
    <2>1. [held[o] EXCEPT !.ref = "ORDER_RESERVATION_RELEASED",
                          !.up = {}] \in Held
      <3>1. held[o] \in Held
        BY <1>2
      <3> QED
        BY <3>1 DEF Held, Ref
    <2>2. held' = [held EXCEPT ![o] =
                     [held[o] EXCEPT !.ref = "ORDER_RESERVATION_RELEASED",
                                     !.up = {}]]
      BY <1>1
    <2> QED
      BY <1>2, <2>1, <2>2
  <1>5. \A l \in At : /\ units[l] \in Nat /\ onHand[l] \in Nat
                      /\ onHand'[l] = onHand[l] + units[l]
    BY <1>1, <1>2, <1>3
  <1>6. onHand' \in [At -> Nat]
    BY <1>1, <1>2, <1>3
  <1>7. ASSUME NEW l \in At
        PROVE  /\ onHand'[l] + Reserved(l)' = onHand[l] + Reserved(l)
               /\ onHand'[l] + Reserved(l)' \in Nat
    <2>1. /\ HeldBy(o, l) \in Nat /\ HeldBy(o, l)' \in Nat
          /\ Reserved(l)' = Reserved(l) + (HeldBy(o, l)' - HeldBy(o, l))
      <3>1. \A p \in Buyers : p # o => held'[p] = held[p]
        BY <1>1, <1>2
      <3> QED
        BY <1>2, <1>4, <3>1, ReservedMoves
    <2>2. HeldBy(o, l) = units[l]
      BY <1>1, <1>3 DEF HeldBy
    <2>3. HeldBy(o, l)' = 0
      <3>1. held'[o] = [held[o] EXCEPT !.ref = "ORDER_RESERVATION_RELEASED",
                                       !.up = {}]
        BY <1>1, <1>2
      <3>2. held[o] \in Held
        BY <1>2
      <3>3. held'[o].ref = "ORDER_RESERVATION_RELEASED"
        BY <3>1, <3>2 DEF Held
      <3> QED
        BY <3>3 DEF HeldBy
    <2>4. Reserved(l) \in Nat
      BY UnitsNat
    <2> QED
      BY <1>5, <2>1, <2>2, <2>3, <2>4
  <1>8. /\ \A k \in At : onHand'[k] + Reserved(k)' <= onHand[k] + Reserved(k)
        /\ \A k \in At : onHand'[k] + Reserved(k)' \in Nat
    BY <1>7
  <1>12. above' \subseteq At
    BY <1>1, RecomputedIs
  <1>13. ASSUME NEW k \in At, InUse(k)' PROVE InUse(k)
    <2>1. held[o].units[k] > 0 => InUse(k)
      <3>1. /\ held[o].units[k] <= onHand[k] + Reserved(k)
            /\ held[o].units[k] \in Nat
        BY <1>1, <1>3, <1>5, HeldIsReserved
      <3>2. held[o].units[k] > 0 => onHand[k] + Reserved(k) > 0
        BY <3>1, UnitsNat
      <3> QED
        BY <3>2 DEF InUse
    <2>2. k \in held[o].up => InUse(k)
      BY <1>1, HeldIsUsed
    <2>3. k \in above' => InUse(k)
      BY <1>1, <2>1, <2>2, RecomputedIs, AboveIsUsed DEF Touched
    <2>4. ASSUME NEW p \in Buyers, held'[p].ref = "ORDER_RESERVATION",
                 k \in held'[p].up
          PROVE  InUse(k)
      <3>1. CASE p = o
        BY <1>1, <1>2, <2>4, <3>1 DEF Held
      <3>2. CASE p # o
        <4>1. held'[p] = held[p]
          BY <1>1, <1>2, <3>2
        <4> QED
          BY <2>4, <4>1, HeldIsUsed
      <3> QED
        BY <3>1, <3>2
    <2> QED
      BY <1>8, <1>13, <2>3, <2>4, UseStays
  <1>9. LedgerInv' /\ ShipmentInv'
    BY <1>1, <1>8, <1>13, CostsStay
  <1>10. AdjustingInv'
    <2>1. CASE adjusting = Idle
      BY <1>1, <2>1 DEF AdjustingInv
    <2>2. CASE adjusting # Idle
      <3>1. /\ adjusting \in Adjustment
            /\ adjusting.delta > 0 => adjusting.cost \in Costs
            /\ adjusting.before <= onHand[adjusting.at]
            /\ adjusting.before + adjusting.delta >= 0 /\ method # "NONE"
            /\ adjusting.up \subseteq {adjusting.at}
            /\ adjusting.up # {} /\ ~isFifo =>
                  average[Pool(adjusting.at)] # NoCost
        BY <2>2 DEF CostingInv, AdjustingInv
      <3>2. adjusting.at \in At /\ adjusting.before \in Nat
        BY <3>1 DEF Adjustment
      <3>3. adjusting.before <= onHand'[adjusting.at]
        BY <1>5, <3>1, <3>2
      <3> QED
        BY <1>1, <3>1, <3>3 DEF AdjustingInv, isFifo, Pool
    <2> QED
      BY <2>1, <2>2
  <1>11. locked' \in BOOLEAN
    BY <1>1 DEF CostingInv, CostingTypeOK
  <1> QED
    BY <1>1, <1>4, <1>6, <1>9, <1>10, <1>11, <1>12, Typed, InvNext

(* A commit costs the units the order reserved.                            *)
LEMMA CommitInv ==
  ASSUME CostingInv, NEW o \in Buyers, commitReservation(o)
  PROVE  CostingInv'
  <1>1. /\ adjusting = Idle /\ method # "NONE"
        /\ held[o].ref = "ORDER_RESERVATION"
        /\ issue(held[o].units, held[o].up)
        /\ held' = [held EXCEPT ![o].ref = "ORDER_RESERVATION_COMMITTED",
                                ![o].up = {}, ![o].cost = CostOf(held[o].units)]
        /\ valueOut' = valueOut + CostOf(held[o].units)
        /\ method' = method /\ onHand' = onHand /\ shipment' = shipment
        /\ adjusting' = adjusting /\ valueIn' = valueIn /\ above' = above
    BY DEF commitReservation, lockItem
  <1>2. /\ onHand \in [At -> Nat] /\ held \in [Buyers -> Held]
        /\ layers \in Seq(Layers)
    BY Typed
  <1>3. held[o] \in Held
    BY <1>2
  <1>4. PICK units \in [At -> Nat] : units = held[o].units
    BY <1>3 DEF Held
  <1>5. CostOf(units) \in Nat
    <2>1. CASE isFifo
      BY <1>1, <1>2, <1>4, <2>1, IssueIs
    <2>2. CASE ~isFifo
      <3>1. layers = <<>>
        BY <2>2, LedgerIs DEF LedgerInv
      <3>2. PICK v : v = [i \in 1..Len(layers) |->
                            consumed(units)[i] * layers[i].cost]
        OBVIOUS
      <3>3. Len(v) = 0
        BY <3>1, <3>2
      <3>4. CostOf(units) = 0
        BY <3>2, <3>3, SumToZero DEF CostOf, Total
      <3> QED
        BY <3>4
    <2> QED
      BY <2>1, <2>2
  <1>6. PICK z \in Nat : z = CostOf(units)
    BY <1>5
  <1>7. PICK new : new = [held[o] EXCEPT !.ref = "ORDER_RESERVATION_COMMITTED",
                                         !.up = {}, !.cost = z]
    OBVIOUS
  <1>8. new \in Held /\ new.ref = "ORDER_RESERVATION_COMMITTED"
    BY <1>3, <1>7 DEF Held, Ref
  <1>9. held' = [held EXCEPT ![o] = new]
    BY <1>1, <1>2, <1>4, <1>6, <1>7
  <1>10. /\ held' \in [Buyers -> Held] /\ held'[o] = new
         /\ \A p \in Buyers : p # o => held'[p] = held[p]
    BY <1>2, <1>8, <1>9
  <1>11. ASSUME NEW l \in At
         PROVE  /\ onHand'[l] + Reserved(l)' + units[l]
                     <= onHand[l] + Reserved(l)
                /\ onHand'[l] + Reserved(l)' \in Nat
    <2>1. /\ HeldBy(o, l) \in Nat /\ HeldBy(o, l)' \in Nat
          /\ Reserved(l)' = Reserved(l) + (HeldBy(o, l)' - HeldBy(o, l))
      BY <1>2, <1>10, ReservedMoves
    <2>2. HeldBy(o, l) = units[l] /\ units[l] \in Nat
      BY <1>1, <1>4 DEF HeldBy
    <2>3. HeldBy(o, l)' = 0
      BY <1>8, <1>10 DEF HeldBy
    <2>4. Reserved(l) \in Nat /\ onHand[l] \in Nat
      BY UnitsNat
    <2>5. Reserved(l)' \in Nat
      BY <1>10, HeldNatNext
    <2> QED
      BY <1>1, <2>1, <2>2, <2>3, <2>4, <2>5
  <1>14. ASSUME ~isFifo, NEW k \in At, InUse(k)'
         PROVE  average[Pool(k)] # NoCost
    <2>1. k \in above' => InUse(k)
      BY <1>1, AboveIsUsed
    <2>2. \A p \in Buyers : held'[p].ref = "ORDER_RESERVATION"
                             /\ k \in held'[p].up => InUse(k)
      BY <1>8, <1>10, HeldIsUsed
    <2>3. onHand'[k] + Reserved(k)' <= onHand[k] + Reserved(k)
      <3>1. units[k] \in Nat /\ onHand[k] + Reserved(k) \in Nat
        BY UnitsNat
      <3> QED
        BY <1>11, <3>1
    <2>4. InUse(k)
      BY <1>11, <1>14, <2>1, <2>2, <2>3, UseStays
    <2> QED
      BY <1>1, <1>14, <2>4, InUseIsCosted DEF ByAverage
  <1>12. /\ layers' \in Seq(Layers) /\ average' \in [At -> Fractions]
         /\ valueOut' \in Nat /\ locked' /\ LedgerInv' /\ ShipmentInv'
    BY <1>1, <1>4, <1>11, <1>14, IssuedOut
  <1>13. AdjustingInv' /\ locked' \in BOOLEAN
    BY <1>1 DEF AdjustingInv, issue
  <1> QED
    BY <1>1, <1>10, <1>12, <1>13, Typed, InvNext

LEMMA OnlyIs ==
  ASSUME NEW l \in At, NEW n \in Nat
  PROVE  /\ Only(l, n) \in [At -> Nat] /\ Only(l, n)[l] = n
         /\ \A k \in At : k # l => Only(l, n)[k] = 0
  BY DEF Only

(* The allocations of a shipment of n units from the first location: they  *)
(* are n units, and worth what the issue cost.                             *)
Allocated(n) ==
    [i \in 1..Len(layers) |-> [left |-> consumed(Only(1, n))[i],
                               cost |-> layers[i].cost]]

LEMMA AllocatedIs ==
  ASSUME NEW n \in Nat, Covered(Only(1, n))
  PROVE  /\ Allocated(n) \in Seq(Parts)
         /\ Total(LeftsIn(Allocated(n))) = n
         /\ Worth(Allocated(n)) = CostOf(Only(1, n))
  <1>1. PICK u, p, m : u = Only(1, n) /\ p = Allocated(n) /\ m = Len(layers)
    OBVIOUS
  <1>2. /\ u \in [At -> Nat] /\ u[1] = n /\ Covered(u)
        /\ \A k \in At : k # 1 => u[k] = 0
    BY <1>1, Places, OnlyIs
  <1>3. layers \in Seq(Layers) /\ m \in Nat /\ Total(LeftAt(1)) >= n
    BY <1>1, <1>2, Places DEF Covered
  <1>4. \A i \in 1..m : consumed(u)[i] \in Nat /\ layers[i].cost \in Nat
    BY <1>1, <1>2, <1>3, ConsumedIs, LayersArePriced DEF Priced
  <1>5. p = [i \in 1..m |-> [left |-> consumed(u)[i], cost |-> layers[i].cost]]
    BY <1>1 DEF Allocated
  <1>6. p \in [1..m -> Parts]
    BY <1>4, <1>5 DEF Parts
  <1>7. p \in Seq(Parts) /\ Len(p) = m
    BY <1>3, <1>6, FunctionIsSeq
  <1>8. \A i \in 1..m : /\ p[i].left = consumed(u)[i]
                        /\ p[i].cost = layers[i].cost
    BY <1>5
  <1>9. Total(LeftsIn(p)) = n
    <2>1. PICK a, b, c : /\ a = LeftsOf(layers, 1) /\ b = InOrder(a, n)
                         /\ c = LeftsIn(p)
      OBVIOUS
    <2>2. /\ a \in Seq(Nat) /\ Len(a) = m /\ Total(a) >= n /\ Total(a) \in Nat
      BY <1>1, <1>3, <2>1, LeftsAre, CoverIs
    <2>3. Total(b) = n /\ Len(b) = m
      BY <2>1, <2>2, InOrderSum, InOrderIs
    <2>4. /\ Len(c) = m /\ \A i \in 1..m : c[i] = p[i].left
      BY <1>7, <2>1, ReceivedIs
    <2>5. ASSUME NEW i \in 1..m PROVE b[i] = c[i]
      <3>1. PICK k \in At : k = layers[i].at
        BY <1>1, <1>2, ConsumedIs
      <3>2. /\ b[i] = IF k = 1 THEN consumed(u)[i] ELSE 0
        BY <1>1, <1>2, <2>1, <3>1, Places, ConsumedIs
      <3>3. CASE k = 1
        BY <1>8, <2>4, <3>2, <3>3
      <3>4. CASE k # 1
        <4>1. InOrder(LeftsOf(layers, k), u[k])[i] = consumed(u)[i]
          BY <1>1, <1>2, <3>1, ConsumedIs
        <4>2. InOrder(LeftsOf(layers, k), 0)[i] = 0
          BY <1>1, <1>3, LeftsAre, InOrderNone
        <4> QED
          BY <1>2, <1>8, <2>4, <3>2, <3>4, <4>1, <4>2
      <3> QED
        BY <3>3, <3>4
    <2>6. SumTo(b, m) = SumTo(c, m)
      BY <1>3, <2>5, SumToSame
    <2> QED
      BY <2>1, <2>3, <2>4, <2>6 DEF Total
  <1>10. Worth(p) = CostOf(u)
    <2>1. Priced(p)
      BY <1>7, PartsArePriced
    <2>2. /\ Worth(p) = SumTo(Values(p), m)
          /\ \A i \in 1..m : Values(p)[i] = p[i].left * p[i].cost
      BY <1>7, <2>1, ValuesAre
    <2>3. ASSUME NEW i \in 1..m PROVE Values(p)[i] = IssueCosts(u)[i]
      <3>1. IssueCosts(u)[i] = consumed(u)[i] * layers[i].cost
        BY <1>1 DEF IssueCosts
      <3> QED
        BY <1>8, <2>2, <3>1
    <2>4. SumTo(Values(p), m) = SumTo(IssueCosts(u), m)
      BY <1>3, <2>3, SumToSame
    <2>5. Len(IssueCosts(u)) = m
      <3>1. IssueCosts(u) \in [1..m -> Nat]
        <4>1. \A i \in 1..m : consumed(u)[i] * layers[i].cost \in Nat
          BY <1>4, Distributes
        <4> QED
          BY <1>1, <4>1 DEF IssueCosts
      <3> QED
        BY <1>3, <3>1, FunctionIsSeq
    <2>6. CostOf(u) = SumTo(IssueCosts(u), m)
      BY <2>5 DEF CostOf, IssueCosts, Total
    <2> QED
      BY <2>2, <2>4, <2>6
  <1> QED
    BY <1>1, <1>7, <1>9, <1>10

(* A shipment moves units from the balance to the transfer, and their cost *)
(* from the layers to its allocations.                                     *)
LEMMA ShipmentCostInv ==
  ASSUME CostingInv, NEW n \in Amounts, shipTransfer(n)
  PROVE  CostingInv'
  <1>1. /\ adjusting = Idle /\ method # "NONE" /\ shipment.sent = 0
        /\ onHand[1] >= n /\ onHand' = [onHand EXCEPT ![1] = @ - n]
        /\ issue(Only(1, n), {}) /\ above' \in Added(1, -n)
        /\ shipment' = [sent |-> n, received |-> 0, unit |-> average[Pool(1)],
                        parts |-> Allocated(n)]
        /\ method' = method /\ held' = held /\ adjusting' = adjusting
        /\ valueIn' = valueIn /\ valueOut' = valueOut
    BY DEF shipTransfer, lockItem, Allocated
  <1>2. n \in Nat /\ n > 0
    BY CostingConstants
  <1>3. onHand \in [At -> Nat] /\ average \in [At -> Fractions]
        /\ valueIn \in Nat /\ valueOut \in Nat /\ Pool(1) \in At
    BY Typed, Places
  <1>4. PICK u \in [At -> Nat] :
          u = Only(1, n) /\ u[1] = n /\ \A k \in At : k # 1 => u[k] = 0
    BY <1>2, Places, OnlyIs
  <1>24. /\ 1 \in At /\ onHand[1] >= n /\ onHand[1] \in Nat
         /\ onHand' = [onHand EXCEPT ![1] = @ - n]
    BY <1>1, <1>3, Places
  <1>5. /\ onHand' \in [At -> Nat] /\ onHand'[1] = onHand[1] - n
        /\ \A k \in At : k # 1 => onHand'[k] = onHand[k]
    BY <1>2, <1>3, <1>24
  <1>6. ASSUME NEW k \in At
        PROVE  /\ onHand'[k] + Reserved(k)' + u[k] <= onHand[k] + Reserved(k)
               /\ onHand'[k] + Reserved(k)' \in Nat
    <2>1. Reserved(k)' = Reserved(k) /\ Reserved(k) \in Nat
      BY <1>1, ReservedStays, UnitsNat
    <2>2. PICK r \in Nat, a \in Nat, b \in Nat, v \in Nat :
            r = Reserved(k) /\ a = onHand[k] /\ b = onHand'[k] /\ v = u[k]
      BY <1>3, <1>4, <1>5, <2>1
    <2>3. b + v = a
      BY <1>2, <1>4, <1>5, <2>2
    <2> QED
      BY <2>1, <2>2, <2>3
  <1>19. above' \subseteq At
    BY <1>1, AddedIs
  <1>20. ASSUME ~isFifo, NEW k \in At, InUse(k)'
         PROVE  average[Pool(k)] # NoCost
    <2>1. k \in above' => InUse(k)
      <3>1. onHand[1] > 0
        BY <1>2, <1>24
      <3> QED
        BY <1>1, <3>1, AddedIs, AboveIsUsed, OnHandIsUsed
    <2>2. \A p \in Buyers : held'[p].ref = "ORDER_RESERVATION"
                             /\ k \in held'[p].up => InUse(k)
      BY <1>1, HeldIsUsed
    <2>3. onHand'[k] + Reserved(k)' <= onHand[k] + Reserved(k)
      <3>1. u[k] \in Nat /\ onHand[k] + Reserved(k) \in Nat
        BY UnitsNat
      <3> QED
        BY <1>6, <3>1
    <2>4. InUse(k)
      BY <1>6, <1>20, <2>1, <2>2, <2>3, UseStays
    <2> QED
      BY <1>1, <1>20, <2>4, InUseIsCosted DEF ByAverage
  <1>7. /\ layers' \in Seq(Layers) /\ average' \in [At -> Fractions]
        /\ locked' /\ StockIsCosted' /\ AveragesInv'
        /\ ~isFifo => layers' = <<>>
        /\ CostOf(u) \in Nat /\ Worth(layers') \in Nat
        /\ isFifo => /\ Covered(u)
                     /\ Worth(layers') = Worth(layers) - CostOf(u)
    BY <1>1, <1>4, <1>6, <1>20, IssueBooks
  <1>8. LedgerInv /\ ShipmentInv /\ (isFifo' <=> isFifo)
    BY <1>1, LedgerIs DEF isFifo, CostingInv
  <1>9. average[Pool(1)] \in Fractions
    BY <1>3
  <1>10. isFifo => /\ Allocated(n) \in Seq(Parts)
                   /\ Total(LeftsIn(Allocated(n))) = n
                   /\ Worth(Allocated(n)) = CostOf(u)
    BY <1>2, <1>4, <1>7, AllocatedIs
  <1>11. ~isFifo => Allocated(n) = <<>>
    <2> SUFFICES ASSUME ~isFifo PROVE Allocated(n) = <<>>
      OBVIOUS
    <2>1. layers = <<>>
      BY <1>8 DEF LedgerInv
    <2> QED
      BY <2>1 DEF Allocated
  <1>12. Allocated(n) \in Seq(Parts)
    <2>1. <<>> \in Seq(Parts)
      OBVIOUS
    <2> QED
      BY <1>10, <1>11, <2>1
  <1>13. /\ shipment'.sent = n /\ shipment'.received = 0
         /\ shipment'.unit = average[Pool(1)]
         /\ shipment'.parts = Allocated(n)
         /\ shipment' \in [sent : Nat, received : Nat, parts : Seq(Parts),
                           unit : Fractions]
    BY <1>1, <1>2, <1>9, <1>12
  <1>14. ~isFifo => Averaged(average[Pool(1)])
    <2> SUFFICES ASSUME ~isFifo PROVE Averaged(average[Pool(1)])
      OBVIOUS
    <2>1. average[Pool(1)] # NoCost
      BY <1>1, <1>2, <1>4, Places DEF issue, Issuable
    <2> QED
      BY <1>3, <1>8, <2>1 DEF LedgerInv, AveragesInv
  <1>15. ShipmentInv'
    <2>1. Total(PartLefts)' = Total(LeftsIn(Allocated(n)))
      <3>1. PartLefts' = LeftsIn(Allocated(n))
        BY <1>13 DEF PartLefts, LeftsIn
      <3> QED
        BY <3>1 DEF Total, SumTo
    <2>2. /\ shipment'.received <= shipment'.sent /\ shipment'.sent # 0
      BY <1>2, <1>13
    <2> QED
      BY <1>7, <1>8, <1>10, <1>11, <1>13, <1>14, <2>1, <2>2 DEF ShipmentInv
  <1>16. ValueConserved'
    <2> SUFFICES ASSUME isFifo
                 PROVE  valueIn' = valueOut' + Worth(layers)'
                                     + InTransitValue'
      BY <1>8 DEF ValueConserved
    <2>1. Worth(layers)' = Worth(layers')
      BY DEF Worth, Total, SumTo
    <2>2. valueIn = valueOut + Worth(layers) + InTransitValue
      BY <1>8 DEF LedgerInv, ValueConserved
    <2>3. Worth(layers) \in Nat
      BY Typed, LayersArePriced, ValuesAre
    <2>4. InTransitValue = 0
      <3>1. shipment.parts = <<>> /\ shipment.received = 0
        BY <1>1, <1>8 DEF ShipmentInv
      <3>2. <<>> \in Seq(Parts)
        OBVIOUS
      <3>3. Worth(Received(<<>>, 0)) = 0
        BY <3>2, NoneReceived
      <3> QED
        BY <3>1, <3>3, WorthOfNone, TransitIs
    <2>5. InTransitValue' = CostOf(u)
      <3>1. InTransitValue' = Worth(Allocated(n)) - Worth(Received(Allocated(n), 0))
        <4>1. InTransitValue' = Worth(shipment'.parts)
                - Worth(Received(shipment'.parts, shipment'.received))
          BY DEF InTransitValue, Received, Worth, Total, SumTo, InOrder
        <4> QED
          BY <1>13, <4>1
      <3>2. Worth(Received(Allocated(n), 0)) = 0
        BY <1>12, NoneReceived
      <3> QED
        BY <1>7, <1>10, <3>1, <3>2
    <2> QED
      BY <1>1, <1>3, <1>7, <2>1, <2>2, <2>3, <2>4, <2>5
  <1>17. LedgerInv'
    BY <1>1, <1>7, <1>8, <1>16 DEF LedgerInv
  <1>18. AdjustingInv' /\ locked' \in BOOLEAN
    BY <1>1 DEF AdjustingInv, issue
  <1> QED
    BY <1>1, <1>5, <1>7, <1>15, <1>17, <1>18, <1>19, Typed, InvNext

(* The part of the allocations that n more units received are: n units in  *)
(* the second location, worth what they take out of the transfer.          *)
LEMMA CopiedIs ==
  ASSUME NEW parts \in Seq(Parts), parts = shipment.parts,
         NEW r \in Nat, r = shipment.received, NEW n \in Nat,
         r + n <= Total(LeftsIn(parts))
  PROVE  /\ copiedAllocations(n) \in Seq(Layers)
         /\ Total(LeftsOf(copiedAllocations(n), 2)) = n
         /\ \A l : Total(LeftsOf(copiedAllocations(n), l)) \in Nat
         /\ Worth(copiedAllocations(n))
              = Worth(Received(parts, r + n)) - Worth(Received(parts, r))
  <1>1. PICK a, m, p : a = LeftsIn(parts) /\ m = Len(parts) /\ p = r + n
    OBVIOUS
  <1>2. p \in Nat /\ r <= p
    BY <1>1
  <1>3. PICK f, g, c : /\ f = InOrder(a, p) /\ g = InOrder(a, r)
                       /\ c = copiedAllocations(n)
    OBVIOUS
  <1>4. /\ a \in Seq(Nat) /\ Len(a) = m /\ m \in Nat
        /\ \A i \in 1..m : parts[i].cost \in Nat
    BY <1>1, ReceivedIs, PartsArePriced DEF Priced
  <1>5. /\ Len(f) = m /\ Len(g) = m
        /\ \A i \in 1..m : f[i] \in Nat /\ g[i] \in Nat /\ g[i] <= f[i]
    BY <1>2, <1>3, <1>4, InOrderIs, InOrderGrows
  <1>6. c = [i \in 1..m |-> [at |-> 2, left |-> f[i] - g[i],
                             cost |-> parts[i].cost]]
    BY <1>1, <1>3, <1>4 DEF copiedAllocations, LeftsIn
  <1>7. c \in [1..m -> Layers]
    <2>1. \A i \in 1..m : f[i] - g[i] \in Nat
      BY <1>5
    <2>2. \A i \in 1..m : [at |-> 2, left |-> f[i] - g[i],
                           cost |-> parts[i].cost] \in Layers
      BY <1>4, <2>1, Places DEF Layers
    <2> QED
      BY <1>6, <2>2
  <1>8. c \in Seq(Layers) /\ Len(c) = m
    BY <1>4, <1>7, FunctionIsSeq
  <1>9. \A i \in 1..m : /\ c[i].at = 2 /\ c[i].left = f[i] - g[i]
                        /\ c[i].cost = parts[i].cost
    BY <1>6
  <1>10. Total(LeftsOf(c, 2)) = n
    <2>1. PICK b : b = LeftsOf(c, 2)
      OBVIOUS
    <2>2. Total(b) = SumTo(b, m) /\ \A i \in 1..m : b[i] = c[i].left
      BY <1>8, <1>9, <2>1, LeftsAre
    <2>3. \A i \in 1..m : f[i] \in Int /\ g[i] \in Int /\ b[i] = f[i] - g[i]
      BY <1>5, <1>9, <2>2
    <2>4. SumTo(b, m) = SumTo(f, m) - SumTo(g, m)
      BY <1>4, <2>3, SumToMinus
    <2>5. Total(f) = p /\ Total(g) = r
      BY <1>1, <1>2, <1>3, <1>4, InOrderSum
    <2> QED
      BY <1>1, <1>5, <2>1, <2>2, <2>4, <2>5 DEF Total
  <1>11. Worth(c) = Worth(Received(parts, p)) - Worth(Received(parts, r))
    <2>1. PICK x, y : x = Received(parts, p) /\ y = Received(parts, r)
      OBVIOUS
    <2>2. /\ x \in Seq(Parts) /\ Len(x) = m
          /\ \A i \in 1..m : x[i].left = f[i] /\ x[i].cost = parts[i].cost
      BY <1>1, <1>2, <1>3, <2>1, ReceivedIs
    <2>3. /\ y \in Seq(Parts) /\ Len(y) = m
          /\ \A i \in 1..m : y[i].left = g[i] /\ y[i].cost = parts[i].cost
      BY <1>1, <1>3, <2>1, ReceivedIs
    <2>4. Priced(x) /\ Priced(y) /\ Priced(c)
      BY <1>8, <2>2, <2>3, PartsArePriced, LayersArePriced
    <2>5. /\ Worth(x) = SumTo(Values(x), m)
          /\ \A i \in 1..m : /\ Values(x)[i] = x[i].left * x[i].cost
                             /\ Values(x)[i] \in Nat
      BY <2>2, <2>4, ValuesAre
    <2>6. /\ Worth(y) = SumTo(Values(y), m)
          /\ \A i \in 1..m : /\ Values(y)[i] = y[i].left * y[i].cost
                             /\ Values(y)[i] \in Nat
      BY <2>3, <2>4, ValuesAre
    <2>7. /\ Worth(c) = SumTo(Values(c), m)
          /\ \A i \in 1..m : Values(c)[i] = c[i].left * c[i].cost
      BY <1>8, <2>4, ValuesAre
    <2>8. ASSUME NEW i \in 1..m
          PROVE  /\ Values(x)[i] \in Int /\ Values(y)[i] \in Int
                 /\ Values(c)[i] = Values(x)[i] - Values(y)[i]
      <3>1. PICK u \in Nat, v \in Nat, w \in Nat :
              u = f[i] /\ v = g[i] /\ w = parts[i].cost /\ v <= u
        BY <1>4, <1>5
      <3>2. /\ Values(x)[i] = u * w /\ Values(y)[i] = v * w
            /\ Values(c)[i] = (u - v) * w
        BY <1>9, <2>2, <2>3, <2>5, <2>6, <2>7, <3>1
      <3>3. (u - v) * w = u * w - v * w /\ u * w \in Nat /\ v * w \in Nat
        <4>1. v <= u
          BY <3>1
        <4> QED
          BY <4>1, MinusTimes
      <3> QED
        BY <3>2, <3>3
    <2>9. SumTo(Values(c), m) = SumTo(Values(x), m) - SumTo(Values(y), m)
      BY <1>4, <2>8, SumToMinus
    <2> QED
      BY <2>1, <2>5, <2>6, <2>7, <2>9
  <1>12. \A l : Total(LeftsOf(c, l)) \in Nat
    BY <1>8, LeftsAre
  <1> QED
    BY <1>1, <1>3, <1>8, <1>10, <1>11, <1>12

(* A receipt moves units from the transfer to the second location, and     *)
(* their part of the allocations to its layers.                            *)
LEMMA ReceiptCostInv ==
  ASSUME CostingInv, NEW n \in Amounts, receiveTransfer(n)
  PROVE  CostingInv'
  <1>1. /\ adjusting = Idle /\ method # "NONE"
        /\ shipment.received + n <= shipment.sent
        /\ onHand' = [onHand EXCEPT ![2] = @ + n] /\ locked' = TRUE
        /\ shipment' = [shipment EXCEPT !.received = @ + n]
        /\ method' = method /\ held' = held /\ adjusting' = adjusting
        /\ valueIn' = valueIn /\ valueOut' = valueOut
        /\ above' \in Added(2, n) \/ above' = above \cup {2}
    BY DEF receiveTransfer, lockItem
  <1>14. above' \subseteq At /\ \A k \in above' : k \in above \/ k = 2
    BY <1>1, AddedIs, Places, Typed
  <1>2. n \in Nat /\ n > 0
    BY CostingConstants
  <1>3. /\ onHand \in [At -> Nat] /\ average \in [At -> Fractions]
        /\ layers \in Seq(Layers) /\ valueIn \in Nat /\ valueOut \in Nat
    BY Typed
  <1>4. /\ onHand' \in [At -> Nat] /\ onHand'[2] = onHand[2] + n
        /\ \A k \in At : k # 2 => onHand'[k] = onHand[k]
    BY <1>1, <1>2, <1>3, Places
  <1>5. LedgerInv /\ ShipmentInv /\ (isFifo' <=> isFifo)
    BY <1>1, LedgerIs DEF isFifo, CostingInv
  <1>6. PICK s \in Nat, r \in Nat, parts \in Seq(Parts), unit \in Fractions :
          /\ s = shipment.sent /\ r = shipment.received
          /\ parts = shipment.parts /\ unit = shipment.unit
          /\ shipment = [sent |-> s, received |-> r, parts |-> parts,
                         unit |-> unit]
          /\ r + n <= s /\ s > 0
    BY <1>1, <1>2, <1>5 DEF ShipmentInv
  <1>7. shipment' = [sent |-> s, received |-> r + n, parts |-> parts,
                     unit |-> unit]
    BY <1>1, <1>6
  <1>8. /\ shipment'.sent = s /\ shipment'.received = r + n
        /\ shipment'.parts = parts /\ shipment'.unit = unit
    BY <1>7
  <1>9. ShipmentInv'
    <2>1. /\ r + n \in Nat /\ r + n <= s
      BY <1>2, <1>6
    <2>2. shipment' \in [sent : Nat, received : Nat, parts : Seq(Parts),
                         unit : Fractions]
      BY <1>7, <2>1
    <2>3. Total(PartLefts)' = Total(PartLefts)
      <3>1. PartLefts' = PartLefts
        BY <1>6, <1>8 DEF PartLefts
      <3> QED
        BY <3>1 DEF Total, SumTo
    <2> QED
      BY <1>1, <1>5, <1>6, <1>8, <2>1, <2>2, <2>3 DEF ShipmentInv
  <1>10. \A k \in At : /\ Reserved(k)' = Reserved(k) /\ Reserved(k) \in Nat
                       /\ onHand[k] \in Nat
    BY <1>1, ReservedStays, UnitsNat
  <1>11. AdjustingInv' /\ locked' \in BOOLEAN
    BY <1>1 DEF AdjustingInv
  <1>12. CASE isFifo
    <2>1. layers' = layers \o copiedAllocations(n) /\ average' = average
      BY <1>12 DEF receiveTransfer
    <2>2. PICK c : c = copiedAllocations(n)
      OBVIOUS
    <2>3. Total(LeftsIn(parts)) = s
      <3>1. PartLefts = LeftsIn(parts)
        BY <1>6 DEF PartLefts, LeftsIn
      <3> QED
        BY <1>5, <1>6, <1>12, <3>1 DEF ShipmentInv
    <2>4. /\ c \in Seq(Layers) /\ Total(LeftsOf(c, 2)) = n
          /\ \A l : Total(LeftsOf(c, l)) \in Nat
          /\ Worth(c) = Worth(Received(parts, r + n)) - Worth(Received(parts, r))
      <3>1. r + n <= Total(LeftsIn(parts))
        BY <1>6, <2>3
      <3> QED
        BY <1>2, <1>6, <2>2, <3>1, CopiedIs
    <2>5. /\ layers' \in Seq(Layers)
          /\ Worth(layers') = Worth(layers) + Worth(c)
          /\ \A l : Total(LeftsOf(layers', l))
                      = Total(LeftsOf(layers, l)) + Total(LeftsOf(c, l))
      <3>1. PICK t : t = layers \o c
        OBVIOUS
      <3>2. /\ t \in Seq(Layers) /\ Worth(t) = Worth(layers) + Worth(c)
            /\ \A l : Total(LeftsOf(t, l))
                        = Total(LeftsOf(layers, l)) + Total(LeftsOf(c, l))
        BY <1>3, <2>4, <3>1, JoinedLayers
      <3>3. layers' = t
        BY <2>1, <2>2, <3>1
      <3> QED
        BY <3>2, <3>3
    <2>6. StockIsCosted'
      <3> SUFFICES ASSUME NEW k \in At
                   PROVE  Total(LeftAt(k))' >= onHand'[k] + Reserved(k)'
        BY <1>5, <1>12 DEF StockIsCosted
      <3>1. Total(LeftAt(k)) >= onHand[k] + Reserved(k)
        BY <1>5, <1>12 DEF LedgerInv, StockIsCosted, isFifo
      <3>2. Total(LeftAt(k)) \in Nat
        BY <1>3, CoverIs, LeftsAre
      <3>3. Total(LeftAt(k))' = Total(LeftAt(k)) + Total(LeftsOf(c, k))
        BY <2>5, CoverIs, CoverNext
      <3>4. PICK z \in Nat : z = Total(LeftsOf(c, k))
        BY <2>4
      <3>5. onHand'[k] <= onHand[k] + z /\ onHand'[k] \in Nat
        BY <1>2, <1>4, <1>10, <2>4, <3>4
      <3> QED
        BY <1>10, <3>1, <3>2, <3>3, <3>4, <3>5
    <2>7. ValueConserved'
      <3> SUFFICES valueIn' = valueOut' + Worth(layers)' + InTransitValue'
        BY DEF ValueConserved
      <3>1. Worth(layers)' = Worth(layers')
        BY DEF Worth, Total, SumTo
      <3>2. valueIn = valueOut + Worth(layers) + InTransitValue
        BY <1>5, <1>12 DEF LedgerInv, ValueConserved
      <3>3. PICK w \in Nat, x \in Nat, y \in Nat, v \in Nat :
              /\ w = Worth(parts) /\ x = Worth(Received(parts, r))
              /\ y = Worth(Received(parts, r + n)) /\ v = Worth(layers)
        <4>1. /\ Received(parts, r) \in Seq(Parts)
              /\ Received(parts, r + n) \in Seq(Parts)
          <5>1. r + n \in Nat
            BY <1>2
          <5> QED
            BY <5>1, ReceivedIs
        <4> QED
          BY <1>3, <4>1, PartsArePriced, LayersArePriced, ValuesAre
      <3>4. InTransitValue = w - x
        BY <1>6, <3>3, TransitIs
      <3>5. InTransitValue' = w - y
        <4>1. InTransitValue' = Worth(shipment'.parts)
                - Worth(Received(shipment'.parts, shipment'.received))
          BY DEF InTransitValue, Received, Worth, Total, SumTo, InOrder
        <4> QED
          BY <1>8, <3>3, <4>1
      <3>6. Worth(c) = y - x
        BY <2>4, <3>3
      <3>7. Worth(layers)' = v + (y - x)
        BY <2>5, <3>1, <3>3, <3>6
      <3>8. valueIn = valueOut + v + (w - x)
        BY <3>2, <3>3, <3>4
      <3> QED
        BY <1>1, <1>3, <3>3, <3>5, <3>7, <3>8
    <2>8. AveragesInv'
      BY <1>5, <2>1 DEF LedgerInv, AveragesInv
    <2>9. LedgerInv'
      BY <1>1, <1>5, <1>12, <2>6, <2>7, <2>8 DEF LedgerInv
    <2> QED
      BY <1>1, <1>3, <1>4, <1>9, <1>11, <1>14, <2>1, <2>5, <2>9, Typed, InvNext
  <1>13. CASE ~isFifo
    <2>1. /\ Weighable(onHand', 2, n) /\ layers' = layers
          /\ average' = updateMovingAverage(onHand', 2, n, unit)
      BY <1>6, <1>13 DEF receiveTransfer
    <2>2. /\ average' \in [At -> Fractions] /\ AveragesInv'
          /\ average'[Pool(2)] # NoCost
          /\ \A k \in At : k # Pool(2) => average'[k] = average[k]
      <3>1. AveragesInv /\ Averaged(unit)
        BY <1>5, <1>6, <1>13 DEF LedgerInv, ShipmentInv
      <3>2. PICK t \in [At -> Nat] : t = onHand'
        BY <1>4
      <3>3. /\ average' = updateMovingAverage(t, 2, n, unit)
            /\ Weighable(t, 2, n) /\ t[2] >= n
        BY <1>2, <1>4, <1>10, <2>1, <3>2, Places
      <3> QED
        BY <1>2, <1>3, <3>1, <3>3, Places, AverageMoves
    <2>3. StockIsCosted'
      <3> SUFFICES ASSUME NEW k \in At, InUse(k)'
                   PROVE  average'[Pool(k)'] # NoCost
        BY <1>5, <1>13 DEF StockIsCosted
      <3>1. Pool(k)' = Pool(k)
        BY <1>1 DEF Pool
      <3>2. CASE Pool(k) = Pool(2)
        BY <2>2, <3>1, <3>2
      <3>3. CASE Pool(k) # Pool(2)
        <4>1. Pool(k) = k /\ k # 2
          BY <3>3 DEF Pool
        <4>2. InUse(k)
          <5>1. /\ onHand'[k] + Reserved(k)' \in Nat
                /\ onHand'[k] + Reserved(k)' <= onHand[k] + Reserved(k)
            BY <1>4, <1>10, <4>1
          <5>2. k \in above' => InUse(k)
            BY <1>14, <4>1, AboveIsUsed
          <5>3. \A p \in Buyers : held'[p].ref = "ORDER_RESERVATION"
                                   /\ k \in held'[p].up => InUse(k)
            BY <1>1, HeldIsUsed
          <5> QED
            BY <5>1, <5>2, <5>3, UseStays
        <4>3. average[Pool(k)] # NoCost
          BY <1>1, <1>5, <1>13, <4>2 DEF LedgerInv, StockIsCosted
        <4> QED
          BY <2>2, <3>1, <3>3, <4>1, <4>3
      <3> QED
        BY <3>2, <3>3
    <2>4. ValueConserved'
      BY <1>5, <1>13 DEF ValueConserved
    <2>5. LedgerInv'
      BY <1>1, <1>5, <1>13, <2>1, <2>2, <2>3, <2>4 DEF LedgerInv
    <2> QED
      BY <1>1, <1>3, <1>4, <1>9, <1>11, <1>14, <2>1, <2>2, <2>5, Typed, InvNext
  <1> QED
    BY <1>12, <1>13

(* Opening layers: as many units in a location as are on hand or reserved, *)
(* at a cost for the locations S that are not empty.                       *)
Opened(units, c, S) ==
    [l \in At |-> [at |-> l, left |-> units[l],
                   cost |-> IF l \in S THEN c[l] ELSE 0]]

LEMMA OpenedIs ==
  ASSUME NEW units \in [At -> Nat], NEW c \in [At -> Costs], NEW S,
         \A l \in At : l \notin S => units[l] = 0
  PROVE  /\ Opened(units, c, S) \in Seq(Layers)
         /\ Worth(Opened(units, c, S)) \in Nat
         /\ Total(units) \in Nat
         /\ \A l \in At : /\ Total(LeftsOf(Opened(units, c, S), l)) >= units[l]
                          /\ units[l] <= Total(units)
         /\ \E low, high \in Costs :
              /\ low * Total(units) <= Worth(Opened(units, c, S))
              /\ Worth(Opened(units, c, S)) <= high * Total(units)
  <1>1. PICK f, n : f = Opened(units, c, S) /\ n = Len(Opening)
    OBVIOUS
  <1>2. /\ n \in Nat /\ n > 0 /\ At = 1..n
    BY <1>1, Places, CostingConstants
  <1>3. \A l \in At : /\ units[l] \in Nat /\ c[l] \in Costs /\ c[l] \in Nat
    BY CostingConstants
  <1>4. f \in [1..n -> Layers]
    BY <1>1, <1>2, <1>3 DEF Opened, Layers
  <1>5. f \in Seq(Layers) /\ Len(f) = n
    BY <1>2, <1>4, FunctionIsSeq
  <1>6. \A l \in 1..n : /\ f[l].at = l /\ f[l].left = units[l]
                        /\ f[l].cost = IF l \in S THEN c[l] ELSE 0
    BY <1>1, <1>2 DEF Opened
  <1>7. Len(units) = n
    BY <1>2, FunctionIsSeq
  <1>8. Priced(f)
    BY <1>5, LayersArePriced
  <1>9. /\ Worth(f) = SumTo(Values(f), n) /\ Worth(f) \in Nat
        /\ \A i \in 1..n : Values(f)[i] = f[i].left * f[i].cost
    BY <1>5, <1>8, ValuesAre
  <1>10. /\ SumTo(units, n) \in Nat
         /\ \E low, high \in Costs :
              /\ low * SumTo(units, n) <= SumTo(Values(f), n)
              /\ SumTo(Values(f), n) <= high * SumTo(units, n)
    <2>1. ASSUME NEW i \in 1..n PROVE Values(f)[i] = units[i] * c[i]
      <3>1. CASE i \in S
        BY <1>6, <1>9, <3>1
      <3>2. CASE i \notin S
        <4>1. units[i] = 0 /\ f[i].left = 0 /\ f[i].cost = 0
          BY <1>2, <1>6, <3>2
        <4>2. Values(f)[i] = 0 * 0
          BY <1>9, <4>1
        <4>3. units[i] * c[i] = 0
          BY <1>2, <1>3, <4>1
        <4> QED
          BY <4>2, <4>3
      <3> QED
        BY <3>1, <3>2
    <2>2. units \in [1..n -> Nat] /\ c \in [1..n -> Costs]
      BY <1>2
    <2> QED
      BY <1>2, <2>1, <2>2, WorthBetween
  <1>11. Total(units) = SumTo(units, n)
    BY <1>7 DEF Total
  <1>12. ASSUME NEW l \in At
         PROVE  Total(LeftsOf(f, l)) >= units[l] /\ units[l] <= Total(units)
    <2>1. PICK a : a = LeftsOf(f, l)
      OBVIOUS
    <2>2. /\ Total(a) = SumTo(a, n)
          /\ \A i \in 1..n : a[i] \in Nat
          /\ a[l] = IF f[l].at = l THEN f[l].left ELSE 0
      BY <1>2, <1>5, <2>1, LeftsAre
    <2>3. a[l] = units[l] /\ l \in 1..n
      BY <1>2, <1>6, <2>2
    <2>4. a[l] <= SumTo(a, n)
      BY <1>2, <2>2, <2>3, SumToEntry
    <2>5. units[l] <= SumTo(units, n)
      <3>1. \A i \in 1..n : units[i] \in Nat
        BY <1>2, <1>3
      <3> QED
        BY <1>2, <2>3, <3>1, SumToEntry
    <2>6. SumTo(a, n) \in Nat
      BY <1>2, <2>2, SumToNat
    <2> QED
      BY <1>3, <1>11, <2>1, <2>2, <2>3, <2>4, <2>5, <2>6
  <1> QED
    BY <1>1, <1>5, <1>9, <1>10, <1>11, <1>12

(* The method is chosen: nothing was issued or shipped under a cost yet.   *)
LEMMA ConfigureInv ==
  ASSUME CostingInv, NEW m \in Method, NEW c \in [At -> Costs], NEW done,
         configureValuation(m, c, done)
  PROVE  CostingInv'
  <1>1. PICK units : units = [l \in At |-> onHand[l] + Reserved(l)']
    OBVIOUS
  <1>19. PICK stock : stock = {l \in At : InUse(l)'}
    OBVIOUS
  <1>2. PICK full : full = Opened(units, c, stock)
    OBVIOUS
  <1>3. /\ adjusting = Idle /\ ~locked /\ m # "NONE" /\ method' = m
        /\ locked' = (stock # {})
        /\ layers' = IF m = "FIFO" THEN full ELSE <<>>
        /\ valueIn' = IF m = "FIFO" THEN Worth(full) ELSE 0
        /\ average' = [l \in At |->
              CASE m = "PER_WAREHOUSE" /\ l \in stock -> Fraction(c[l], 1)
                [] m = "PER_ITEM" /\ l = 1 /\ Total(units) > 0 ->
                      Fraction(Worth(full), Total(units))
                [] m = "PER_ITEM" /\ l = 1 /\ Total(units) = 0
                     /\ stock # {} -> Fraction(c[Min(stock)], 1)
                [] OTHER -> NoCost]
        /\ onHand' = onHand /\ above' = above /\ shipment' = shipment
        /\ adjusting' = adjusting /\ valueOut' = valueOut
        /\ held' = [o \in Buyers |->
              IF o \in done /\ held[o].ref = "ORDER_RESERVATION"
              THEN Settled(held[o])
              ELSE held[o]]
    BY <1>1, <1>2, <1>19 DEF configureValuation, Opened
  <1>20. held' \in [Buyers -> Held]
    <2>1. held \in [Buyers -> Held]
      BY Typed
    <2>2. ASSUME NEW o \in Buyers PROVE held'[o] \in Held
      <3>1. held[o] \in Held
        BY <2>1
      <3>2. Settled(held[o]) \in Held
        BY <3>1 DEF Held, Ref, Settled
      <3> QED
        BY <1>3, <3>1, <3>2
    <2> QED
      BY <1>3, <2>2
  <1>21. \A l \in At : Reserved(l)' \in Nat
    BY <1>20, HeldNatNext
  <1>4. units \in [At -> Nat]
    BY <1>1, <1>21, UnitsNat
  <1>22. \A l \in At : l \notin stock => units[l] = 0
    <2> SUFFICES ASSUME NEW l \in At, l \notin stock PROVE units[l] = 0
      OBVIOUS
    <2>1. units[l] \in Nat /\ units[l] = onHand'[l] + Reserved(l)'
      BY <1>1, <1>3, <1>4
    <2>2. ~(onHand'[l] + Reserved(l)' > 0)
      BY <1>19 DEF InUse
    <2> QED
      BY <2>1, <2>2
  <1>23. stock # {} => Min(stock) \in At
    <2> SUFFICES ASSUME stock # {} PROVE Min(stock) \in At
      OBVIOUS
    <2>1. stock \subseteq Nat /\ stock \subseteq At
      BY <1>19, Places
    <2>2. \E x \in stock : \A y \in stock : x <= y
      BY <2>1, LeastNat
    <2> QED
      BY <2>1, <2>2 DEF Min
  <1>5. /\ full \in Seq(Layers) /\ Worth(full) \in Nat /\ Total(units) \in Nat
        /\ \A l \in At : /\ Total(LeftsOf(full, l)) >= units[l]
                         /\ units[l] <= Total(units)
        /\ \E low, high \in Costs : /\ low * Total(units) <= Worth(full)
                                    /\ Worth(full) <= high * Total(units)
    BY <1>2, <1>4, <1>22, OpenedIs
  <1>6. \A l \in At : /\ units[l] = onHand'[l] + Reserved(l)'
                      /\ units[l] \in Nat
    BY <1>1, <1>3, <1>4
  <1>7. LedgerInv /\ ShipmentInv
    BY LedgerIs DEF CostingInv
  <1>8. /\ shipment.sent = 0 /\ shipment.received = 0 /\ shipment.parts = <<>>
        /\ valueOut = 0
        /\ shipment \in [sent : Nat, received : Nat, parts : Seq(Parts),
                         unit : Fractions]
    BY <1>3, <1>7 DEF ShipmentInv, LedgerInv
  <1>9. ShipmentInv'
    <2>1. Total(PartLefts)' = 0
      <3>1. PartLefts' = <<>>
        BY <1>3, <1>8 DEF PartLefts
      <3>2. Len(<<>>) = 0
        OBVIOUS
      <3> QED
        BY <3>1, <3>2, SumToZero DEF Total
    <2> QED
      BY <1>3, <1>8, <2>1 DEF ShipmentInv
  <1>10. AdjustingInv' /\ locked' \in BOOLEAN
    BY <1>3 DEF AdjustingInv
  <1>11. layers' \in Seq(Layers) /\ valueIn' \in Nat
    <2>1. <<>> \in Seq(Layers)
      OBVIOUS
    <2> QED
      BY <1>3, <1>5, <2>1
  <1>12. Total(units) > 0 =>
           LET a == Fraction(Worth(full), Total(units))
           IN  a \in Fractions /\ Averaged(a) /\ a # NoCost
    <2> SUFFICES ASSUME Total(units) > 0
                 PROVE  LET a == Fraction(Worth(full), Total(units))
                        IN  a \in Fractions /\ Averaged(a) /\ a # NoCost
      OBVIOUS
    <2>1. PICK low \in Costs, high \in Costs :
            /\ low * Total(units) <= Worth(full)
            /\ Worth(full) <= high * Total(units)
      BY <1>5
    <2> QED
      BY <1>5, <2>1, FractionAveraged
  <1>13. \A l \in At : /\ Fraction(c[l], 1) \in Fractions
                       /\ Averaged(Fraction(c[l], 1))
                       /\ Fraction(c[l], 1) # NoCost
    <2> SUFFICES ASSUME NEW l \in At
                 PROVE  /\ Fraction(c[l], 1) \in Fractions
                        /\ Averaged(Fraction(c[l], 1))
                        /\ Fraction(c[l], 1) # NoCost
      OBVIOUS
    <2>1. PICK k \in Costs : k = c[l]
      OBVIOUS
    <2>2. k \in Nat
      BY CostingConstants
    <2>3. 1 \in Nat /\ 1 > 0 /\ k * 1 <= k /\ k <= k * 1
      BY <2>2
    <2> QED
      BY <2>1, <2>2, <2>3, FractionAveraged
  <1>14. ASSUME NEW l \in At
         PROVE  /\ average'[l] \in Fractions
                /\ average'[l] = NoCost \/ Averaged(average'[l])
                /\ m = "PER_WAREHOUSE" /\ l \in stock => average'[l] # NoCost
                /\ m = "PER_ITEM" /\ l = 1 /\ stock # {}
                     => average'[l] # NoCost
    <2>1. CASE m = "PER_WAREHOUSE" /\ l \in stock
      <3>1. average'[l] = Fraction(c[l], 1)
        BY <1>3, <2>1
      <3> QED
        BY <1>13, <2>1, <3>1
    <2>2. CASE m = "PER_ITEM" /\ l = 1 /\ Total(units) > 0
      <3>1. average'[l] = Fraction(Worth(full), Total(units))
        BY <1>3, <2>2
      <3> QED
        BY <1>12, <2>2, <3>1
    <2>4. CASE m = "PER_ITEM" /\ l = 1 /\ Total(units) = 0 /\ stock # {}
      <3>1. average'[l] = Fraction(c[Min(stock)], 1)
        BY <1>3, <2>4
      <3> QED
        BY <1>13, <1>23, <2>4, <3>1
    <2>3. CASE /\ ~(m = "PER_WAREHOUSE" /\ l \in stock)
               /\ ~(m = "PER_ITEM" /\ l = 1 /\ Total(units) > 0)
               /\ ~(m = "PER_ITEM" /\ l = 1 /\ Total(units) = 0 /\ stock # {})
      <3>1. average'[l] = NoCost
        BY <1>3, <2>3
      <3>2. ~(m = "PER_ITEM" /\ l = 1 /\ stock # {})
        BY <1>5, <2>3
      <3> QED
        BY <2>3, <3>1, <3>2, NoCostIs
    <2> QED
      BY <2>1, <2>2, <2>3, <2>4
  <1>15. average' \in [At -> Fractions] /\ AveragesInv'
    <2>1. AveragesInv'
      BY <1>14 DEF AveragesInv
    <2>2. average' \in [At -> Fractions]
      <3>1. DOMAIN average' = At /\ average' = [l \in At |-> average'[l]]
        BY <1>3
      <3> QED
        BY <1>14, <3>1
    <2> QED
      BY <2>1, <2>2
  <1>16. StockIsCosted'
    <2>1. CASE m = "FIFO"
      <3> SUFFICES ASSUME NEW l \in At
                   PROVE  Total(LeftAt(l))' >= onHand'[l] + Reserved(l)'
        BY <1>3, <2>1 DEF StockIsCosted, isFifo
      <3>1. layers' = full
        BY <1>3, <2>1
      <3>2. Total(LeftAt(l))' = Total(LeftsOf(full, l))
        BY <3>1, CoverNext
      <3> QED
        BY <1>5, <1>6, <3>2
    <2>2. CASE m # "FIFO"
      <3> SUFFICES ASSUME NEW l \in At, InUse(l)'
                   PROVE  average'[Pool(l)'] # NoCost
        BY <1>3, <2>2 DEF StockIsCosted, isFifo
      <3>1. l \in stock /\ stock # {}
        BY <1>19
      <3>2. m = "PER_ITEM" \/ m = "PER_WAREHOUSE"
        BY <1>3, <2>2 DEF Method
      <3>3. CASE m = "PER_ITEM"
        <4>1. Pool(l)' = 1
          BY <1>3, <3>3 DEF Pool
        <4> QED
          BY <1>14, <3>1, <3>3, <4>1, Places
      <3>4. CASE m = "PER_WAREHOUSE"
        <4>1. Pool(l)' = l
          BY <1>3, <3>4 DEF Pool
        <4> QED
          BY <1>14, <3>1, <3>4, <4>1
      <3> QED
        BY <3>2, <3>3, <3>4
    <2> QED
      BY <2>1, <2>2
  <1>17. ValueConserved'
    <2> SUFFICES ASSUME m = "FIFO"
                 PROVE  valueIn' = valueOut' + Worth(layers)'
                                     + InTransitValue'
      BY <1>3 DEF ValueConserved, isFifo
    <2>1. Worth(layers)' = Worth(full)
      <3>1. Worth(layers)' = Worth(layers')
        BY DEF Worth, Total, SumTo
      <3> QED
        BY <1>3, <3>1
    <2>2. InTransitValue' = 0
      <3>1. InTransitValue' = Worth(shipment'.parts)
              - Worth(Received(shipment'.parts, shipment'.received))
        BY DEF InTransitValue, Received, Worth, Total, SumTo, InOrder
      <3>2. <<>> \in Seq(Parts)
        OBVIOUS
      <3>3. Worth(Received(<<>>, 0)) = 0
        BY <3>2, NoneReceived
      <3> QED
        BY <1>3, <1>8, <3>1, <3>3, WorthOfNone
    <2> QED
      BY <1>3, <1>5, <1>8, <2>1, <2>2
  <1>18. LedgerInv'
    BY <1>3, <1>8, <1>15, <1>16, <1>17 DEF LedgerInv, isFifo
  <1> QED
    BY <1>3, <1>9, <1>10, <1>11, <1>15, <1>18, <1>20, Typed, InvNext

LEMMA CostingInvInit == CostingInit => CostingInv
  <1> SUFFICES ASSUME CostingInit PROVE CostingInv
    OBVIOUS
  <1>1. /\ method = "NONE" /\ locked = FALSE /\ onHand = Opening
        /\ above = {} /\ layers = <<>> /\ average = [l \in At |-> NoCost]
        /\ held = [o \in Buyers |->
              [ref |-> "NONE", units |-> [l \in At |-> 0], up |-> {},
               cost |-> 0]]
        /\ shipment = [sent |-> 0, received |-> 0, parts |-> <<>>,
                       unit |-> NoCost]
        /\ adjusting = Idle /\ valueIn = 0 /\ valueOut = 0
    BY DEF CostingInit
  <1>2. /\ shipment.sent = 0 /\ shipment.received = 0 /\ shipment.parts = <<>>
    BY <1>1
  <1>3. ShipmentInv
    <2>1. <<>> \in Seq(Parts)
      OBVIOUS
    <2>2. shipment \in [sent : Nat, received : Nat, parts : Seq(Parts),
                        unit : Fractions]
      BY <1>1, <2>1, NoCostIs
    <2> QED
      BY <1>1, <1>2, <2>2 DEF ShipmentInv, isFifo
  <1>4. CostingTypeOK
    <2>1. method \in Method /\ locked \in BOOLEAN /\ onHand \in [At -> Nat]
      BY <1>1, Places DEF Method
    <2>2. layers \in Seq([at : At, left : Nat, cost : Nat])
      BY <1>1
    <2>3. average \in [At -> [v : Nat, q : Nat]]
      BY <1>1 DEF NoCost
    <2>4. held \in [Buyers -> [ref : Ref, units : [At -> Nat],
                                up : SUBSET At, cost : Nat]]
      BY <1>1 DEF Ref
    <2>5. adjusting.at \in 0..Len(Opening)
      BY <1>1, Places DEF Idle
    <2>6. 0 \in 0..0
      OBVIOUS
    <2> QED
      BY <1>1, <1>2, <2>1, <2>2, <2>3, <2>4, <2>5, <2>6 DEF CostingTypeOK
  <1>5. StockIsCosted /\ ValueConserved /\ AdjustingInv
    BY <1>1 DEF StockIsCosted, ValueConserved, AdjustingInv, isFifo
  <1> QED
    BY <1>1, <1>3, <1>4, <1>5 DEF CostingInv

LEMMA CostingInvNext == CostingInv /\ [CostingNext]_costingVars => CostingInv'
  <1> SUFFICES ASSUME CostingInv, [CostingNext]_costingVars
               PROVE  CostingInv'
    OBVIOUS
  <1>1. CASE UNCHANGED costingVars
    <2>1. /\ method' = method /\ locked' = locked /\ onHand' = onHand
          /\ layers' = layers /\ average' = average /\ held' = held
          /\ shipment' = shipment /\ adjusting' = adjusting
          /\ valueIn' = valueIn /\ valueOut' = valueOut /\ above' = above
      BY <1>1 DEF costingVars
    <2>2. \A k \in At : /\ onHand'[k] + Reserved(k)' <= onHand[k] + Reserved(k)
                        /\ onHand'[k] + Reserved(k)' \in Nat
      BY <2>1, ReservedStays, UnitsNat
    <2>5. \A k \in At : InUse(k)' => InUse(k)
      BY <2>1, ReservedStays DEF InUse
    <2>3. LedgerInv' /\ ShipmentInv'
      BY <2>1, <2>2, <2>5, CostsStay
    <2>4. AdjustingInv' /\ locked' \in BOOLEAN
      BY <2>1 DEF AdjustingInv, CostingInv, CostingTypeOK, isFifo, Pool
    <2> QED
      BY <2>1, <2>3, <2>4, Typed, InvNext
  <1>2. CASE CostingNext
    <2>1. CASE \E m \in Method, c \in [At -> Costs], done \in SUBSET Buyers :
                 configureValuation(m, c, done)
      BY <2>1, ConfigureInv
    <2>2. CASE \E l \in At, n \in Lots, c \in Costs : stockIn(l, n, c)
      BY <2>2, StockInInv
    <2>3. CASE \E l \in At, d \in Deltas, c \in Costs : readBalance(l, d, c)
      BY <2>3, ReadBalanceInv
    <2>4. CASE adjustment
      BY <2>4, AdjustmentInv
    <2>5. CASE \E o \in Buyers, n \in Amounts : reserveStock(o, n)
      BY <2>5, ReserveStockInv
    <2>6. CASE \E o \in Buyers : releaseReservation(o) \/ commitReservation(o)
      BY <2>6, ReleaseInv, CommitInv
    <2>7. CASE \E n \in Amounts : shipTransfer(n) \/ receiveTransfer(n)
      BY <2>7, ShipmentCostInv, ReceiptCostInv
    <2> QED
      BY <1>2, <2>1, <2>2, <2>3, <2>4, <2>5, <2>6, <2>7 DEF CostingNext
  <1> QED
    BY <1>1, <1>2

-----------------------------------------------------------------------------
(***************************************************************************)
(* That every unit has a cost is why costing refuses nothing but what a    *)
(* double asks for above the last of the layers.                           *)
(***************************************************************************)

(* Units that are on hand or reserved can be issued, if the doubles are no *)
(* more than the layers.                                                   *)
LEMMA CoveredIsIssuable ==
  ASSUME CostingInv, method # "NONE", NEW units \in [At -> Nat],
         NEW up \in SUBSET At, ~AsksForMore(units, up),
         \A l \in At : units[l] <= onHand[l] + Reserved(l),
         \A l \in up : InUse(l)
  PROVE  Issuable(units, up)
  <1> SUFFICES ASSUME NEW l \in At, units[l] > 0 \/ l \in up
               PROVE  IF isFifo
                      THEN \/ Total(LeftAt(l)) > units[l]
                           \/ Total(LeftAt(l)) = units[l] /\ l \notin up
                      ELSE average[Pool(l)] # NoCost
    BY DEF Issuable
  <1>1. /\ units[l] \in Nat /\ units[l] <= onHand[l] + Reserved(l)
        /\ onHand[l] + Reserved(l) \in Nat
    BY UnitsNat
  <1>2. CASE isFifo
    <2>1. Total(LeftAt(l)) >= onHand[l] + Reserved(l)
      BY <1>2 DEF CostingInv, StockIsCosted
    <2>2. LeftAt(l) \in [1..Len(layers) -> Nat] /\ Len(layers) \in Nat
      <3>1. layers \in Seq(Layers)
        BY Typed
      <3>2. \A i \in 1..Len(layers) : layers[i] \in Layers
        BY <3>1
      <3>3. \A i \in 1..Len(layers) : layers[i].left \in Nat
        BY <3>2 DEF Layers
      <3> QED
        BY <3>1, <3>3 DEF LeftAt
    <2>3. LeftAt(l) \in Seq(Nat) /\ Len(LeftAt(l)) = Len(layers)
      BY <2>2, FunctionIsSeq
    <2>4. Total(LeftAt(l)) \in Nat
      BY <2>2, <2>3, SumToNat DEF Total
    <2>5. Total(LeftAt(l)) >= units[l]
      BY <1>1, <2>1, <2>4
    <2>6. l \in up => Total(LeftAt(l)) # units[l]
      BY <1>2 DEF AsksForMore
    <2> QED
      BY <1>1, <1>2, <2>4, <2>5, <2>6
  <1>3. CASE ~isFifo
    <2>1. InUse(l)
      <3>1. units[l] > 0 => onHand[l] + Reserved(l) > 0
        BY <1>1
      <3> QED
        BY <3>1 DEF InUse
    <2> QED
      BY <1>3, <2>1, InUseIsCosted DEF ByAverage
  <1> QED
    BY <1>2, <1>3

(* Units on hand can leave one location.                                   *)
LEMMA OnHandIsIssuable ==
  ASSUME CostingInv, method # "NONE", NEW l \in At, NEW n \in Nat,
         n <= onHand[l]
  PROVE  Issuable(Only(l, n), {})
  <1>1. /\ Only(l, n) \in [At -> Nat] /\ Only(l, n)[l] = n
        /\ \A k \in At : k # l => Only(l, n)[k] = 0
    BY OnlyIs
  <1>2. ASSUME NEW k \in At PROVE Only(l, n)[k] <= onHand[k] + Reserved(k)
    <2>1. onHand[k] \in Nat /\ Reserved(k) \in Nat
      BY UnitsNat
    <2>2. CASE k = l
      BY <1>1, <2>1, <2>2
    <2>3. CASE k # l
      BY <1>1, <2>1, <2>3
    <2> QED
      BY <2>2, <2>3
  <1>3. ~AsksForMore(Only(l, n), {})
    BY DEF AsksForMore
  <1> QED
    BY <1>1, <1>2, <1>3, CoveredIsIssuable

(* A receipt of n units where b were read finds an average for the others. *)
LEMMA PriorIsWeighable ==
  ASSUME CostingInv, method # "NONE", ~isFifo, NEW l \in At,
         NEW n \in Nat, NEW b \in Nat, b <= onHand[l],
         NEW s, s = [onHand EXCEPT ![l] = b + n]
  PROVE  Weighable(s, l, n)
  <1>0. PICK up : up = above \cup adjusting.up
    OBVIOUS
  <1> SUFFICES ASSUME \/ InPool(s, l) # n
                      \/ IF method = "PER_ITEM" THEN up # {} ELSE l \in up
               PROVE  average[Pool(l)] # NoCost
    BY <1>0 DEF Weighable
  <1>5. ASSUME NEW k \in up PROVE k \in At /\ average[Pool(k)] # NoCost
    <2>1. CASE k \in above
      BY <2>1, Typed, AboveIsUsed, InUseIsCosted DEF ByAverage
    <2>2. CASE k \in adjusting.up
      <3>1. adjusting # Idle
        BY <2>2 DEF Idle
      <3>2. /\ adjusting \in Adjustment /\ adjusting.up \subseteq {adjusting.at}
            /\ adjusting.up # {} => average[Pool(adjusting.at)] # NoCost
        BY <3>1 DEF CostingInv, AdjustingInv
      <3> QED
        BY <2>2, <3>2 DEF Adjustment
    <2> QED
      BY <1>0, <1>5, <2>1, <2>2
  <1>1. /\ onHand \in [At -> Nat] /\ onHand \in Seq(Nat)
        /\ Len(onHand) = Len(Opening)
    BY Typed
  <1>2. ASSUME NEW k \in At, onHand[k] > 0
        PROVE  average[Pool(k)] # NoCost
    BY <1>2, OnHandIsUsed, InUseIsCosted DEF ByAverage
  <1>3. CASE method # "PER_ITEM"
    <2>1. CASE l \in up
      BY <1>5, <2>1
    <2>2. CASE l \notin up
      <3>1. b + n # n
        BY <1>1, <1>3, <2>2 DEF InPool
      <3>2. onHand[l] > 0 /\ onHand[l] \in Nat
        BY <1>1, <3>1
      <3> QED
        BY <1>2, <3>2
    <2> QED
      BY <2>1, <2>2
  <1>6. CASE method = "PER_ITEM" /\ up # {}
    <2>1. PICK k \in up : k \in At /\ average[Pool(k)] # NoCost
      BY <1>5, <1>6
    <2> QED
      BY <1>6, <2>1 DEF Pool
  <1>4. CASE method = "PER_ITEM" /\ up = {}
    <2>1. \E k \in At : onHand[k] > 0
      <3> SUFFICES ASSUME \A k \in At : onHand[k] = 0 PROVE FALSE
        BY <1>1
      <3>1. b = 0 /\ Len(s) = Len(Opening)
        BY <1>1
      <3>2. PICK N \in Nat : N = Len(Opening) /\ At = 1..N
        BY Places
      <3>3. PICK z : z = [k \in 1..N |-> 0]
        OBVIOUS
      <3>4. SumTo(z, N) = 0
        BY <3>3, SumToNull
      <3>5. \A k \in 1..N : s[k] = (IF k = l THEN n ELSE 0)
        BY <1>1, <3>1, <3>2
      <3>6. SumTo(s, N) = n
        <4>1. IsFiniteSet(1..N)
          BY FS_Interval
        <4>2. /\ \A k \in 1..N : z[k] \in Int
              /\ s[l] = n /\ s[l] \in Int /\ z[l] = 0 /\ l \in 1..N
              /\ \A k \in 1..N : k # l => s[k] = z[k]
          BY <3>2, <3>3, <3>5
        <4>3. SumFunctionOnSet(s, 1..N)
                = SumFunctionOnSet(z, 1..N) + (s[l] - z[l])
          BY ONLY <4>1, <4>2, SumUpdate
        <4> QED
          BY <3>4, <4>2, <4>3 DEF SumTo
      <3>7. InPool(s, l) = n
        BY <1>4, <3>1, <3>2, <3>6 DEF InPool, Total
      <3> QED
        BY <1>4, <3>7
    <2>2. PICK k \in At : onHand[k] > 0
      BY <2>1
    <2>3. Pool(k) = 1 /\ Pool(l) = 1
      BY <1>4 DEF Pool
    <2> QED
      BY <1>2, <2>2, <2>3
  <1> QED
    BY <1>3, <1>4, <1>6

LEMMA RefusesNothing == CostingInv => NothingRefused
  <1> SUFFICES ASSUME CostingInv, method # "NONE" PROVE NothingRefused
    BY DEF NothingRefused
  <1>1. 1 \in At /\ Amounts \subseteq Nat /\ Lots \subseteq Nat
        /\ Deltas \subseteq Int
    BY Places, CostingConstants
  <1>2. ASSUME NEW o \in Buyers, held[o].ref = "ORDER_RESERVATION"
        PROVE  \/ Issuable(held[o].units, held[o].up)
               \/ AsksForMore(held[o].units, held[o].up)
    <2>1. held[o].up \in SUBSET At
      BY Typed DEF Held
    <2>2. \A l \in held[o].up : InUse(l)
      BY <1>2, HeldIsUsed
    <2> QED
      BY <1>2, <2>1, <2>2, HeldIsReserved, CoveredIsIssuable
  <1>3. ASSUME NEW n \in Amounts, onHand[1] >= n
        PROVE  Issuable(Only(1, n), {})
    <2>1. n \in Nat /\ n <= onHand[1]
      BY <1>1, <1>3, UnitsNat
    <2> QED
      BY <1>1, <2>1, OnHandIsIssuable
  <1>4. ASSUME NEW l \in At, NEW n \in Lots, ~isFifo
        PROVE  Weighable([onHand EXCEPT ![l] = @ + n], l, n)
    <2>1. n \in Nat /\ onHand[l] \in Nat /\ onHand[l] <= onHand[l]
      BY <1>1, UnitsNat
    <2>2. PICK s : s = [onHand EXCEPT ![l] = onHand[l] + n]
      OBVIOUS
    <2>3. Weighable(s, l, n)
      BY <1>4, <2>1, <2>2, PriorIsWeighable
    <2> QED
      BY <2>2, <2>3
  <1>5. ASSUME adjusting # Idle
        PROVE  /\ adjusting.delta < 0 =>
                    Issuable(Only(adjusting.at, -adjusting.delta), {})
               /\ adjusting.delta > 0 /\ ~isFifo =>
                    Weighable([onHand EXCEPT ![adjusting.at] =
                                 adjusting.before + adjusting.delta],
                              adjusting.at, adjusting.delta)
    <2>1. /\ adjusting \in Adjustment
          /\ adjusting.before <= onHand[adjusting.at]
          /\ adjusting.before + adjusting.delta >= 0
      BY <1>5 DEF CostingInv, AdjustingInv
    <2>2. PICK l \in At, b \in Nat, d \in Int :
            l = adjusting.at /\ b = adjusting.before /\ d = adjusting.delta
      BY <1>1, <2>1 DEF Adjustment
    <2>3. b <= onHand[l] /\ b + d >= 0 /\ onHand[l] \in Nat
      BY <2>1, <2>2, UnitsNat
    <2>4. ASSUME d < 0 PROVE Issuable(Only(l, -d), {})
      <3>1. -d \in Nat /\ -d <= onHand[l]
        BY <2>3, <2>4
      <3> QED
        BY <3>1, OnHandIsIssuable
    <2>5. ASSUME d > 0, ~isFifo
          PROVE  Weighable([onHand EXCEPT ![l] = b + d], l, d)
      <3>1. d \in Nat
        BY <2>5
      <3> QED
        BY <2>3, <2>5, <3>1, PriorIsWeighable
    <2> QED
      BY <2>2, <2>4, <2>5
  <1> QED
    BY <1>2, <1>3, <1>4, <1>5 DEF NothingRefused

(* However the operations on an item and the releases of its reservations  *)
(* interleave, its balances and layers are never below zero and every unit *)
(* on hand or reserved has a cost.  So no commit, shipment, adjustment or  *)
(* receipt is refused for want of one, but the FIFO commit whose reserved  *)
(* double, rounded above its units, asks for more than the last layers     *)
(* hold.  A moving average is within the costs it averages.                *)
THEOREM CostingSound == CostingSpec => []CostingIsSound
  <1>1. CostingInv => CostingIsSound
    <2> SUFFICES ASSUME CostingInv PROVE AverageWithinCosts
      BY RefusesNothing DEF CostingInv, CostingIsSound
    <2> QED
      BY DEF CostingInv, AverageWithinCosts, Averaged, Between
  <1> QED
    BY CostingInvInit, CostingInvNext, <1>1, PTL DEF CostingSpec

(* Under FIFO what the receipts cost is what the issues took, the layers   *)
(* hold and a transfer has on its way, whatever layers a shipment emptied  *)
(* and in whatever parts it is received.                                   *)
THEOREM NoValueLost == CostingSpec => []ValueConserved
  <1>1. CostingInv => ValueConserved
    BY DEF CostingInv
  <1> QED
    BY CostingInvInit, CostingInvNext, <1>1, PTL DEF CostingSpec
-----------------------------------------------------------------------------
(***************************************************************************)
(* The replay of a ledger.  What is inductive is not what the replay gives *)
(* but how the rows, the balance and the arrivals hang together: that a    *)
(* row's balances agree with its type, that the rows add up to the balance *)
(* unless it was edited, and how many units had arrived by each row, at    *)
(* what cost.  In a state with that invariant the replay is then followed  *)
(* row by row, by induction over the rows: each unit it has is either of   *)
(* unknown cost or one of those that arrived, in the order of arrival and  *)
(* with no more units behind it than arrived after it.                     *)
(***************************************************************************)
AnyCost == UnitCosts \cup {UnknownCost}

(* What a movement's type says of it is what its balances say; a return    *)
(* has no cost.                                                            *)
ByType(m) == IF m.ref \in Inbound THEN m.quantity ELSE -m.quantity
Signed(m, ret) ==
    /\ m.quantity > 0
    /\ movementQuantityDelta(m) = ByType(m)
    /\ m.ref = "ORDER_RESERVATION_RELEASE" => ret /\ m.cost = UnknownCost
SignsOf(l, ret) == \A i \in 1..Len(l) : Signed(l[i], ret)

(* x is what the rows add up to, from the first balance written on; the    *)
(* balance is the last of it unless it was edited.                         *)
AddsUp(l, b, edited, x) ==
    /\ x \in [0..Len(l) -> Int]
    /\ Len(l) = 0 => x[0] = b
    /\ Len(l) > 0 /\ l[1].before # Null => x[0] = l[1].before
    /\ \A i \in 1..Len(l) : x[i] = x[i - 1] + ByType(l[i])
    /\ edited <=> x[Len(l)] # b

(* a says how many units had arrived by each movement, and their cost is   *)
(* the movement's.                                                         *)
Brings(m) == IF m.ref = "RECEIPT" THEN m.quantity ELSE 0
CountOf(l, arr, a) ==
    /\ a \in [0..Len(l) -> 0..Len(arr)]
    /\ a[Len(l)] = Len(arr)
    /\ \A i \in 1..Len(l) : a[i] = a[i - 1] + Brings(l[i])
CostsOf(l, arr, a) ==
    \A i \in 1..Len(l) : \A j \in (a[i - 1] + 1)..a[i] : arr[j] = l[i].cost

(* All of it, of any ledger, so that a step can be taken in two.           *)
TypedLedger(l, arr, b) == l \in Seq(Movement) /\ arr \in Seq(AnyCost) /\ b \in Nat
Kept(l, arr, b, edited, ret) ==
    /\ TypedLedger(l, arr, b)
    /\ SignsOf(l, ret)
    /\ \E x : AddsUp(l, b, edited, x)
    /\ \E a : CountOf(l, arr, a) /\ CostsOf(l, arr, a)

HistoryInv ==
    HistoryTypeOK /\ Kept(ledger, arrivals, balance, untold, returned)
-----------------------------------------------------------------------------
(* What the type says of rows and arrivals.                                *)
LEMMA HistoryIs ==
    ASSUME HistoryInv
    PROVE  /\ Len(ledger) \in Nat /\ Len(arrivals) \in Nat
           /\ \A i \in 1..Len(ledger) : ledger[i] \in Movement
           /\ \A i \in 1..Len(ledger) : Signed(ledger[i], returned)
           /\ historicalMovements \subseteq 1..Len(ledger)
           /\ balance \in Nat /\ arrivals \in Seq(AnyCost)
  BY DEF HistoryInv, HistoryTypeOK, Kept, SignsOf, AnyCost, historicalMovements

(* The replay follows its recursion.                                       *)
ReplayStep(g, n) ==
    IF n = 0 THEN Start
    ELSE IF n \in historicalMovements THEN replayMovement(g[n - 1], ledger[n])
         ELSE g[n - 1]
Replays(g, k) == g = [n \in 0..k |-> ReplayStep(g, n)]

(* A function with that recursion exists for any number of rows: the one   *)
(* for one row more is built from the one before.                          *)
LEMMA ReplaysExist ==
    ASSUME NEW N \in Nat
    PROVE  \E g : Replays(g, N)
  <1> DEFINE P == {k \in Nat : \E g : Replays(g, k)}
  <1>1. 0 \in P
    <2> DEFINE g == [n \in 0..0 |-> Start]
    <2>1. \A n \in 0..0 : ReplayStep(g, n) = Start
      BY DEF ReplayStep
    <2>2. g = [n \in 0..0 |-> ReplayStep(g, n)]
      BY <2>1
    <2> QED BY <2>2 DEF Replays
  <1>2. ASSUME NEW k \in Nat, k \in P PROVE k + 1 \in P
    <2>1. PICK g : Replays(g, k)
      BY <1>2
    <2> DEFINE h == [n \in 0..(k + 1) |-> ReplayStep(g, n)]
    <2>2. \A n \in 0..k : h[n] = g[n]
      BY <2>1 DEF Replays
    <2>3. \A n \in 0..(k + 1) : ReplayStep(h, n) = ReplayStep(g, n)
      <3> SUFFICES ASSUME NEW n \in 0..(k + 1)
                   PROVE  ReplayStep(h, n) = ReplayStep(g, n)
        OBVIOUS
      <3>1. CASE n = 0
        BY <3>1 DEF ReplayStep
      <3>2. CASE n # 0
        <4>1. n - 1 \in 0..k
          BY <3>2
        <4>2. h[n - 1] = g[n - 1]
          BY <2>2, <4>1
        <4> QED BY <4>2, <3>2 DEF ReplayStep
      <3> QED BY <3>1, <3>2
    <2>4. h = [n \in 0..(k + 1) |-> ReplayStep(h, n)]
      BY <2>3
    <2> HIDE DEF h
    <2>5. Replays(h, k + 1)
      BY <2>4 DEF Replays
    <2> QED BY <2>5
  <1> HIDE DEF P
  <1>3. Nat \subseteq P
    BY <1>1, <1>2, NatSetInduction
  <1> QED BY <1>3 DEF P

(* So the replay, which is chosen among such functions, is one.            *)
LEMMA ReplayIs ==
    ASSUME HistoryInv
    PROVE  /\ replay[0] = Start
           /\ \A n \in 1..Len(ledger) :
                replay[n] = IF n \in historicalMovements
                            THEN replayMovement(replay[n - 1], ledger[n])
                            ELSE replay[n - 1]
  <1>1. Len(ledger) \in Nat
    BY HistoryIs
  <1>2. \E g : Replays(g, Len(ledger))
    BY <1>1, ReplaysExist
  <1>3. replay = CHOOSE g : Replays(g, Len(ledger))
    BY DEF replay, Replays, ReplayStep
  <1>4. Replays(replay, Len(ledger))
    BY <1>2, <1>3
  <1>5. \A n \in 0..Len(ledger) : replay[n] = ReplayStep(replay, n)
    BY <1>4 DEF Replays
  <1>6. replay[0] = Start
    BY <1>1, <1>5 DEF ReplayStep
  <1>7. ASSUME NEW n \in 1..Len(ledger)
        PROVE  replay[n] = IF n \in historicalMovements
                           THEN replayMovement(replay[n - 1], ledger[n])
                           ELSE replay[n - 1]
    <2>1. n \in 0..Len(ledger) /\ n # 0 /\ n > 0
      BY <1>1
    <2>2. replay[n] = ReplayStep(replay, n)
      BY <1>5, <2>1
    <2> QED BY <2>1, <2>2 DEF ReplayStep
  <1> QED BY <1>6, <1>7

-----------------------------------------------------------------------------
(* What a replay has rebuilt: as many units as it counts.                  *)
Rebuilt == {r \in [ok : BOOLEAN, quantity : Nat, units : Seq(AnyCost)] :
                Len(r.units) = r.quantity}

(* Units of the same cost are a sequence of that cost.                     *)
LEMMA UnitsAtIs ==
    ASSUME NEW n \in Nat, NEW c \in AnyCost
    PROVE  /\ UnitsAt(n, c) \in Seq(AnyCost) /\ Len(UnitsAt(n, c)) = n
           /\ \A i \in 1..n : UnitsAt(n, c)[i] = c
  BY DEF UnitsAt

(* A replay opens with as many units as it counts.                         *)
LEMMA OpenedWithIs ==
    ASSUME NEW n \in Nat
    PROVE  OpenedWith(n) \in Rebuilt
  <1>1. UnknownCost \in AnyCost
    BY DEF AnyCost
  <1>2. UnitsAt(n, UnknownCost) \in Seq(AnyCost)
        /\ Len(UnitsAt(n, UnknownCost)) = n
    BY <1>1, UnitsAtIs
  <1> QED BY <1>2 DEF OpenedWith, Rebuilt

(* A movement that is replayed changes the count by what it moved.         *)
Follows(s, m, r) ==
    LET d == movementQuantityDelta(m)
    IN  /\ s.ok /\ r.quantity = s.quantity + d
        /\ d < 0 => -d <= Len(s.units)
        /\ r.units = IF d > 0 THEN s.units \o UnitsAt(d, m.cost)
                     ELSE SubSeq(s.units, 1 - d, Len(s.units))

(* Replaying a movement keeps units and count equal, and succeeds only if  *)
(* the movement follows.                                                   *)
LEMMA MovementIs ==
    ASSUME NEW s \in Rebuilt, NEW m \in Movement
    PROVE  /\ replayMovement(s, m) \in Rebuilt
           /\ replayMovement(s, m).ok => Follows(s, m, replayMovement(s, m))
  <1>1. /\ s.ok \in BOOLEAN /\ s.quantity \in Nat /\ s.units \in Seq(AnyCost)
        /\ Len(s.units) = s.quantity
        /\ s = [ok |-> s.ok, quantity |-> s.quantity, units |-> s.units]
    BY DEF Rebuilt
  <1>2. m.cost \in AnyCost
    BY DEF Movement, AnyCost
  <1>3. PICK d \in Int : d = movementQuantityDelta(m)
    <2>1. /\ m.before \in Int /\ m.after \in Int /\ m.quantity \in Int
          /\ -m.quantity \in Int /\ m.after - m.before \in Int
      BY DEF Movement, Null
    <2> QED BY <2>1 DEF movementQuantityDelta
  <1>4. [s EXCEPT !.ok = FALSE] \in Rebuilt /\ ~[s EXCEPT !.ok = FALSE].ok
    BY <1>1 DEF Rebuilt
  <1> DEFINE can == /\ s.ok
                    /\ m.before # Null => s.quantity = m.before
                    /\ m.after # Null => s.quantity + d = m.after
                    /\ d < 0 => -d <= Len(s.units)
             u == IF d > 0 THEN s.units \o UnitsAt(d, m.cost)
                  ELSE SubSeq(s.units, 1 - d, Len(s.units))
             r == [ok |-> TRUE, quantity |-> s.quantity + d, units |-> u]
  <1>5. replayMovement(s, m) = IF can THEN r ELSE [s EXCEPT !.ok = FALSE]
    BY <1>3 DEF replayMovement
  <1>6. CASE ~can
    BY <1>4, <1>5, <1>6
  <1>7. CASE can
    <2>1. u \in Seq(AnyCost) /\ Len(u) = s.quantity + d
      <3>1. CASE d > 0
        <4>1. UnitsAt(d, m.cost) \in Seq(AnyCost) /\ Len(UnitsAt(d, m.cost)) = d
          BY <1>2, <3>1, UnitsAtIs
        <4> QED BY <1>1, <3>1, <4>1
      <3>2. CASE ~(d > 0)
        <4>1. -d \in Nat /\ -d <= Len(s.units) /\ 1 - d \in 1..(Len(s.units) + 1)
          BY <1>1, <1>7, <3>2
        <4>2. /\ SubSeq(s.units, 1 - d, Len(s.units)) \in Seq(AnyCost)
              /\ Len(SubSeq(s.units, 1 - d, Len(s.units))) = Len(s.units) + d
          BY <1>1, <4>1
        <4> QED BY <1>1, <3>2, <4>2
      <3> QED BY <3>1, <3>2
    <2>2. s.quantity + d \in Nat
      BY <1>1, <1>7
    <2>3. Follows(s, m, r)
      BY <1>3, <1>7 DEF Follows
    <2> HIDE DEF u
    <2>4. r \in Rebuilt
      BY <2>1, <2>2 DEF Rebuilt
    <2> QED BY <1>5, <1>7, <2>3, <2>4
  <1> QED BY <1>6, <1>7

(* Reserved units count as stock.                                          *)
LEMMA QuantityIs ==
    ASSUME HistoryInv
    PROVE  /\ currentQuantity \in Nat
           /\ historicalMovements = 1..Len(ledger) => currentQuantity = balance
  <1> DEFINE reserved == [i \in 1..Len(ledger) |->
                             IF i \in historicalMovements THEN 0
                             ELSE ledger[i].quantity]
  <1>1. /\ Len(ledger) \in Nat /\ balance \in Nat
        /\ currentQuantity
             = balance + SumFunctionOnSet(reserved, 1..Len(ledger))
    BY HistoryIs DEF currentQuantity
  <1>2. IsFiniteSet(1..Len(ledger))
    BY <1>1, FS_Interval
  <1>3. ASSUME NEW i \in 1..Len(ledger) PROVE reserved[i] \in Nat
    <2>1. ledger[i].quantity \in Nat
      BY HistoryIs DEF Movement
    <2> QED BY <2>1
  <1>4. historicalMovements = 1..Len(ledger) =>
            \A i \in 1..Len(ledger) : reserved[i] = 0
    OBVIOUS
  <1> HIDE DEF reserved
  <1>5. SumFunctionOnSet(reserved, 1..Len(ledger)) \in Nat
    BY <1>2, <1>3, SumNat
  <1>6. historicalMovements = 1..Len(ledger) =>
            SumFunctionOnSet(reserved, 1..Len(ledger)) = 0
    BY <1>2, <1>4, SumZero
  <1> QED BY <1>1, <1>5, <1>6

First == Min(historicalMovements)

(* The first movement replayed is one of them and none is before it.       *)
LEMMA FirstIs ==
    ASSUME HistoryInv, historicalMovements # {}
    PROVE  /\ First \in historicalMovements
           /\ \A i \in historicalMovements : First <= i
  <1>1. historicalMovements \subseteq Nat
    BY HistoryIs
  <1>2. \E x \in historicalMovements : \A y \in historicalMovements : x <= y
    BY <1>1, LeastNat
  <1> QED BY <1>2 DEF First, Min

(* The replay opens with units of unknown cost: as many as there were      *)
(* before the first movement, or else it gives up.                         *)
LEMMA StartIs ==
    ASSUME HistoryInv
    PROVE  /\ Start \in Rebuilt
           /\ \A i \in 1..Len(Start.units) : Start.units[i] = UnknownCost
           /\ historicalMovements # {} /\ Start.ok =>
                /\ ledger[First].before # Null
                /\ Start.quantity = ledger[First].before
  <1>1. UnknownCost \in AnyCost
    BY DEF AnyCost
  <1>2. CASE historicalMovements = {}
    <2>1. Start = OpenedWith(currentQuantity)
      BY <1>2 DEF Start
    <2>2. currentQuantity \in Nat
      BY QuantityIs
    <2>3. OpenedWith(currentQuantity) \in Rebuilt
      BY <2>2, OpenedWithIs
    <2> QED BY <1>1, <1>2, <2>1, <2>2, <2>3, UnitsAtIs DEF OpenedWith
  <1>3. CASE historicalMovements # {} /\ ledger[First].before # Null
    <2>1. Start = OpenedWith(ledger[First].before)
      BY <1>3 DEF Start, First
    <2>2. First \in 1..Len(ledger)
      BY <1>3, FirstIs, HistoryIs
    <2>3. ledger[First].before \in Nat
      BY <1>3, <2>2, HistoryIs DEF Movement
    <2>4. OpenedWith(ledger[First].before) \in Rebuilt
      BY <2>3, OpenedWithIs
    <2>5. /\ Start.units = UnitsAt(ledger[First].before, UnknownCost)
          /\ Start.quantity = ledger[First].before
      BY <2>1 DEF OpenedWith
    <2>6. \A i \in 1..Len(Start.units) : Start.units[i] = UnknownCost
      <3>1. PICK n \in Nat : n = ledger[First].before
        BY <2>3
      <3>2. /\ Len(UnitsAt(n, UnknownCost)) = n
            /\ \A i \in 1..n : UnitsAt(n, UnknownCost)[i] = UnknownCost
        BY <1>1, UnitsAtIs
      <3> QED BY <2>5, <3>1, <3>2
    <2> QED BY <1>3, <2>1, <2>4, <2>5, <2>6
  <1>4. CASE historicalMovements # {} /\ ~(ledger[First].before # Null)
    <2>1. Start = [OpenedWith(0) EXCEPT !.ok = FALSE]
      BY <1>4 DEF Start, First
    <2>2. /\ UnitsAt(0, UnknownCost) \in Seq(AnyCost)
          /\ Len(UnitsAt(0, UnknownCost)) = 0
      BY <1>1, UnitsAtIs
    <2>3. Start = [ok |-> FALSE, quantity |-> 0, units |-> UnitsAt(0, UnknownCost)]
      BY <2>1 DEF OpenedWith
    <2> QED BY <2>2, <2>3 DEF Rebuilt
  <1> QED BY <1>2, <1>3, <1>4

(* At every row the replay has as many units as it counts.                 *)
LEMMA ReplayRebuilds ==
    ASSUME HistoryInv
    PROVE  \A n \in 0..Len(ledger) : replay[n] \in Rebuilt
  <1> DEFINE P == {n \in Nat : n <= Len(ledger) => replay[n] \in Rebuilt}
  <1>1. 0 \in P
    BY ReplayIs, StartIs
  <1>2. ASSUME NEW n \in Nat, n \in P PROVE n + 1 \in P
    <2> SUFFICES ASSUME n + 1 <= Len(ledger) PROVE replay[n + 1] \in Rebuilt
      OBVIOUS
    <2>1. Len(ledger) \in Nat
      BY HistoryIs
    <2>2. n + 1 \in 1..Len(ledger) /\ (n + 1) - 1 = n /\ replay[n] \in Rebuilt
      BY <1>2, <2>1
    <2>3. ledger[n + 1] \in Movement
      BY <2>2, HistoryIs
    <2>4. replay[n + 1] = IF n + 1 \in historicalMovements
                          THEN replayMovement(replay[n], ledger[n + 1])
                          ELSE replay[n]
      BY <2>2, ReplayIs
    <2>5. replayMovement(replay[n], ledger[n + 1]) \in Rebuilt
      BY <2>2, <2>3, MovementIs
    <2> QED BY <2>2, <2>4, <2>5
  <1> HIDE DEF P
  <1>3. Nat \subseteq P
    BY <1>1, <1>2, NatSetInduction
  <1> QED BY <1>3, HistoryIs DEF P

(* One row: the replay stays as it is or follows the movement.             *)
LEMMA ReplayNext ==
    ASSUME HistoryInv, NEW n \in 1..Len(ledger), replay[n].ok
    PROVE  /\ replay[n - 1].ok /\ replay[n - 1] \in Rebuilt
           /\ n \notin historicalMovements => replay[n] = replay[n - 1]
           /\ n \in historicalMovements =>
                Follows(replay[n - 1], ledger[n], replay[n])
  <1>1. Len(ledger) \in Nat /\ ledger[n] \in Movement
    BY HistoryIs
  <1>2. n - 1 \in 0..Len(ledger)
    BY <1>1
  <1>3. replay[n - 1] \in Rebuilt
    BY <1>2, ReplayRebuilds
  <1>4. CASE n \notin historicalMovements
    <2>1. replay[n] = replay[n - 1]
      BY <1>4, ReplayIs
    <2> QED BY <1>3, <1>4, <2>1
  <1>5. CASE n \in historicalMovements
    <2>1. replay[n] = replayMovement(replay[n - 1], ledger[n])
      BY <1>5, ReplayIs
    <2>2. Follows(replay[n - 1], ledger[n], replay[n])
      BY <1>1, <1>3, <2>1, MovementIs
    <2> QED BY <1>3, <1>5, <2>2 DEF Follows
  <1> QED BY <1>4, <1>5

(* A replay of all rows has counted what they add up to.                   *)
LEMMA ReplayAddsUp ==
    ASSUME HistoryInv, historicalMovements = 1..Len(ledger), Len(ledger) > 0,
           NEW x, AddsUp(ledger, balance, untold, x)
    PROVE  \A n \in 0..Len(ledger) : replay[n].ok => replay[n].quantity = x[n]
  <1> DEFINE P == {n \in Nat : n <= Len(ledger) /\ replay[n].ok =>
                                   replay[n].quantity = x[n]}
  <1>1. Len(ledger) \in Nat
    BY HistoryIs
  <1>2. 0 \in P
    <2>1. First = 1
      <3>1. First \in 1..Len(ledger) /\ First <= 1
        BY <1>1, FirstIs
      <3> QED BY <1>1, <3>1
    <2>2. Start.ok => Start.quantity = x[0]
      BY <1>1, <2>1, StartIs DEF AddsUp
    <2> QED BY <2>2, ReplayIs
  <1>3. ASSUME NEW n \in Nat, n \in P PROVE n + 1 \in P
    <2> SUFFICES ASSUME n + 1 <= Len(ledger), replay[n + 1].ok
                 PROVE  replay[n + 1].quantity = x[n + 1]
      OBVIOUS
    <2>1. n + 1 \in 1..Len(ledger) /\ (n + 1) - 1 = n /\ n <= Len(ledger)
      BY <1>1
    <2>2. replay[n].ok /\ Follows(replay[n], ledger[n + 1], replay[n + 1])
      BY <2>1, ReplayNext
    <2>3. replay[n].quantity = x[n]
      BY <1>3, <2>1, <2>2
    <2>4. movementQuantityDelta(ledger[n + 1]) = ByType(ledger[n + 1])
      BY <2>1, HistoryIs DEF Signed
    <2>5. x[n + 1] = x[n] + ByType(ledger[n + 1])
      BY <2>1 DEF AddsUp
    <2> QED BY <2>2, <2>3, <2>4, <2>5 DEF Follows
  <1> HIDE DEF P
  <1>4. Nat \subseteq P
    BY <1>2, <1>3, NatSetInduction
  <1> QED BY <1>1, <1>4 DEF P

(* Where the units of two sequences are once they are joined.              *)
LEMMA ConcatIs ==
    ASSUME NEW S, NEW s \in Seq(S), NEW t \in Seq(S)
    PROVE  /\ Len(s \o t) = Len(s) + Len(t)
           /\ \A i \in 1..Len(s) : (s \o t)[i] = s[i]
           /\ \A i \in 1..Len(t) : (s \o t)[Len(s) + i] = t[i]
  OBVIOUS

(* Where the units are once the first d are gone.                          *)
LEMMA SubSeqIs ==
    ASSUME NEW S, NEW s \in Seq(S), NEW d \in 0..Len(s)
    PROVE  /\ Len(SubSeq(s, d + 1, Len(s))) = Len(s) - d
           /\ \A i \in 1..(Len(s) - d) : SubSeq(s, d + 1, Len(s))[i] = s[d + i]
  OBVIOUS

(* Each unit of u has an unknown cost or is one of the first k to arrive;  *)
(* these are in the order of arrival, each at its place from the end, or   *)
(* before it once reservations have been given back.                       *)
Placed(u, k, h) ==
    /\ h \in [1..Len(u) -> 0..k]
    /\ \A i \in 1..Len(u) : h[i] = 0 => u[i] = UnknownCost
    /\ \A i \in 1..Len(u) :
         h[i] # 0 => /\ u[i] = arrivals[h[i]]
                     /\ h[i] >= k - Len(u) + i
                     /\ ~returned => h[i] = k - Len(u) + i
    /\ \A i, j \in 1..Len(u) : i < j /\ h[i] # 0 /\ h[j] # 0 => h[i] < h[j]

(* A receipt: the units it adds are the ones that arrived with it.         *)
LEMMA PlacedReceipt ==
    ASSUME NEW u \in Seq(AnyCost), NEW k \in Nat, NEW h, Placed(u, k, h),
           NEW d \in Nat, NEW c \in AnyCost,
           \A j \in (k + 1)..(k + d) : arrivals[j] = c
    PROVE  \E g : Placed(u \o UnitsAt(d, c), k + d, g)
  <1>1. PICK t \in Seq(AnyCost) : t = UnitsAt(d, c)
    BY UnitsAtIs
  <1>2. PICK v : v = u \o t
    OBVIOUS
  <1>3. PICK n \in Nat : n = Len(u)
    OBVIOUS
  <1>4. /\ Len(v) = n + d /\ \A i \in 1..n : v[i] = u[i]
        /\ \A i \in 1..d : v[n + i] = c
    <2>1. Len(t) = d /\ \A i \in 1..d : t[i] = c
      BY <1>1, UnitsAtIs
    <2>2. /\ Len(u \o t) = Len(u) + Len(t)
          /\ \A i \in 1..Len(u) : (u \o t)[i] = u[i]
          /\ \A i \in 1..Len(t) : (u \o t)[Len(u) + i] = t[i]
      BY ConcatIs
    <2> QED BY <1>2, <1>3, <2>1, <2>2
  <1>5. PICK g : g = [i \in 1..(n + d) |-> IF i <= n THEN h[i] ELSE k + i - n]
    OBVIOUS
  <1>6. \A i \in 1..n : h[i] \in 0..k
    BY <1>3 DEF Placed
  <1>7. ASSUME NEW i \in 1..(n + d)
        PROVE  \/ i \in 1..n /\ g[i] = h[i] /\ v[i] = u[i] /\ h[i] \in 0..k
               \/ /\ i > n /\ g[i] = k + i - n /\ v[i] = c
                  /\ g[i] \in (k + 1)..(k + d)
    <2>1. CASE i <= n
      BY <1>4, <1>5, <1>6, <2>1
    <2>2. CASE ~(i <= n)
      <3>1. PICK j \in 1..d : i = n + j
        <4>1. i - n \in 1..d /\ i = n + (i - n)
          BY <2>2
        <4> QED BY <4>1
      <3>2. v[i] = c
        BY <1>4, <3>1
      <3> QED BY <1>5, <2>2, <3>1, <3>2
    <2> QED BY <2>1, <2>2
  <1>8. g \in [1..(n + d) -> 0..(k + d)]
    <2>1. \A i \in 1..(n + d) : g[i] \in 0..(k + d)
      BY <1>7
    <2> QED BY <1>5, <2>1
  <1>9. ASSUME NEW i \in 1..(n + d), g[i] = 0 PROVE v[i] = UnknownCost
    BY <1>3, <1>7, <1>9 DEF Placed
  <1>10. ASSUME NEW i \in 1..(n + d), g[i] # 0
         PROVE  /\ v[i] = arrivals[g[i]]
                /\ g[i] >= (k + d) - (n + d) + i
                /\ ~returned => g[i] = (k + d) - (n + d) + i
    <2>1. (k + d) - (n + d) + i = k - n + i /\ k + i - n = k - n + i
      OBVIOUS
    <2>2. CASE i \in 1..n /\ g[i] = h[i] /\ v[i] = u[i] /\ h[i] \in 0..k
      BY <1>3, <1>10, <2>1, <2>2 DEF Placed
    <2>3. CASE /\ i > n /\ g[i] = k + i - n /\ v[i] = c
               /\ g[i] \in (k + 1)..(k + d)
      BY <2>1, <2>3
    <2> QED BY <1>7, <2>2, <2>3
  <1>11. ASSUME NEW i \in 1..(n + d), NEW j \in 1..(n + d),
                i < j, g[i] # 0, g[j] # 0
         PROVE  g[i] < g[j]
    <2>1. CASE i > n
      BY <1>7, <1>11, <2>1
    <2>2. CASE ~(i > n) /\ j > n
      BY <1>7, <1>11, <2>2
    <2>3. CASE ~(i > n) /\ ~(j > n)
      <3>1. i \in 1..n /\ j \in 1..n /\ g[i] = h[i] /\ g[j] = h[j]
        BY <1>7, <2>3
      <3> QED BY <1>3, <1>11, <3>1 DEF Placed
    <2> QED BY <2>1, <2>2, <2>3
  <1>12. Placed(v, k + d, g)
    BY <1>4, <1>8, <1>9, <1>10, <1>11 DEF Placed
  <1> QED BY <1>1, <1>2, <1>12

(* A return: the units it adds have no known cost, and are behind those    *)
(* that were there.                                                        *)
LEMMA PlacedReturn ==
    ASSUME NEW u \in Seq(AnyCost), NEW k \in Nat, NEW h, Placed(u, k, h),
           NEW d \in Nat, returned
    PROVE  \E g : Placed(u \o UnitsAt(d, UnknownCost), k, g)
  <1>1. UnknownCost \in AnyCost
    BY DEF AnyCost
  <1>2. PICK t \in Seq(AnyCost) : t = UnitsAt(d, UnknownCost)
    BY <1>1, UnitsAtIs
  <1>3. PICK v : v = u \o t
    OBVIOUS
  <1>4. PICK n \in Nat : n = Len(u)
    OBVIOUS
  <1>5. /\ Len(v) = n + d /\ \A i \in 1..n : v[i] = u[i]
        /\ \A i \in 1..d : v[n + i] = UnknownCost
    <2>1. Len(t) = d /\ \A i \in 1..d : t[i] = UnknownCost
      BY <1>1, <1>2, UnitsAtIs
    <2>2. /\ Len(u \o t) = Len(u) + Len(t)
          /\ \A i \in 1..Len(u) : (u \o t)[i] = u[i]
          /\ \A i \in 1..Len(t) : (u \o t)[Len(u) + i] = t[i]
      BY ConcatIs
    <2> QED BY <1>3, <1>4, <2>1, <2>2
  <1>6. PICK g : g = [i \in 1..(n + d) |-> IF i <= n THEN h[i] ELSE 0]
    OBVIOUS
  <1>7. \A i \in 1..n : h[i] \in 0..k
    BY <1>4 DEF Placed
  <1>8. ASSUME NEW i \in 1..(n + d)
        PROVE  \/ i \in 1..n /\ g[i] = h[i] /\ v[i] = u[i] /\ h[i] \in 0..k
               \/ i > n /\ g[i] = 0 /\ v[i] = UnknownCost
    <2>1. CASE i <= n
      BY <1>5, <1>6, <1>7, <2>1
    <2>2. CASE ~(i <= n)
      <3>1. PICK j \in 1..d : i = n + j
        <4>1. i - n \in 1..d /\ i = n + (i - n)
          BY <2>2
        <4> QED BY <4>1
      <3> QED BY <1>5, <1>6, <2>2, <3>1
    <2> QED BY <2>1, <2>2
  <1>9. g \in [1..(n + d) -> 0..k]
    <2>1. \A i \in 1..(n + d) : g[i] \in 0..k
      BY <1>8
    <2> QED BY <1>6, <2>1
  <1>10. ASSUME NEW i \in 1..(n + d), g[i] = 0 PROVE v[i] = UnknownCost
    BY <1>4, <1>8, <1>10 DEF Placed
  <1>11. ASSUME NEW i \in 1..(n + d), g[i] # 0
         PROVE  v[i] = arrivals[g[i]] /\ g[i] >= k - (n + d) + i
    <2>1. i \in 1..n /\ g[i] = h[i] /\ v[i] = u[i] /\ h[i] \in 0..k
      BY <1>8, <1>11
    <2> QED BY <1>4, <1>11, <2>1 DEF Placed
  <1>12. ASSUME NEW i \in 1..(n + d), NEW j \in 1..(n + d),
                i < j, g[i] # 0, g[j] # 0
         PROVE  g[i] < g[j]
    <2>1. i \in 1..n /\ j \in 1..n /\ g[i] = h[i] /\ g[j] = h[j]
      BY <1>8, <1>12
    <2> QED BY <1>4, <1>12, <2>1 DEF Placed
  <1>13. Placed(v, k, g)
    BY <1>5, <1>9, <1>10, <1>11, <1>12 DEF Placed
  <1> QED BY <1>2, <1>3, <1>13

(* An issue: the units left are closer to the front, as far from the end.  *)
LEMMA PlacedIssue ==
    ASSUME NEW u \in Seq(AnyCost), NEW k \in Nat, NEW h, Placed(u, k, h),
           NEW d \in 0..Len(u)
    PROVE  \E g : Placed(SubSeq(u, d + 1, Len(u)), k, g)
  <1>1. PICK n \in Nat : n = Len(u)
    OBVIOUS
  <1>2. PICK v : v = SubSeq(u, d + 1, Len(u))
    OBVIOUS
  <1>3. Len(v) = n - d /\ \A i \in 1..(n - d) : v[i] = u[d + i]
    BY <1>1, <1>2, SubSeqIs
  <1>4. PICK g : g = [i \in 1..(n - d) |-> h[d + i]]
    OBVIOUS
  <1>5. ASSUME NEW i \in 1..(n - d)
        PROVE  d + i \in 1..n /\ g[i] = h[d + i] /\ v[i] = u[d + i]
    BY <1>1, <1>3, <1>4
  <1>6. g \in [1..(n - d) -> 0..k]
    <2>1. \A i \in 1..n : h[i] \in 0..k
      BY <1>1 DEF Placed
    <2>2. \A i \in 1..(n - d) : h[d + i] \in 0..k
      BY <1>5, <2>1
    <2> QED BY <1>4, <2>2
  <1>7. ASSUME NEW i \in 1..(n - d), g[i] = 0 PROVE v[i] = UnknownCost
    BY <1>1, <1>5, <1>7 DEF Placed
  <1>8. ASSUME NEW i \in 1..(n - d), g[i] # 0
        PROVE  /\ v[i] = arrivals[g[i]]
               /\ g[i] >= k - (n - d) + i
               /\ ~returned => g[i] = k - (n - d) + i
    <2>1. k - n + (d + i) = k - (n - d) + i
      BY <1>1
    <2> QED BY <1>1, <1>5, <1>8, <2>1 DEF Placed
  <1>9. ASSUME NEW i \in 1..(n - d), NEW j \in 1..(n - d),
               i < j, g[i] # 0, g[j] # 0
        PROVE  g[i] < g[j]
    <2>1. d + i < d + j
      BY <1>1, <1>9
    <2> QED BY <1>1, <1>5, <1>9, <2>1 DEF Placed
  <1>10. Placed(v, k, g)
    BY <1>3, <1>6, <1>7, <1>8, <1>9 DEF Placed
  <1> QED BY <1>2, <1>10

(* The units of a replay are placed at every row.                          *)
LEMMA ReplayPlaces ==
    ASSUME HistoryInv, NEW a, CountOf(ledger, arrivals, a),
           CostsOf(ledger, arrivals, a)
    PROVE  \A n \in 0..Len(ledger) :
             replay[n].ok => \E h : Placed(replay[n].units, a[n], h)
  <1> DEFINE P == {n \in Nat : n <= Len(ledger) /\ replay[n].ok =>
                                 \E h : Placed(replay[n].units, a[n], h)}
  <1>1. Len(ledger) \in Nat /\ Len(arrivals) \in Nat
    BY HistoryIs
  <1>2. \A n \in 0..Len(ledger) : a[n] \in Nat
    BY <1>1 DEF CountOf
  <1>3. 0 \in P
    <2>1. PICK u \in Seq(AnyCost) : u = Start.units
      BY StartIs DEF Rebuilt
    <2>2. \A i \in 1..Len(u) : u[i] = UnknownCost
      BY <2>1, StartIs
    <2>3. PICK h : h = [i \in 1..Len(u) |-> 0]
      OBVIOUS
    <2>4. h \in [1..Len(u) -> 0..a[0]] /\ \A i \in 1..Len(u) : h[i] = 0
      BY <1>1, <1>2, <2>3
    <2>5. Placed(u, a[0], h)
      BY <2>2, <2>4 DEF Placed
    <2> QED BY <2>1, <2>5, ReplayIs
  <1>4. ASSUME NEW n \in Nat, n \in P PROVE n + 1 \in P
    <2> SUFFICES ASSUME n + 1 <= Len(ledger), replay[n + 1].ok
                 PROVE  \E h : Placed(replay[n + 1].units, a[n + 1], h)
      OBVIOUS
    <2>1. /\ n + 1 \in 1..Len(ledger) /\ (n + 1) - 1 = n /\ n <= Len(ledger)
          /\ n \in 0..Len(ledger)
      BY <1>1
    <2>2. PICK m \in Movement : m = ledger[n + 1]
      BY <2>1, HistoryIs
    <2>3. /\ m.quantity \in Nat /\ m.cost \in AnyCost
          /\ Signed(m, returned)
      BY <2>1, <2>2, HistoryIs DEF Movement, AnyCost
    <2>4. /\ replay[n].ok /\ replay[n] \in Rebuilt
          /\ n + 1 \notin historicalMovements => replay[n + 1] = replay[n]
          /\ n + 1 \in historicalMovements =>
               Follows(replay[n], m, replay[n + 1])
      BY <2>1, <2>2, ReplayNext
    <2>5. PICK u \in Seq(AnyCost) : u = replay[n].units
      BY <2>4 DEF Rebuilt
    <2>6. PICK k \in Nat : k = a[n]
      BY <1>2, <2>1
    <2>7. PICK h : Placed(u, k, h)
      BY <1>4, <2>1, <2>4, <2>5, <2>6
    <2>8. a[n + 1] = k + Brings(m)
      BY <2>1, <2>2, <2>6 DEF CountOf
    <2>9. CASE n + 1 \notin historicalMovements
      <3>1. m.ref = "ORDER_RESERVATION"
        BY <2>1, <2>2, <2>9 DEF historicalMovements
      <3>2. a[n + 1] = k
        BY <2>8, <3>1 DEF Brings
      <3> QED BY <2>4, <2>5, <2>7, <2>9, <3>2
    <2>10. CASE n + 1 \in historicalMovements /\ m.ref \in Inbound
      <3>1. /\ movementQuantityDelta(m) = m.quantity /\ m.quantity > 0
        BY <2>3, <2>10 DEF Signed, ByType
      <3>2. replay[n + 1].units = u \o UnitsAt(m.quantity, m.cost)
        BY <2>4, <2>5, <2>10, <3>1 DEF Follows
      <3>3. CASE m.ref = "RECEIPT"
        <4>1. a[n + 1] = k + m.quantity
          BY <2>8, <3>3 DEF Brings
        <4>2. \A j \in (k + 1)..(k + m.quantity) : arrivals[j] = m.cost
          BY <2>1, <2>2, <2>6, <4>1 DEF CostsOf
        <4>3. \E g : Placed(u \o UnitsAt(m.quantity, m.cost),
                           k + m.quantity, g)
          BY <2>3, <2>7, <4>2, PlacedReceipt
        <4> QED BY <3>2, <4>1, <4>3
      <3>4. CASE m.ref # "RECEIPT"
        <4>1. m.ref = "ORDER_RESERVATION_RELEASE"
          BY <2>10, <3>4 DEF Inbound
        <4>2. returned /\ m.cost = UnknownCost
          BY <2>3, <4>1 DEF Signed
        <4>3. a[n + 1] = k
          BY <2>8, <3>4 DEF Brings
        <4> QED BY <2>3, <2>7, <3>2, <4>2, <4>3, PlacedReturn
      <3> QED BY <3>3, <3>4
    <2>11. CASE n + 1 \in historicalMovements /\ m.ref \notin Inbound
      <3>1. movementQuantityDelta(m) = -m.quantity /\ m.quantity > 0
        BY <2>3, <2>11 DEF Signed, ByType
      <3>2. a[n + 1] = k
        BY <2>8, <2>11 DEF Brings, Inbound
      <3>3. PICK d \in Nat : d = m.quantity
        BY <2>3
      <3>4. ~(-d > 0) /\ -d < 0 /\ -(-d) = d /\ 1 - (-d) = d + 1
        BY <3>1, <3>3
      <3>5. /\ d <= Len(u)
            /\ replay[n + 1].units = SubSeq(u, d + 1, Len(u))
        BY <2>4, <2>5, <2>11, <3>1, <3>3, <3>4 DEF Follows
      <3>6. d \in 0..Len(u)
        BY <3>5
      <3> QED BY <2>7, <3>2, <3>5, <3>6, PlacedIssue
    <2> QED BY <2>9, <2>10, <2>11
  <1> HIDE DEF P
  <1>5. Nat \subseteq P
    BY <1>3, <1>4, NatSetInduction
  <1> QED BY <1>1, <1>5 DEF P

(* Units that are placed have no cost more often than the newest have it.  *)
LEMMA PlacedAreAmongNewest ==
    ASSUME NEW u \in Seq(AnyCost), NEW h, Len(arrivals) \in Nat,
           Placed(u, Len(arrivals), h), NEW c \in UnitCosts
    PROVE  Cardinality(CostedAt(u, c))
             <= Cardinality(CostedAt(Newest(arrivals, Len(u)), c))
  <1>1. PICK A \in Nat : A = Len(arrivals)
    OBVIOUS
  <1>2. PICK q \in Nat : q = Len(u)
    OBVIOUS
  <1>3. PICK S : S = CostedAt(u, c)
    OBVIOUS
  <1>4. PICK T : T = CostedAt(Newest(arrivals, Len(u)), c)
    OBVIOUS
  <1>5. S = {i \in 1..q : u[i] = c}
    BY <1>2, <1>3 DEF CostedAt
  <1>6. T = {i \in 1..q : arrivals[A - q + i] = c}
    BY <1>1, <1>2, <1>4 DEF CostedAt, Newest
  <1>7. c # UnknownCost
    BY HistoryConstants
  <1>8. ASSUME NEW i \in S
        PROVE  /\ i \in 1..q /\ h[i] \in 1..A /\ u[i] = c
               /\ u[i] = arrivals[h[i]] /\ h[i] >= A - q + i
    <2>1. i \in 1..q /\ u[i] = c
      BY <1>5
    <2>2. h[i] \in 0..A /\ h[i] # 0
      BY <1>1, <1>2, <1>7, <2>1 DEF Placed
    <2> QED BY <1>1, <1>2, <2>1, <2>2 DEF Placed
  <1>9. PICK f : f = [i \in S |-> h[i] - (A - q)]
    OBVIOUS
  <1>10. f \in [S -> T]
    <2>1. ASSUME NEW i \in S PROVE h[i] - (A - q) \in T
      <3>1. PICK j \in 1..q : j = h[i] - (A - q)
        BY <1>8
      <3>2. A - q + j = h[i]
        BY <1>8, <3>1
      <3>3. arrivals[A - q + j] = c
        BY <1>8, <3>2
      <3> QED BY <1>6, <3>1, <3>3
    <2> QED BY <1>9, <2>1
  <1>11. ASSUME NEW i \in S, NEW j \in S, f[i] = f[j] PROVE i = j
    <2>1. h[i] = h[j]
      BY <1>8, <1>9, <1>11
    <2>2. /\ i \in 1..Len(u) /\ j \in 1..Len(u) /\ h[i] # 0 /\ h[j] # 0
          /\ ~(h[i] < h[j]) /\ ~(h[j] < h[i])
      BY <1>2, <1>8, <2>1
    <2>3. ~(i < j) /\ ~(j < i)
      BY <2>2 DEF Placed
    <2> QED BY <1>2, <2>2, <2>3
  <1>12. f \in Injection(S, T)
    BY <1>10, <1>11 DEF Injection, IsInjective
  <1>13. IsFiniteSet(T)
    <2>1. IsFiniteSet(1..q)
      BY FS_Interval
    <2>2. T \subseteq 1..q
      BY <1>6
    <2> QED BY <2>1, <2>2, FS_Subset
  <1>14. Cardinality(S) <= Cardinality(T)
    BY <1>12, <1>13, FS_Injection
  <1> QED BY <1>3, <1>4, <1>14

(* The invariant makes a reconstruction faithful.                          *)
LEMMA FaithfulByInv == HistoryInv => ReplayIsFaithful
  <1> SUFFICES ASSUME HistoryInv PROVE ReplayIsFaithful
    OBVIOUS
  <1>1. Len(ledger) \in Nat /\ currentQuantity \in Nat /\ UnknownCost \in AnyCost
    BY HistoryIs, QuantityIs DEF AnyCost
  <1>2. Replayed \in Rebuilt
    BY <1>1, ReplayRebuilds DEF Replayed
  <1>3. /\ UnitsAt(currentQuantity, UnknownCost) \in Seq(AnyCost)
        /\ Len(UnitsAt(currentQuantity, UnknownCost)) = currentQuantity
        /\ \A i \in 1..currentQuantity :
             UnitsAt(currentQuantity, UnknownCost)[i] = UnknownCost
    BY <1>1, UnitsAtIs
  <1>4. EveryUnitLayered
    BY <1>2, <1>3
    DEF EveryUnitLayered, reconstructHistoricalFifo, reconciled, Rebuilt
  <1>5. ~reconciled => Known(reconstructHistoricalFifo) = {}
    <2> SUFFICES ASSUME ~reconciled
                 PROVE  Known(reconstructHistoricalFifo) = {}
      OBVIOUS
    <2>1. reconstructHistoricalFifo = UnitsAt(currentQuantity, UnknownCost)
      BY DEF reconstructHistoricalFifo
    <2> QED BY <1>3, <2>1 DEF Known
  <1>6. reconciled => /\ reconstructHistoricalFifo = replay[Len(ledger)].units
                      /\ replay[Len(ledger)].units \in Seq(AnyCost)
                      /\ Len(replay[Len(ledger)].units) = currentQuantity
                      /\ replay[Len(ledger)].quantity = currentQuantity
                      /\ replay[Len(ledger)].ok
    BY <1>2 DEF reconstructHistoricalFifo, reconciled, Replayed, Rebuilt
  <1>7. PICK u \in Seq(AnyCost) : u = reconstructHistoricalFifo
    BY <1>3, <1>6 DEF reconstructHistoricalFifo
  <1>8. Len(u) = currentQuantity
    BY <1>4, <1>7 DEF EveryUnitLayered
  <1>9. \E h : Placed(u, Len(arrivals), h)
    <2>1. Len(arrivals) \in Nat
      BY HistoryIs
    <2>2. CASE reconciled
      <3>1. PICK a : CountOf(ledger, arrivals, a) /\ CostsOf(ledger, arrivals, a)
        BY DEF HistoryInv, Kept
      <3>2. a[Len(ledger)] = Len(arrivals)
        BY <3>1 DEF CountOf
      <3>3. Len(ledger) \in 0..Len(ledger)
        BY <1>1
      <3> QED BY <1>6, <1>7, <2>2, <3>1, <3>2, <3>3, ReplayPlaces
    <2>3. CASE ~reconciled
      <3>1. \A i \in 1..Len(u) : u[i] = UnknownCost
        BY <1>5, <1>7, <2>3 DEF Known
      <3>2. PICK h : h = [i \in 1..Len(u) |-> 0]
        OBVIOUS
      <3>3. h \in [1..Len(u) -> 0..Len(arrivals)] /\ \A i \in 1..Len(u) : h[i] = 0
        BY <2>1, <3>2
      <3>4. Placed(u, Len(arrivals), h)
        BY <3>1, <3>3 DEF Placed
      <3> QED BY <3>4
    <2> QED BY <2>2, <2>3
  <1>10. ReconstructedIsTrue
    <2>1. PICK h : Placed(u, Len(arrivals), h)
      BY <1>9
    <2>2. Len(arrivals) \in Nat
      BY HistoryIs
    <2>3. \A c \in UnitCosts :
            Cardinality(CostedAt(u, c))
              <= Cardinality(CostedAt(Newest(arrivals, currentQuantity), c))
      BY <1>8, <2>1, <2>2, PlacedAreAmongNewest
    <2>4. ASSUME ~returned, NEW i \in Known(u)
          PROVE  u[i] = Newest(arrivals, currentQuantity)[i]
      <3>1. i \in 1..currentQuantity /\ i \in 1..Len(u) /\ u[i] # UnknownCost
        BY <1>8 DEF Known
      <3>2. h[i] # 0
        BY <2>1, <3>1 DEF Placed
      <3>3. u[i] = arrivals[Len(arrivals) - currentQuantity + i]
        BY <1>8, <2>1, <2>4, <3>1, <3>2 DEF Placed
      <3> QED BY <3>1, <3>3 DEF Newest
    <2> QED BY <1>7, <2>3, <2>4 DEF ReconstructedIsTrue
  <1>11. GapIsNoticed
    <2> SUFFICES ASSUME untold, historicalMovements = 1..Len(ledger), reconciled
                 PROVE  FALSE
      BY <1>5 DEF GapIsNoticed
    <2>1. PICK x : AddsUp(ledger, balance, untold, x)
      BY DEF HistoryInv, Kept
    <2>2. x[Len(ledger)] # balance
      BY <2>1 DEF AddsUp
    <2>3. Len(ledger) > 0
      BY <1>1, <2>1, <2>2 DEF AddsUp
    <2>4. Len(ledger) \in 0..Len(ledger) /\ currentQuantity = balance
      BY <1>1, QuantityIs
    <2>5. replay[Len(ledger)].quantity = x[Len(ledger)]
      BY <1>6, <2>1, <2>3, <2>4, ReplayAddsUp
    <2> QED BY <1>6, <2>2, <2>4, <2>5
  <1> QED BY <1>4, <1>10, <1>11 DEF ReplayIsFaithful, HistoryInv
-----------------------------------------------------------------------------
(* The invariant is kept by every movement.                                *)
LEMMA InvIsKept ==
    /\ HistoryInv <=> /\ Kept(ledger, arrivals, balance, untold, returned)
                      /\ untold \in BOOLEAN /\ returned \in BOOLEAN
    /\ HistoryInv' <=> /\ Kept(ledger', arrivals', balance', untold', returned')
                       /\ untold' \in BOOLEAN /\ returned' \in BOOLEAN
  BY DEF HistoryInv, HistoryTypeOK, Kept, TypedLedger, AnyCost

(* A reservation that is committed or given back keeps its units.          *)
LEMMA RelabelKeeps ==
    ASSUME NEW l, NEW arr, NEW b, NEW edited, NEW ret,
           Kept(l, arr, b, edited, ret),
           NEW i \in 1..Len(l), l[i].ref = "ORDER_RESERVATION",
           NEW r \in {"ORDER_RESERVATION_COMMITTED", "ORDER_RESERVATION_RELEASED"}
    PROVE  /\ Kept([l EXCEPT ![i].ref = r], arr, b, edited, ret)
           /\ Len([l EXCEPT ![i].ref = r]) = Len(l)
  <1>1. l \in Seq(Movement) /\ Len(l) \in Nat /\ l[i] \in Movement
    BY DEF Kept, TypedLedger
  <1>2. PICK k : k = [l EXCEPT ![i].ref = r]
    OBVIOUS
  <1>3. k \in Seq(Movement) /\ Len(k) = Len(l)
    <2>1. [l[i] EXCEPT !.ref = r] \in Movement
      BY <1>1 DEF Movement, Outbound
    <2> QED BY <1>1, <1>2, <2>1
  <1>4. \A j \in 1..Len(l) : /\ k[j].before = l[j].before
                             /\ k[j].after = l[j].after
                             /\ k[j].cost = l[j].cost
                             /\ k[j].quantity = l[j].quantity
                             /\ k[j].ref = IF j = i THEN r ELSE l[j].ref
    BY <1>1, <1>2 DEF Movement
  <1>5. ASSUME NEW j \in 1..Len(l)
        PROVE  /\ k[j].ref \in Inbound <=> l[j].ref \in Inbound
               /\ k[j].ref = "RECEIPT" <=> l[j].ref = "RECEIPT"
               /\ k[j].ref = "ORDER_RESERVATION_RELEASE"
                    <=> l[j].ref = "ORDER_RESERVATION_RELEASE"
    BY <1>4 DEF Inbound
  <1>6. \A j \in 1..Len(l) : /\ ByType(k[j]) = ByType(l[j])
                             /\ Brings(k[j]) = Brings(l[j])
                             /\ movementQuantityDelta(k[j])
                                  = movementQuantityDelta(l[j])
    BY <1>4, <1>5 DEF ByType, Brings, movementQuantityDelta
  <1>7. SignsOf(k, ret)
    <2>1. SignsOf(l, ret)
      BY DEF Kept
    <2> QED BY <1>3, <1>4, <1>5, <1>6, <2>1 DEF SignsOf, Signed
  <1>8. PICK x : AddsUp(l, b, edited, x)
    BY DEF Kept
  <1>9. AddsUp(k, b, edited, x)
    <2>1. Len(l) > 0 /\ k[1].before = l[1].before
      BY <1>1, <1>4
    <2> QED BY <1>3, <1>6, <1>8, <2>1 DEF AddsUp
  <1>10. PICK a : CountOf(l, arr, a) /\ CostsOf(l, arr, a)
    BY DEF Kept
  <1>11. CountOf(k, arr, a) /\ CostsOf(k, arr, a)
    BY <1>3, <1>4, <1>6, <1>10 DEF CountOf, CostsOf
  <1>12. Kept(k, arr, b, edited, ret)
    BY <1>3, <1>7, <1>9, <1>11 DEF Kept, TypedLedger
  <1> QED BY <1>2, <1>3, <1>12

(* What a movement brings comes after all other units.                     *)
Arrive(arr, m) == arr \o UnitsAt(Brings(m), m.cost)

LEMMA ArriveIs ==
    ASSUME NEW arr \in Seq(AnyCost), NEW m \in Movement
    PROVE  /\ Arrive(arr, m) \in Seq(AnyCost) /\ Brings(m) \in Nat
           /\ Len(Arrive(arr, m)) = Len(arr) + Brings(m)
           /\ \A j \in 1..Len(arr) : Arrive(arr, m)[j] = arr[j]
           /\ \A j \in (Len(arr) + 1)..(Len(arr) + Brings(m)) :
                Arrive(arr, m)[j] = m.cost
           /\ m.ref # "RECEIPT" => Arrive(arr, m) = arr
  <1>1. m.quantity \in Nat /\ m.cost \in AnyCost
    BY DEF Movement, AnyCost
  <1>2. PICK d \in Nat : d = Brings(m)
    BY <1>1 DEF Brings
  <1>3. PICK t \in Seq(AnyCost) : t = UnitsAt(d, m.cost)
    BY <1>1, UnitsAtIs
  <1>4. Len(t) = d /\ \A i \in 1..d : t[i] = m.cost
    BY <1>1, <1>3, UnitsAtIs
  <1>5. Arrive(arr, m) = arr \o t
    BY <1>2, <1>3 DEF Arrive
  <1>6. /\ Len(arr \o t) = Len(arr) + Len(t)
        /\ \A i \in 1..Len(arr) : (arr \o t)[i] = arr[i]
        /\ \A i \in 1..Len(t) : (arr \o t)[Len(arr) + i] = t[i]
    BY ConcatIs
  <1>7. Len(arr) \in Nat
    OBVIOUS
  <1>8. ASSUME NEW j \in (Len(arr) + 1)..(Len(arr) + d)
        PROVE  (arr \o t)[j] = m.cost
    <2>1. PICK i \in 1..d : i = j - Len(arr)
      BY <1>7
    <2>2. j = Len(arr) + i
      BY <1>7, <2>1
    <2> QED BY <1>4, <1>6, <2>2
  <1>9. arr \o t \in Seq(AnyCost)
    OBVIOUS
  <1>10. m.ref # "RECEIPT" => arr \o t = arr
    <2>1. m.ref # "RECEIPT" => d = 0
      BY <1>2 DEF Brings
    <2>2. d = 0 => t = <<>>
      BY <1>4
    <2> QED BY <2>1, <2>2
  <1> QED BY <1>2, <1>4, <1>5, <1>6, <1>8, <1>9, <1>10

(* A row's balances, where it has them, are the balance and what the row   *)
(* makes of it.                                                            *)
Written(m, b) ==
    \/ m.before = Null
    \/ m.before = b /\ m.after = b + ByType(m)

(* A new movement adds to what the rows add up to and to what arrived.     *)
LEMMA AppendKeeps ==
    ASSUME NEW l, NEW arr, NEW b, NEW edited, NEW ret, NEW ret2,
           Kept(l, arr, b, edited, ret), ret => ret2,
           NEW m \in Movement, Written(m, b), Signed(m, ret2),
           b + ByType(m) \in Nat
    PROVE  Kept(Append(l, m), Arrive(arr, m), b + ByType(m), edited, ret2)
  <1>1. PICK N \in Nat : N = Len(l)
    BY DEF Kept, TypedLedger
  <1>2. PICK k : k = Append(l, m)
    OBVIOUS
  <1>3. /\ k \in Seq(Movement) /\ Len(k) = N + 1 /\ k[N + 1] = m
        /\ \A i \in 1..N : k[i] = l[i]
    BY <1>1, <1>2 DEF Kept, TypedLedger
  <1>4. PICK e : e = Arrive(arr, m)
    OBVIOUS
  <1>5. PICK A \in Nat : A = Len(arr)
    BY DEF Kept, TypedLedger
  <1>6. PICK d \in Nat : d = Brings(m)
    BY ArriveIs DEF Kept, TypedLedger
  <1>7. /\ e \in Seq(AnyCost) /\ Len(e) = A + d
        /\ \A j \in 1..A : e[j] = arr[j]
        /\ \A j \in (A + 1)..(A + d) : e[j] = m.cost
    <2>1. arr \in Seq(AnyCost)
      BY DEF Kept, TypedLedger
    <2> QED BY <1>4, <1>5, <1>6, <2>1, ArriveIs
  <1>8. b \in Nat /\ ByType(m) \in Int
    BY DEF Kept, TypedLedger, Movement, ByType
  <1>9. SignsOf(k, ret2)
    <2> SUFFICES ASSUME NEW i \in 1..(N + 1) PROVE Signed(k[i], ret2)
      BY <1>3 DEF SignsOf
    <2>1. CASE i = N + 1
      BY <1>3, <2>1
    <2>2. CASE i # N + 1
      <3>1. i \in 1..N
        BY <2>2
      <3> QED BY <1>1, <1>3, <3>1 DEF Kept, SignsOf, Signed
    <2> QED BY <2>1, <2>2
  <1>10. \E y : AddsUp(k, b + ByType(m), edited, y)
    <2>1. PICK x : AddsUp(l, b, edited, x)
      BY DEF Kept
    <2>2. /\ x \in [0..N -> Int] /\ (N = 0 => x[0] = b)
          /\ (N > 0 /\ l[1].before # Null => x[0] = l[1].before)
          /\ \A i \in 1..N : x[i] = x[i - 1] + ByType(l[i])
          /\ edited <=> x[N] # b
      BY <1>1, <2>1 DEF AddsUp
    <2>3. PICK t \in Int : t = x[N] + ByType(m)
      BY <1>8, <2>2
    <2>4. PICK y : y = [i \in 0..(N + 1) |-> IF i <= N THEN x[i] ELSE t]
      OBVIOUS
    <2>5. /\ \A i \in 0..N : y[i] = x[i] /\ x[i] \in Int
          /\ y[N + 1] = t /\ y \in [0..(N + 1) -> Int]
      <3>1. ASSUME NEW i \in 0..N PROVE y[i] = x[i] /\ x[i] \in Int
        <4>1. i \in 0..(N + 1) /\ i <= N
          OBVIOUS
        <4> QED BY <2>2, <2>4, <4>1
      <3>2. N + 1 \in 0..(N + 1) /\ ~(N + 1 <= N)
        OBVIOUS
      <3>3. y[N + 1] = t
        BY <2>4, <3>2
      <3>4. \A i \in 0..(N + 1) : (IF i <= N THEN x[i] ELSE t) \in Int
        BY <2>2
      <3> QED BY <2>4, <3>1, <3>3, <3>4
    <2>6. k[1].before # Null => y[0] = k[1].before
      <3>1. y[0] = x[0]
        BY <2>5
      <3>2. CASE N = 0
        BY <1>3, <2>2, <3>1, <3>2 DEF Written
      <3>3. CASE N # 0
        <4>1. N > 0 /\ 1 \in 1..N
          BY <3>3
        <4>2. k[1] = l[1]
          BY <1>3, <4>1
        <4> QED BY <2>2, <3>1, <4>1, <4>2
      <3> QED BY <3>2, <3>3
    <2>7. ASSUME NEW i \in 1..(N + 1) PROVE y[i] = y[i - 1] + ByType(k[i])
      <3>1. CASE i = N + 1
        <4>1. i - 1 = N /\ N \in 0..N
          BY <3>1
        <4> QED BY <1>3, <2>3, <2>5, <3>1, <4>1
      <3>2. CASE i # N + 1
        <4>1. i \in 1..N /\ i \in 0..N /\ i - 1 \in 0..N
          BY <3>2
        <4> QED BY <1>3, <2>2, <2>5, <4>1
      <3> QED BY <3>1, <3>2
    <2>8. edited <=> y[N + 1] # b + ByType(m)
      <3>1. x[N] \in Int
        BY <2>5
      <3>2. (x[N] # b) <=> (t # b + ByType(m))
        BY <1>8, <2>3, <3>1
      <3> QED BY <2>2, <2>5, <3>2
    <2>9. Len(k) # 0
      BY <1>3
    <2>10. AddsUp(k, b + ByType(m), edited, y)
      BY <1>3, <2>5, <2>6, <2>7, <2>8, <2>9 DEF AddsUp
    <2> QED BY <2>10
  <1>11. PICK a : CountOf(l, arr, a) /\ CostsOf(l, arr, a)
    BY DEF Kept
  <1>12. PICK c : c = [i \in 0..(N + 1) |-> IF i <= N THEN a[i] ELSE A + d]
    OBVIOUS
  <1>13. /\ \A i \in 0..N : c[i] = a[i] /\ a[i] \in 0..A
         /\ c[N + 1] = A + d /\ a[N] = A
    <2>1. a \in [0..N -> 0..A] /\ a[N] = A
      BY <1>1, <1>5, <1>11 DEF CountOf
    <2>2. \A i \in 0..N : a[i] \in 0..A
      BY <2>1
    <2>3. ASSUME NEW i \in 0..N PROVE c[i] = a[i]
      <3>1. i \in 0..(N + 1) /\ i <= N
        OBVIOUS
      <3> QED BY <1>12, <3>1
    <2>4. c[N + 1] = A + d
      <3>1. N + 1 \in 0..(N + 1) /\ ~(N + 1 <= N)
        OBVIOUS
      <3> QED BY <1>12, <3>1
    <2> QED BY <2>1, <2>2, <2>3, <2>4
  <1>14. CountOf(k, e, c)
    <2>1. c \in [0..(N + 1) -> 0..(A + d)]
      <3>1. \A i \in 0..(N + 1) : (IF i <= N THEN a[i] ELSE A + d) \in 0..(A + d)
        BY <1>13
      <3> QED BY <1>12, <3>1
    <2>2. ASSUME NEW i \in 1..(N + 1) PROVE c[i] = c[i - 1] + Brings(k[i])
      <3>1. CASE i = N + 1
        <4>1. c[i - 1] = A /\ c[i] = A + d
          BY <1>13, <3>1
        <4> QED BY <1>3, <1>6, <3>1, <4>1
      <3>2. CASE i # N + 1
        <4>1. i \in 1..N /\ i \in 0..N /\ i - 1 \in 0..N
          BY <3>2
        <4>2. c[i] = a[i] /\ c[i - 1] = a[i - 1] /\ k[i] = l[i]
          BY <1>3, <1>13, <4>1
        <4>3. a[i] = a[i - 1] + Brings(l[i])
          BY <1>1, <1>11, <4>1 DEF CountOf
        <4> QED BY <4>2, <4>3
      <3> QED BY <3>1, <3>2
    <2> QED BY <1>3, <1>7, <1>13, <2>1, <2>2 DEF CountOf
  <1>15. CostsOf(k, e, c)
    <2>1. ASSUME NEW i \in 1..(N + 1), NEW j \in (c[i - 1] + 1)..c[i]
          PROVE  e[j] = k[i].cost
      <3>1. CASE i = N + 1
        <4>1. c[i - 1] = A /\ c[i] = A + d
          BY <1>13, <3>1
        <4>2. j \in (A + 1)..(A + d)
          BY <2>1, <4>1
        <4> QED BY <1>3, <1>7, <3>1, <4>2
      <3>2. CASE i # N + 1
        <4>1. i \in 1..N /\ i \in 0..N /\ i - 1 \in 0..N
          BY <3>2
        <4>2. /\ c[i] = a[i] /\ c[i - 1] = a[i - 1] /\ k[i] = l[i]
              /\ a[i] \in 0..A /\ a[i - 1] \in 0..A
          BY <1>3, <1>13, <4>1
        <4>3. j \in (a[i - 1] + 1)..a[i] /\ j \in 1..A
          BY <2>1, <4>2
        <4>4. arr[j] = l[i].cost
          BY <1>1, <1>11, <4>1, <4>3 DEF CostsOf
        <4> QED BY <1>7, <4>2, <4>3, <4>4
      <3> QED BY <3>1, <3>2
    <2> QED BY <1>3, <2>1 DEF CostsOf
  <1>16. Kept(k, e, b + ByType(m), edited, ret2)
    BY <1>3, <1>7, <1>9, <1>10, <1>14, <1>15 DEF Kept, TypedLedger
  <1> QED BY <1>2, <1>4, <1>16

(* A movement of its type's units keeps the invariant, whether its         *)
(* balances are written or not.                                            *)
LEMMA RecordKeeps ==
    ASSUME HistoryInv, NEW m \in Movement, Written(m, balance),
           Signed(m, returned), balance + ByType(m) >= 0,
           ledger' = Append(ledger, m), balance' = balance + ByType(m),
           arrivals' = Arrive(arrivals, m), UNCHANGED <<untold, returned>>
    PROVE  HistoryInv'
  <1>1. Kept(ledger, arrivals, balance, untold, returned)
    BY InvIsKept
  <1>2. returned => returned
    OBVIOUS
  <1>3. balance + ByType(m) \in Nat
    BY HistoryIs DEF ByType, Movement
  <1>4. Kept(Append(ledger, m), Arrive(arrivals, m), balance + ByType(m),
             untold, returned)
    BY ONLY <1>1, <1>2, <1>3, m \in Movement, Written(m, balance),
            Signed(m, returned), AppendKeeps
  <1>5. untold \in BOOLEAN /\ returned \in BOOLEAN
    BY InvIsKept
  <1> QED BY <1>4, <1>5, InvIsKept

(* A row with its balances written, and one without.                       *)
Row(r, n, c, before, after) ==
    [ref |-> r, quantity |-> n, before |-> before, after |-> after, cost |-> c]
SignOf(r, n) == IF r \in Inbound THEN n ELSE -n

LEMMA RowIs ==
    ASSUME HistoryInv, NEW r \in {"RECEIPT", "ISSUE", "ORDER_RESERVATION"},
           NEW n \in UnitsMoved, NEW c \in AnyCost, balance + SignOf(r, n) >= 0,
           NEW m, \/ m = Row(r, n, c, balance, balance + SignOf(r, n))
                  \/ m = Row(r, n, c, Null, Null)
    PROVE  /\ m \in Movement /\ Written(m, balance) /\ Signed(m, returned)
           /\ ByType(m) = SignOf(r, n)
           /\ Arrive(arrivals, m) = IF r = "RECEIPT"
                                    THEN arrivals \o UnitsAt(n, c) ELSE arrivals
  <1>1. balance \in Nat /\ n \in Nat /\ n > 0
    BY HistoryIs, HistoryConstants
  <1>2. SignOf(r, n) \in Int /\ balance + SignOf(r, n) \in Nat
    BY <1>1 DEF SignOf
  <1>3. m.ref = r /\ m.quantity = n /\ m.cost = c
    BY DEF Row
  <1>4. \/ m.before = balance /\ m.after = balance + SignOf(r, n)
        \/ m.before = Null /\ m.after = Null
    BY DEF Row
  <1>5. r \in Inbound \cup Outbound
    BY DEF Inbound, Outbound
  <1>6. m \in Movement
    BY <1>1, <1>2, <1>5 DEF Row, Movement, AnyCost
  <1>7. ByType(m) = SignOf(r, n)
    BY <1>3 DEF ByType, SignOf
  <1>8. Written(m, balance)
    BY <1>4, <1>7 DEF Written
  <1>9. movementQuantityDelta(m) = SignOf(r, n)
    BY <1>1, <1>2, <1>3, <1>4 DEF movementQuantityDelta, SignOf, Null
  <1>10. Signed(m, returned)
    BY <1>1, <1>3, <1>7, <1>9 DEF Signed
  <1>11. r = "RECEIPT" => Arrive(arrivals, m) = arrivals \o UnitsAt(n, c)
    BY <1>3 DEF Arrive, Brings
  <1>12. r # "RECEIPT" => Arrive(arrivals, m) = arrivals
    BY <1>3, <1>6, ArriveIs, HistoryIs
  <1> QED BY <1>6, <1>7, <1>8, <1>10, <1>11, <1>12

(* The invariant holds while the ledger is empty.                          *)
LEMMA HistoryInvInit == HistoryInit => HistoryInv
  <1> SUFFICES ASSUME HistoryInit PROVE HistoryInv
    OBVIOUS
  <1>1. balance \in Nat /\ ledger = <<>> /\ untold = FALSE /\ returned = FALSE
    BY HistoryConstants DEF HistoryInit
  <1>2. UnknownCost \in AnyCost
    BY DEF AnyCost
  <1>3. arrivals \in Seq(AnyCost) /\ Len(arrivals) = balance
    BY <1>1, <1>2, UnitsAtIs DEF HistoryInit
  <1>4. ledger \in Seq(Movement) /\ Len(ledger) = 0
    BY <1>1
  <1>5. PICK a : a = [i \in 0..0 |-> balance]
    OBVIOUS
  <1>6. a[0] = balance /\ a \in [0..0 -> 0..balance] /\ a \in [0..0 -> Int]
    BY <1>1, <1>5
  <1>7. CountOf(ledger, arrivals, a) /\ CostsOf(ledger, arrivals, a)
    BY <1>1, <1>3, <1>4, <1>6 DEF CountOf, CostsOf
  <1>8. AddsUp(ledger, balance, untold, a)
    BY <1>1, <1>4, <1>6 DEF AddsUp
  <1>9. SignsOf(ledger, returned)
    BY <1>4 DEF SignsOf
  <1>10. Kept(ledger, arrivals, balance, untold, returned)
    BY <1>1, <1>3, <1>4, <1>7, <1>8, <1>9 DEF Kept, TypedLedger
  <1> QED BY <1>1, <1>10, InvIsKept

(* A movement adds to the rows and the balance alike; a commit or a return *)
(* changes the reason of an older one; a legacy edit is where the rows no  *)
(* longer add up.                                                          *)
LEMMA HistoryInvNext == HistoryInv /\ [HistoryNext]_historyVars => HistoryInv'
  <1> SUFFICES ASSUME HistoryInv, [HistoryNext]_historyVars PROVE HistoryInv'
    OBVIOUS
  <1>1. /\ balance \in Nat /\ Len(ledger) \in Nat
        /\ ledger \in Seq(Movement) /\ UnknownCost \in AnyCost
        /\ untold \in BOOLEAN /\ returned \in BOOLEAN
    BY HistoryIs DEF HistoryInv, HistoryTypeOK, AnyCost
  <1>2. Kept(ledger, arrivals, balance, untold, returned)
    BY InvIsKept
  <1>3. ASSUME NEW r \in {"RECEIPT", "ISSUE", "ORDER_RESERVATION"},
               NEW n \in UnitsMoved, NEW c \in AnyCost,
               NEW before, NEW after,
               \/ before = balance /\ after = balance + SignOf(r, n)
               \/ before = Null /\ after = Null,
               Moves(r, n, c, before, after),
               balance + SignOf(r, n) >= 0, balance' = balance + SignOf(r, n),
               arrivals' = IF r = "RECEIPT" THEN arrivals \o UnitsAt(n, c)
                           ELSE arrivals,
               UNCHANGED <<untold, returned>>
        PROVE  HistoryInv'
    <2>1. PICK m : m = Row(r, n, c, before, after)
      OBVIOUS
    <2>2. \/ m = Row(r, n, c, balance, balance + SignOf(r, n))
          \/ m = Row(r, n, c, Null, Null)
      BY <1>3, <2>1
    <2>3. ledger' = Append(ledger, m)
      BY <1>3, <2>1 DEF Moves, Row
    <2>4. /\ m \in Movement /\ Written(m, balance) /\ Signed(m, returned)
          /\ ByType(m) = SignOf(r, n) /\ arrivals' = Arrive(arrivals, m)
      BY <1>3, <2>2, RowIs
    <2> QED BY <1>3, <2>3, <2>4, RecordKeeps
  <1>4. ASSUME NEW n \in UnitsMoved, NEW c \in UnitCosts \cup {UnknownCost},
               recordReceipt(n, c) \/ LegacyReceipt(n, c)
        PROVE  HistoryInv'
    <2>1. SignOf("RECEIPT", n) = n /\ "RECEIPT" \in Inbound /\ c \in AnyCost
      BY DEF SignOf, Inbound, AnyCost
    <2>2. n \in Nat /\ balance + n >= 0
      BY <1>1, HistoryConstants
    <2>3. CASE recordReceipt(n, c)
      <3>1. Moves("RECEIPT", n, c, balance, balance + n) /\ balance' = balance + n
        BY <2>1, <2>3 DEF recordReceipt, Records
      <3> QED BY <1>3, <2>1, <2>2, <2>3, <3>1 DEF recordReceipt
    <2>4. CASE LegacyReceipt(n, c)
      BY <1>3, <2>1, <2>2, <2>4 DEF LegacyReceipt
    <2> QED BY <1>4, <2>3, <2>4
  <1>5. ASSUME NEW n \in UnitsMoved,
               \/ recordIssue(n) \/ recordReservation(n) \/ LegacyIssue(n)
        PROVE  HistoryInv'
    <2>1. /\ "ISSUE" \notin Inbound /\ "ORDER_RESERVATION" \notin Inbound
          /\ n \in Nat
      BY HistoryConstants DEF Inbound
    <2>2. /\ SignOf("ISSUE", n) = -n /\ SignOf("ORDER_RESERVATION", n) = -n
          /\ balance - n = balance + (-n)
      BY <1>1, <2>1 DEF SignOf
    <2>3. CASE recordIssue(n)
      <3>1. /\ Moves("ISSUE", n, UnknownCost, balance, balance + (-n))
            /\ balance + (-n) >= 0 /\ balance' = balance + (-n)
        BY <2>1, <2>3 DEF recordIssue, Records
      <3> QED BY <1>1, <1>3, <2>2, <2>3, <3>1 DEF recordIssue
    <2>4. CASE recordReservation(n)
      <3>1. /\ Moves("ORDER_RESERVATION", n, UnknownCost, balance, balance + (-n))
            /\ balance + (-n) >= 0 /\ balance' = balance + (-n)
        BY <2>1, <2>4 DEF recordReservation, Records
      <3> QED BY <1>1, <1>3, <2>2, <2>4, <3>1 DEF recordReservation
    <2>5. CASE LegacyIssue(n)
      BY <1>1, <1>3, <2>2, <2>5 DEF LegacyIssue
    <2> QED BY <1>5, <2>3, <2>4, <2>5
  <1>6. ASSUME NEW i \in 1..Len(ledger), recordCommit(i)
        PROVE  HistoryInv'
    <2>1. Kept([ledger EXCEPT ![i].ref = "ORDER_RESERVATION_COMMITTED"],
               arrivals, balance, untold, returned)
      BY <1>2, <1>6, RelabelKeeps DEF recordCommit
    <2>2. Kept(ledger', arrivals', balance', untold', returned')
      BY <1>6, <2>1 DEF recordCommit
    <2> QED BY <1>1, <1>6, <2>2, InvIsKept DEF recordCommit
  <1>7. ASSUME NEW i \in 1..Len(ledger), recordRelease(i)
        PROVE  HistoryInv'
    <2>1. PICK l : l = [ledger EXCEPT ![i].ref = "ORDER_RESERVATION_RELEASED"]
      OBVIOUS
    <2>2. Kept(l, arrivals, balance, untold, returned)
      BY <1>2, <1>7, <2>1, RelabelKeeps DEF recordRelease
    <2>3. PICK n \in Nat : n = ledger[i].quantity /\ n > 0
      BY HistoryIs DEF Movement, Signed
    <2>4. PICK m : m = Row("ORDER_RESERVATION_RELEASE", n, UnknownCost,
                           balance, balance + n)
      OBVIOUS
    <2>5. /\ m.ref = "ORDER_RESERVATION_RELEASE" /\ m.quantity = n
          /\ m.before = balance /\ m.after = balance + n
          /\ m.cost = UnknownCost /\ m.ref \in Inbound
      BY <2>4 DEF Row, Inbound
    <2>6. m \in Movement
      BY <1>1, <2>3, <2>4 DEF Movement, Row, Inbound
    <2>7. ByType(m) = n /\ movementQuantityDelta(m) = n /\ balance + n \in Nat
      BY <1>1, <2>3, <2>5 DEF ByType, movementQuantityDelta, Null
    <2>8. Signed(m, TRUE) /\ Written(m, balance)
      BY <2>3, <2>5, <2>7 DEF Signed, Written
    <2>9. Arrive(arrivals, m) = arrivals
      BY <2>5, <2>6, ArriveIs, HistoryIs
    <2>10. Kept(Append(l, m), arrivals, balance + n, untold, TRUE)
      BY <2>2, <2>6, <2>7, <2>8, <2>9, AppendKeeps
    <2>11. /\ ledger' = Append(l, m) /\ balance' = balance + n
           /\ returned' = TRUE /\ arrivals' = arrivals /\ untold' = untold
      BY <1>7, <2>1, <2>3, <2>4 DEF recordRelease, Row
    <2> QED BY <1>1, <2>10, <2>11, InvIsKept
  <1>8. ASSUME NEW n \in UnitsEdited, LegacyEdit(n)
        PROVE  HistoryInv'
    <2>1. n \in Int /\ n # 0 /\ balance + n \in Nat
      BY <1>1, <1>8, HistoryConstants DEF LegacyEdit
    <2>2. Len(ledger) > 0
      BY <1>1, <1>8 DEF LegacyEdit
    <2>3. PICK x : AddsUp(ledger, balance, untold, x)
      BY <1>2 DEF Kept
    <2>4. x[Len(ledger)] # balance + n
      BY <1>1, <1>8, <2>1, <2>3 DEF AddsUp, LegacyEdit
    <2>5. AddsUp(ledger, balance + n, TRUE, x)
      BY <2>2, <2>3, <2>4 DEF AddsUp
    <2>6. Kept(ledger, arrivals, balance + n, TRUE, returned)
      BY <1>2, <2>1, <2>5 DEF Kept, TypedLedger
    <2> QED BY <1>1, <1>8, <2>6, InvIsKept DEF LegacyEdit
  <1>9. CASE UNCHANGED historyVars
    BY <1>1, <1>2, <1>9, InvIsKept DEF historyVars
  <1> QED BY <1>4, <1>5, <1>6, <1>7, <1>8, <1>9 DEF HistoryNext

(* For every ledger, each unit of stock is laid down once when FIFO is     *)
(* chosen late.  If no balance was edited without a movement, the replay   *)
(* of reconstructHistoricalFifo gives a cost to no more units than FIFO    *)
(* leaves at it, at FIFO's places until a reservation was given back; and  *)
(* one that such an edit misled is refused, once no reservation is active. *)
THEOREM ReplayFaithful == HistorySpec => []ReplayIsFaithful
  <1>1. HistoryInv => ReplayIsFaithful
    BY FaithfulByInv
  <1> QED BY <1>1, HistoryInvInit, HistoryInvNext, PTL DEF HistorySpec
=============================================================================
