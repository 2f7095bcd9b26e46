-------------------------- MODULE WarehouseTransfer --------------------------
(***************************************************************************)
(* Transfers between two warehouses: WarehouseTransferService.             *)
(*                                                                         *)
(* POST /warehouse-transfers carries an Idempotency-Key: the service looks *)
(* for a transfer with that key, inserts one if there is none, and relies  *)
(* on the unique index (tenantId, idempotencyKey) when two calls race.     *)
(* ship, receive and cancel lock the transfer row first, so each is one    *)
(* step; a receipt has an Idempotency-Key of its own.  Every change writes *)
(* its outbox row in the same transaction.                                 *)
(*                                                                         *)
(* A transfer row is identified by the call that inserts it.  All          *)
(* transfers go from one source to one destination warehouse.              *)
(***************************************************************************)
EXTENDS Naturals, Sequences, FiniteSets, FiniteSetsExt

CONSTANTS
    Calls,          \* calls of create, retries by the client included
    Keys,           \* idempotency keys of create
    Requests,       \* bodies of create: units wanted of each item
    ReceiptKeys,    \* idempotency keys of receive
    Items,          \* inventory items
    InitialStock,   \* units of each item in the source warehouse
    MaxUnits,       \* bound: units of one item in the body of a receipt
    NoTransfer, NoReceipt

Quantities == [Items -> Nat]

ASSUME TransferConstants ==
    /\ IsFiniteSet(Calls) /\ IsFiniteSet(ReceiptKeys)
    /\ Requests \subseteq Quantities
    /\ \A r \in Requests : \E i \in Items : r[i] > 0
    /\ InitialStock \in Quantities
    /\ MaxUnits \in Nat
    /\ NoTransfer \notin Calls
    /\ NoReceipt \notin Quantities

VARIABLES
    call,           \* where each call of create stands
    key, request,   \* its idempotency key and its body
    answer,         \* the transfer it returned
    status,         \* WarehouseTransfer.status, "NONE" before the row exists
    received,       \* WarehouseTransferItem.receivedQuantity
    receipts,       \* receipts[t][k]: units of the receipt stored under key k
    source, destination,    \* InventoryStock.quantity in the two warehouses
    outbox          \* types of the outbox rows written for each transfer

callVars == <<call, key, request, answer>>
shipmentVars == <<status, received, receipts, source, destination, outbox>>
transferVars == <<callVars, shipmentVars>>

CallStep == {"new", "checked", "collided", "returned", "conflict", "error"}
TransferStatus ==
    {"NONE", "PENDING", "IN_TRANSIT", "PARTIALLY_RECEIVED", "RECEIVED",
     "CANCELLED"}
Shipped == {"IN_TRANSIT", "PARTIALLY_RECEIVED", "RECEIVED"}
EventType ==
    {"CREATED", "SHIPPED", "PARTIALLY_RECEIVED", "RECEIVED", "CANCELLED"}

TransferTypeOK ==
    /\ call \in [Calls -> CallStep]
    /\ key \in [Calls -> Keys]
    /\ request \in [Calls -> Requests]
    /\ answer \in [Calls -> Calls \cup {NoTransfer}]
    /\ status \in [Calls -> TransferStatus]
    /\ received \in [Calls -> Quantities]
    /\ receipts \in [Calls -> [ReceiptKeys -> Quantities \cup {NoReceipt}]]
    /\ source \in Quantities
    /\ destination \in Quantities
    /\ outbox \in [Calls -> Seq(EventType)]

(* The inputs of every call are fixed at the start, in every combination.  *)
TransferInit ==
    /\ call = [c \in Calls |-> "new"]
    /\ key \in [Calls -> Keys]
    /\ request \in [Calls -> Requests]
    /\ answer = [c \in Calls |-> NoTransfer]
    /\ status = [t \in Calls |-> "NONE"]
    /\ received = [t \in Calls |-> [i \in Items |-> 0]]
    /\ receipts = [t \in Calls |-> [k \in ReceiptKeys |-> NoReceipt]]
    /\ source = InitialStock
    /\ destination = [i \in Items |-> 0]
    /\ outbox = [t \in Calls |-> <<>>]

Transfers == {t \in Calls : status[t] # "NONE"}
-----------------------------------------------------------------------------
(***************************************************************************)
(* create.                                                                 *)
(***************************************************************************)
Answer(c, step, t) ==
    /\ call' = [call EXCEPT ![c] = step]
    /\ answer' = [answer EXCEPT ![c] = t]
    /\ UNCHANGED <<key, request>>

(* Mutant: the body of the earlier request is not compared.                *)
replayOrConflict_any(c, t) == Answer(c, "returned", t)

(* The earlier transfer is returned if its requestHash, a digest of the    *)
(* body, is that of this request.                                          *)
replayOrConflict(c, t) ==
    IF request[t] = request[c]
    THEN Answer(c, "returned", t)
    ELSE Answer(c, "conflict", NoTransfer)

FindByKey(k) == {t \in Transfers : key[t] = k}

(* Validation of the body and the first look for the key.                  *)
Check(c) ==
    /\ call[c] = "new"
    /\ \/ \E t \in FindByKey(key[c]) : replayOrConflict(c, t)
       \/ /\ FindByKey(key[c]) = {}
          /\ Answer(c, "checked", NoTransfer)
    /\ UNCHANGED shipmentVars

(* The inserting transaction: the unique index lets one row per key in.    *)
Insert(c) ==
    /\ call[c] = "checked"
    /\ FindByKey(key[c]) = {}
    /\ Answer(c, "returned", c)
    /\ status' = [status EXCEPT ![c] = "PENDING"]
    /\ outbox' = [outbox EXCEPT ![c] = Append(@, "CREATED")]
    /\ UNCHANGED <<received, receipts, source, destination>>

(* P2002: another call inserted the key after Check.                       *)
InsertCollides(c) ==
    /\ call[c] = "checked"
    /\ FindByKey(key[c]) # {}
    /\ Answer(c, "collided", NoTransfer)
    /\ UNCHANGED shipmentVars

(* A warehouse or an item is missing or inactive, or the process dies: the *)
(* transaction is rolled back and the client gets an error.                *)
InsertFails(c) ==
    /\ call[c] = "checked"
    /\ Answer(c, "error", NoTransfer)
    /\ UNCHANGED shipmentVars

Reread(c) ==
    /\ call[c] = "collided"
    /\ \E t \in FindByKey(key[c]) : replayOrConflict(c, t)
    /\ UNCHANGED shipmentVars
-----------------------------------------------------------------------------
(***************************************************************************)
(* ship, receive and cancel.  A call that finds the transfer already in    *)
(* the state it asks for returns it, any other call is an error: neither   *)
(* changes anything.                                                       *)
(***************************************************************************)

(* Mutant: a retry of a shipment whose answer was lost ships again.        *)
ship_again(t) ==
    /\ status[t] \in {"PENDING", "IN_TRANSIT"}
    /\ \A i \in Items : source[i] >= request[t][i]
    /\ source' = [i \in Items |-> source[i] - request[t][i]]
    /\ status' = [status EXCEPT ![t] = "IN_TRANSIT"]
    /\ outbox' = [outbox EXCEPT ![t] = Append(@, "SHIPPED")]
    /\ UNCHANGED <<callVars, received, receipts, destination>>

ship(t) ==
    /\ status[t] = "PENDING"
    /\ \A i \in Items : source[i] >= request[t][i]
    /\ source' = [i \in Items |-> source[i] - request[t][i]]
    /\ status' = [status EXCEPT ![t] = "IN_TRANSIT"]
    /\ outbox' = [outbox EXCEPT ![t] = Append(@, "SHIPPED")]
    /\ UNCHANGED <<callVars, received, receipts, destination>>

(* Bodies of receive: units of some of the items.                          *)
ReceiptBodies == {q \in [Items -> 0..MaxUnits] : \E i \in Items : q[i] > 0}

(* Only items of the transfer, never more than was shipped.                *)
Receivable(t, q) ==
    \A i \in Items : received[t][i] + q[i] <= request[t][i]

ReceiptStatus(t, q) ==
    IF \A i \in Items : received[t][i] + q[i] = request[t][i]
    THEN "RECEIVED" ELSE "PARTIALLY_RECEIVED"

(* Mutant: the receipt is not looked up by its key.                        *)
receive_again(t, k, q) ==
    /\ status[t] \in {"IN_TRANSIT", "PARTIALLY_RECEIVED"}
    /\ Receivable(t, q)
    /\ receipts' = [receipts EXCEPT ![t][k] = q]
    /\ received' = [received EXCEPT ![t] = [i \in Items |-> @[i] + q[i]]]
    /\ destination' = [i \in Items |-> destination[i] + q[i]]
    /\ status' = [status EXCEPT ![t] = ReceiptStatus(t, q)]
    /\ outbox' = [outbox EXCEPT ![t] = Append(@, ReceiptStatus(t, q))]
    /\ UNCHANGED <<callVars, source>>

receive(t, k, q) ==
    /\ receipts[t][k] = NoReceipt
    /\ status[t] \in {"IN_TRANSIT", "PARTIALLY_RECEIVED"}
    /\ Receivable(t, q)
    /\ receipts' = [receipts EXCEPT ![t][k] = q]
    /\ received' = [received EXCEPT ![t] = [i \in Items |-> @[i] + q[i]]]
    /\ destination' = [i \in Items |-> destination[i] + q[i]]
    /\ status' = [status EXCEPT ![t] = ReceiptStatus(t, q)]
    /\ outbox' = [outbox EXCEPT ![t] = Append(@, ReceiptStatus(t, q))]
    /\ UNCHANGED <<callVars, source>>

cancel(t) ==
    /\ status[t] = "PENDING"
    /\ status' = [status EXCEPT ![t] = "CANCELLED"]
    /\ outbox' = [outbox EXCEPT ![t] = Append(@, "CANCELLED")]
    /\ UNCHANGED <<callVars, received, receipts, source, destination>>
-----------------------------------------------------------------------------
create(c) ==
    \/ Check(c)
    \/ Insert(c)
    \/ InsertCollides(c)
    \/ InsertFails(c)
    \/ Reread(c)

TransferNext ==
    \/ \E c \in Calls : create(c)
    \/ \E t \in Calls :
        \/ ship(t)
        \/ \E k \in ReceiptKeys, q \in ReceiptBodies : receive(t, k, q)
        \/ cancel(t)

TransferSpec == TransferInit /\ [][TransferNext]_transferVars
-----------------------------------------------------------------------------
InTransit(t, i) == IF status[t] \in Shipped THEN request[t][i] - received[t][i] ELSE 0
ReceiptUnits(t, k, i) == IF receipts[t][k] = NoReceipt THEN 0 ELSE receipts[t][k][i]

(***************************************************************************)
(* Shipping and partial receipts lose and create no unit: what left the    *)
(* source is on its way or in the destination warehouse.                   *)
(***************************************************************************)
StockConserved ==
    \A i \in Items :
        source[i] + destination[i]
            + SumFunctionOnSet([t \in Calls |-> InTransit(t, i)], Calls)
            = InitialStock[i]

(***************************************************************************)
(* However many calls race or are retried, an idempotency key names one    *)
(* transfer.                                                               *)
(***************************************************************************)
OneTransferPerKey ==
    \A t, u \in Transfers : key[t] = key[u] => t = u

(***************************************************************************)
(* A call of create that returns a transfer returns one with its own key   *)
(* and body, whoever inserted it.                                          *)
(***************************************************************************)
AnswersOwnRequest ==
    \A c \in Calls : call[c] = "returned" =>
        /\ answer[c] \in Transfers
        /\ key[answer[c]] = key[c]
        /\ request[answer[c]] = request[c]

(***************************************************************************)
(* create is idempotent: a key names one transfer, and every call that     *)
(* returns one returns that of its key and body.                           *)
(***************************************************************************)
CreateIsIdempotent == OneTransferPerKey /\ AnswersOwnRequest

(***************************************************************************)
(* A receipt is applied once however often it is sent: what the transfer   *)
(* counts as received is the sum of its stored receipts.                   *)
(***************************************************************************)
ReceivedMatchesReceipts ==
    \A t \in Calls, i \in Items :
        received[t][i] =
            SumFunctionOnSet([k \in ReceiptKeys |-> ReceiptUnits(t, k, i)], ReceiptKeys)

(***************************************************************************)
(* The status of a transfer agrees with its lines: nothing is received     *)
(* before shipment, never more than shipped, and RECEIVED means every line *)
(* is complete.                                                            *)
(***************************************************************************)
StatusMatchesLines ==
    \A t \in Calls :
        /\ \A i \in Items : received[t][i] <= request[t][i]
        /\ status[t] \in {"NONE", "PENDING", "CANCELLED", "IN_TRANSIT"} =>
             \A i \in Items : received[t][i] = 0
        /\ status[t] = "PARTIALLY_RECEIVED" =>
             /\ \E i \in Items : received[t][i] > 0
             /\ \E i \in Items : received[t][i] < request[t][i]
        /\ status[t] = "RECEIVED" =>
             \A i \in Items : received[t][i] = request[t][i]

(***************************************************************************)
(* The outbox tells the story of the transfer: its last event is its       *)
(* status, and it was created, shipped and completed once.                 *)
(***************************************************************************)
EventOf(s) ==
    CASE s = "PENDING" -> "CREATED"
      [] s = "IN_TRANSIT" -> "SHIPPED"
      [] OTHER -> s

OutboxTellsStatus ==
    \A t \in Transfers :
        /\ outbox[t] # <<>>
        /\ outbox[t][Len(outbox[t])] = EventOf(status[t])
        /\ \A m, n \in DOMAIN outbox[t] :
              outbox[t][m] = outbox[t][n] /\ outbox[t][m] # "PARTIALLY_RECEIVED"
                => m = n

(***************************************************************************)
(* Receipts, lines, status and events of every transfer agree, however     *)
(* often a request is sent.                                                *)
(***************************************************************************)
TransferBooksAgree ==
    ReceivedMatchesReceipts /\ StatusMatchesLines /\ OutboxTellsStatus

(***************************************************************************)
(* Stored receipts never change, and no transfer leaves RECEIVED or        *)
(* CANCELLED.                                                              *)
(***************************************************************************)
HistoryIsFinal ==
    [][\A t \in Calls :
        /\ status[t] \in {"RECEIVED", "CANCELLED"} => status'[t] = status[t]
        /\ \A k \in ReceiptKeys :
              receipts[t][k] # NoReceipt => receipts'[t][k] = receipts[t][k]]_transferVars
=============================================================================
