--------------------------- MODULE HistoricalFifo ---------------------------
(***************************************************************************)
(* reconstructHistoricalFifo: when FIFO is chosen for an item that already *)
(* has stock, its layers are replayed from the ledger of movements.        *)
(*                                                                         *)
(* The module lets a location's history grow one movement at a time, with  *)
(* the gaps that legacy data has (a receipt without a cost, a movement     *)
(* whose balances were not written, a balance that changed without a       *)
(* movement), and compares the replay with what FIFO leaves by definition: *)
(* the units received last.  Amounts are exact: the code's doubles are     *)
(* compared within 1e-6.                                                   *)
(***************************************************************************)
EXTENDS Integers, Sequences, FiniteSetsExt

CONSTANTS
    UnitCosts,      \* costs a receipt can have recorded
    UnknownCost,    \* the receipt has none
    UnitsBefore,    \* units there before the first movement
    UnitsMoved,     \* units of a movement
    UnitsEdited,    \* units a legacy edit of the balance adds
    MaxMovements,   \* bound: length of the ledger
    MaxUnwritten    \* bound: movements without their balances

ASSUME HistoryConstants ==
    /\ UnknownCost \notin UnitCosts
    /\ UnitsBefore \subseteq Nat
    /\ UnitsMoved \subseteq Nat \ {0} /\ UnitsEdited \subseteq Int \ {0}
    /\ MaxMovements \in Nat /\ MaxUnwritten \in Nat

VARIABLES
    ledger,         \* InventoryMovement rows, oldest first
    balance,        \* InventoryStock.quantity
    arrivals,       \* cost of every unit received, in order (not a column)
    untold,         \* units that came or went without a movement
    returned        \* a reservation was given back

historyVars == <<ledger, balance, arrivals, untold, returned>>

(* beforeQuantity and afterQuantity may be null; no balance is below 0.    *)
Null == -1

(* What a movement's type and reference make of it.  Purchases, stock in,  *)
(* production and transfer receipts are RECEIPTs, sales, waste, stock out, *)
(* consumption and shipments ISSUEs; an adjustment is the one or the other *)
(* by its sign.                                                            *)
Inbound == {"RECEIPT", "ORDER_RESERVATION_RELEASE"}
Outbound == {"ISSUE", "ORDER_RESERVATION", "ORDER_RESERVATION_COMMITTED",
             "ORDER_RESERVATION_RELEASED"}

Movement == [ref : Inbound \cup Outbound, quantity : Nat,
             before : Nat \cup {Null}, after : Nat \cup {Null},
             cost : UnitCosts \cup {UnknownCost}]

(* Every movement is well formed and no balance is below zero.             *)
HistoryTypeOK ==
    /\ ledger \in Seq(Movement)
    /\ balance \in Nat
    /\ arrivals \in Seq(UnitCosts \cup {UnknownCost})
    /\ untold \in BOOLEAN /\ returned \in BOOLEAN

(* n units of the same cost.                                               *)
UnitsAt(n, c) == [i \in 1..n |-> c]

HistoryInit ==
    /\ ledger = <<>>
    /\ balance \in UnitsBefore
    /\ arrivals = UnitsAt(balance, UnknownCost)
    /\ untold = FALSE
    /\ returned = FALSE

-----------------------------------------------------------------------------
(* A movement and the change of the balance it records, in one step.       *)
Moves(r, n, c, before, after) ==
    /\ Len(ledger) < MaxMovements
    /\ ledger' = Append(ledger, [ref |-> r, quantity |-> n, before |-> before,
                                 after |-> after, cost |-> c])
Records(r, n, c) ==
    LET d == IF r \in Inbound THEN n ELSE -n
    IN  /\ balance + d >= 0
        /\ Moves(r, n, c, balance, balance + d)
        /\ balance' = balance + d

recordReceipt(n, c) ==
    /\ Records("RECEIPT", n, c)
    /\ arrivals' = arrivals \o UnitsAt(n, c)
    /\ UNCHANGED <<untold, returned>>

recordIssue(n) ==
    /\ Records("ISSUE", n, UnknownCost)
    /\ UNCHANGED <<arrivals, untold, returned>>

recordReservation(n) ==
    /\ Records("ORDER_RESERVATION", n, UnknownCost)
    /\ UNCHANGED <<arrivals, untold, returned>>

recordCommit(i) ==
    /\ ledger[i].ref = "ORDER_RESERVATION"
    /\ ledger' = [ledger EXCEPT ![i].ref = "ORDER_RESERVATION_COMMITTED"]
    /\ UNCHANGED <<balance, arrivals, untold, returned>>

(* The return of a reservation that was never costed names no layer.       *)
recordRelease(i) ==
    LET n == ledger[i].quantity
    IN  /\ ledger[i].ref = "ORDER_RESERVATION"
        /\ Len(ledger) < MaxMovements
        /\ ledger' = Append([ledger EXCEPT ![i].ref =
                                 "ORDER_RESERVATION_RELEASED"],
                            [ref |-> "ORDER_RESERVATION_RELEASE",
                             quantity |-> n, before |-> balance,
                             after |-> balance + n, cost |-> UnknownCost])
        /\ balance' = balance + n
        /\ returned' = TRUE
        /\ UNCHANGED <<arrivals, untold>>

(* A row without its balances: the columns are nullable, though all of the *)
(* code that writes rows today fills them.                                 *)
Unwritten == {i \in 1..Len(ledger) : ledger[i].before = Null}
LegacyReceipt(n, c) ==
    /\ Cardinality(Unwritten) < MaxUnwritten
    /\ Moves("RECEIPT", n, c, Null, Null)
    /\ balance' = balance + n
    /\ arrivals' = arrivals \o UnitsAt(n, c)
    /\ UNCHANGED <<untold, returned>>

LegacyIssue(n) ==
    /\ Cardinality(Unwritten) < MaxUnwritten
    /\ balance - n >= 0
    /\ Moves("ISSUE", n, UnknownCost, Null, Null)
    /\ balance' = balance - n
    /\ UNCHANGED <<arrivals, untold, returned>>

(* Legacy code changed the balance and wrote no movement.                  *)
LegacyEdit(n) ==
    /\ ledger # <<>> /\ ~untold
    /\ balance + n >= 0
    /\ balance' = balance + n
    /\ untold' = TRUE
    /\ UNCHANGED <<ledger, arrivals, returned>>

HistoryNext ==
    \/ \E n \in UnitsMoved, c \in UnitCosts \cup {UnknownCost} :
           recordReceipt(n, c) \/ LegacyReceipt(n, c)
    \/ \E n \in UnitsMoved :
           recordIssue(n) \/ recordReservation(n) \/ LegacyIssue(n)
    \/ \E i \in 1..Len(ledger) : recordCommit(i) \/ recordRelease(i)
    \/ \E n \in UnitsEdited : LegacyEdit(n)

HistorySpec == HistoryInit /\ [][HistoryNext]_historyVars
-----------------------------------------------------------------------------
(* The change of the balance, from the row's balances or else its type.    *)
movementQuantityDelta(m) ==
    IF m.before # Null /\ m.after # Null THEN m.after - m.before
    ELSE IF m.ref \in Inbound THEN m.quantity ELSE -m.quantity

(* Mutant: an issue takes the units received last.                         *)
replayMovement_newest(s, m) ==
    LET d == movementQuantityDelta(m)
    IN  IF /\ s.ok
           /\ m.before # Null => s.quantity = m.before
           /\ m.after # Null => s.quantity + d = m.after
           /\ d < 0 => -d <= Len(s.units)
        THEN [ok |-> TRUE, quantity |-> s.quantity + d,
              units |-> IF d > 0 THEN s.units \o UnitsAt(d, m.cost)
                        ELSE SubSeq(s.units, 1, Len(s.units) + d)]
        ELSE [s EXCEPT !.ok = FALSE]

(* Mutant: a return comes back at the cost of the newest layer.            *)
replayMovement_returned(s, m) ==
    LET d == movementQuantityDelta(m)
    IN  IF /\ s.ok
           /\ m.before # Null => s.quantity = m.before
           /\ m.after # Null => s.quantity + d = m.after
           /\ d < 0 => -d <= Len(s.units)
        THEN [ok |-> TRUE, quantity |-> s.quantity + d,
              units |-> IF d <= 0 THEN SubSeq(s.units, 1 - d, Len(s.units))
                        ELSE s.units \o
                             UnitsAt(d, IF s.units # <<>> /\ m.ref # "RECEIPT"
                                        THEN s.units[Len(s.units)]
                                        ELSE m.cost)]
        ELSE [s EXCEPT !.ok = FALSE]

(* One movement: its balances, where it has them, must be the ledger's;    *)
(* what came in is a new layer at its recorded cost, if any (a return has  *)
(* none, and comes last), and what went out empties the oldest layers,     *)
(* which must cover it.                                                    *)
replayMovement(s, m) ==
    LET d == movementQuantityDelta(m)
    IN  IF /\ s.ok
           /\ m.before # Null => s.quantity = m.before
           /\ m.after # Null => s.quantity + d = m.after
           /\ d < 0 => -d <= Len(s.units)
        THEN [ok |-> TRUE, quantity |-> s.quantity + d,
              units |-> IF d > 0 THEN s.units \o UnitsAt(d, m.cost)
                        ELSE SubSeq(s.units, 1 - d, Len(s.units))]
        ELSE [s EXCEPT !.ok = FALSE]

(* Reservations still active are left out and their units count as stock.  *)
historicalMovements ==
    {i \in 1..Len(ledger) : ledger[i].ref # "ORDER_RESERVATION"}

currentQuantity ==
    LET reserved == [i \in 1..Len(ledger) |->
                        IF i \in historicalMovements THEN 0
                        ELSE ledger[i].quantity]
    IN  balance + SumFunctionOnSet(reserved, 1..Len(ledger))

(* The ledger starts with what was there before its first movement, at a   *)
(* cost nobody knows; if that movement does not say, the replay gives up.  *)
(* Layers are kept as the costs of their units, oldest first.              *)
OpenedWith(n) ==
    [ok |-> TRUE, quantity |-> n, units |-> UnitsAt(n, UnknownCost)]
Start ==
    LET first == ledger[Min(historicalMovements)]
    IN  IF historicalMovements = {} THEN OpenedWith(currentQuantity)
        ELSE IF first.before # Null THEN OpenedWith(first.before)
        ELSE [OpenedWith(0) EXCEPT !.ok = FALSE]

(* The replay of the rows, the first n of them in after[n].                *)
replay ==
    LET after[n \in 0..Len(ledger)] ==
            IF n = 0 THEN Start
            ELSE IF n \in historicalMovements
                 THEN replayMovement(after[n - 1], ledger[n])
                 ELSE after[n - 1]
    IN  after
Replayed == replay[Len(ledger)]

reconciled == Replayed.ok /\ Replayed.quantity = currentQuantity

(* A ledger that does not add up gives one layer at an opening cost.       *)
reconstructHistoricalFifo ==
    IF reconciled THEN Replayed.units
    ELSE UnitsAt(currentQuantity, UnknownCost)
-----------------------------------------------------------------------------
Newest(s, n) == [i \in 1..n |-> s[Len(s) - n + i]]
Known(units) == {i \in 1..Len(units) : units[i] # UnknownCost}

(* A reconstruction lays down each unit of stock once, reserved ones       *)
(* included, whatever gaps the ledger has.                                 *)
EveryUnitLayered == Len(reconstructHistoricalFifo) = currentQuantity

(* A cost the reconstruction gives is a true one.  With no balance edit    *)
(* behind the ledger's back, for any order of receipts, issues,            *)
(* reservations, commits and returns, it gives a cost to no more units     *)
(* than FIFO leaves at that cost; and until a reservation is given back,   *)
(* each unit with a known cost is the unit FIFO leaves in that place.  (A  *)
(* return comes back as units of unknown cost behind all others, so that   *)
(* the places of the others are no longer FIFO's.)                         *)
CostedAt(units, c) == {i \in DOMAIN units : units[i] = c}
ReconstructedIsTrue ==
    LET units == reconstructHistoricalFifo
        left == Newest(arrivals, currentQuantity)
    IN  ~untold =>
            /\ \A c \in UnitCosts :
                 Cardinality(CostedAt(units, c))
                     <= Cardinality(CostedAt(left, c))
            /\ ~returned => \A i \in Known(units) : units[i] = left[i]

(* An edit behind the ledger's back is noticed, once no reservation is     *)
(* active: the replay then claims no cost at all.  (The units of an active *)
(* reservation can make up for the edited ones.)                           *)
GapIsNoticed ==
    untold /\ historicalMovements = 1..Len(ledger) =>
        Known(reconstructHistoricalFifo) = {}

(* A reconstruction layers every unit, gives true costs only, and gives    *)
(* none when the ledger does not add up.                                   *)
ReplayIsFaithful ==
    HistoryTypeOK /\ EveryUnitLayered /\ ReconstructedIsTrue /\ GapIsNoticed
=============================================================================
