-------------------------- MODULE InventoryCosting --------------------------
(***************************************************************************)
(* What the stock of one inventory item cost: InventoryCostingService, and *)
(* the operations that move the item's stock and cost it.                  *)
(*                                                                         *)
(* Under FIFO every receipt leaves a cost layer and every issue empties    *)
(* the oldest layers of its location; under a moving average one unit cost *)
(* is kept for the item (PER_ITEM) or for each location.  A reservation    *)
(* takes units off the balance when it is made and is costed only when it  *)
(* is committed.  All but one of the operations lock the item row for      *)
(* their transaction; giving a reservation back takes no such lock, so it  *)
(* can fall between an adjustment's read of the balance and its write.     *)
(*                                                                         *)
(* Balances and movements are doubles, layers and allocations decimals of  *)
(* six places.  A unit here is such a decimal (callers give no more than   *)
(* six places).  Rounding moves a double off the decimal it stands for by  *)
(* far less than half of the last place, so a layer is stored exact; but a *)
(* comparison without tolerance sees on which side the double lies.  Being *)
(* above is what can ask for more than the layers hold, and is kept.       *)
(***************************************************************************)
EXTENDS Integers, Sequences, FiniteSets, FiniteSetsExt, Functions

CONSTANTS
    Buyers,         \* orders that reserve the item
    Costs,          \* unit costs of a receipt
    Opening,        \* units in each location before a method is chosen, in
                    \* the order in which the stock rows were made
    Amounts,        \* units of a reservation, a shipment or its receipt
    Lots,           \* units of a stock-in
    Deltas,         \* units an adjustment adds, or a waste takes off
    MaxAdjustments  \* bound: stock-ins, adjustments and wastes

ASSUME CostingConstants ==
    /\ IsFiniteSet(Buyers)
    /\ Costs \subseteq Nat
    /\ Opening \in Seq(Nat) /\ Len(Opening) >= 2
    /\ Amounts \subseteq Nat \ {0} /\ Lots \subseteq Nat \ {0}
    /\ Deltas \subseteq Int \ {0}
    /\ MaxAdjustments \in Nat

VARIABLES
    method,         \* InventoryItem.valuationMethod with movingAverageScope
    locked,         \* valuationLockedAt is set
    onHand,         \* InventoryStock.quantity, as a decimal
    above,          \* the locations where the double lies above it
    layers,         \* InventoryCostLayer rows, oldest first; a layer without
                    \* units is as good as none
    average,        \* averageUnitCost of each pool, a fraction
    held,           \* the reservation movement of each order
    shipment,       \* one transfer from the first location to the second
    adjusting,      \* the adjustment that holds the item lock
    adjustments,    \* how many have been made
    valueIn,        \* cost of the receipts (not a column)
    valueOut        \* cost of the issues (not a column)

costingVars == <<method, locked, onHand, above, layers, average, held,
                 shipment, adjusting, adjustments, valueIn, valueOut>>

At == 1..Len(Opening)
Method == {"NONE", "FIFO", "PER_ITEM", "PER_WAREHOUSE"}
NoCost == [v |-> 0, q |-> 0]
Idle == [at |-> 0, before |-> 0, delta |-> 0, cost |-> 0, up |-> {}]
Ref == {"NONE", "ORDER_RESERVATION", "ORDER_RESERVATION_COMMITTED",
        "ORDER_RESERVATION_RELEASED"}

(* Every row is well formed, and no balance or layer is below zero.        *)
CostingTypeOK ==
    /\ method \in Method /\ locked \in BOOLEAN
    /\ onHand \in [At -> Nat] /\ above \subseteq At
    /\ layers \in Seq([at : At, left : Nat, cost : Nat])
    /\ average \in [At -> [v : Nat, q : Nat]]
    /\ held \in [Buyers -> [ref : Ref, units : [At -> Nat],
                            up : SUBSET At, cost : Nat]]
    /\ shipment.sent \in Nat /\ shipment.received \in 0..shipment.sent
    /\ adjusting.at \in 0..Len(Opening)
    /\ valueIn \in Nat /\ valueOut \in Nat

CostingInit ==
    /\ method = "NONE"
    /\ locked = FALSE
    /\ onHand = Opening
    /\ above = {}
    /\ layers = <<>>
    /\ average = [l \in At |-> NoCost]
    /\ held = [o \in Buyers |-> [ref |-> "NONE", units |-> [l \in At |-> 0],
                                 up |-> {}, cost |-> 0]]
    /\ shipment = [sent |-> 0, received |-> 0, parts |-> <<>>, unit |-> NoCost]
    /\ adjusting = Idle
    /\ adjustments = 0
    /\ valueIn = 0
    /\ valueOut = 0
-----------------------------------------------------------------------------
SumTo(s, n) == SumFunctionOnSet(s, 1..n)
Total(s) == SumTo(s, Len(s))

(* n units taken from s in order: what each entry gives, and what is left  *)
(* of n once the entries before it have given theirs.                      *)
InOrder(s, n) ==
    [i \in 1..Len(s) |-> Min({s[i], Max({0, n - SumTo(s, i - 1)})})]

Reserved(l) ==
    SumFunctionOnSet([o \in Buyers |-> IF held[o].ref = "ORDER_RESERVATION"
                                      THEN held[o].units[l] ELSE 0], Buyers)
LeftAt(l) ==
    [i \in 1..Len(layers) |-> IF layers[i].at = l THEN layers[i].left ELSE 0]
Worth(s) == Total([i \in 1..Len(s) |-> s[i].left * s[i].cost])

(* A double above zero is stock, be it a residue of sums and differences.  *)
InUse(l) ==
    \/ onHand[l] + Reserved(l) > 0
    \/ l \in above
    \/ \E o \in Buyers : held[o].ref = "ORDER_RESERVATION" /\ l \in held[o].up

(* Where the balances can lie above their decimals: once those of S were   *)
(* computed anew, and once n, itself exact, was added to that of l, a sum  *)
(* with zero and a difference of zero being exact.                         *)
Recomputed(S) == {T \in SUBSET At : T \ S = above \ S}
Added(l, n) ==
    {T \in Recomputed({l}) :
        l \in T /\ (onHand[l] = 0 \/ onHand[l] + n = 0) => l \in above}

isFifo == method = "FIFO"
Pool(l) == IF method = "PER_ITEM" THEN 1 ELSE l
InPool(f, l) == IF method = "PER_ITEM" THEN Total(f) ELSE f[l]

(* A fraction in lowest terms.                                             *)
Fraction(v, q) ==
    LET d == Max({k \in 1..q : v % k = 0 /\ q % k = 0})
    IN  [v |-> v \div d, q |-> q \div d]
-----------------------------------------------------------------------------
(* lockItem: the transaction waits for the item row and needs a method.    *)
lockItem == adjusting = Idle /\ method # "NONE"

(* updateMovingAverage: the units there before are those on hand, without  *)
(* the reserved ones that no issue has costed yet.                         *)
updateMovingAverage(stock, l, n, c) ==
    LET total == InPool(stock, l)
        old   == average[Pool(l)]
        prior == total - n
    IN  [average EXCEPT ![Pool(l)] =
            IF prior = 0 THEN Fraction(c.v, c.q)
            ELSE Fraction(prior * old.v * c.q + n * c.v * old.q,
                          old.q * c.q * total)]

(* A pool that held more than the units that come in, be it what is left   *)
(* of a double above, needs an average to weigh it with.                   *)
Weighable(stock, l, n) ==
    LET up == above \cup adjusting.up
    IN  \/ InPool(stock, l) = n /\ IF method = "PER_ITEM" THEN up = {}
                                   ELSE l \notin up
        \/ average[Pool(l)] # NoCost

(* receive: n units come in at unit cost c, the balances being stock.      *)
costed(stock, l, n, c) ==
    /\ locked' = TRUE
    /\ IF isFifo
       THEN /\ layers' = Append(layers, [at |-> l, left |-> n, cost |-> c])
            /\ valueIn' = valueIn + n * c
            /\ UNCHANGED average
       ELSE /\ Weighable(stock, l, n)
            /\ average' = updateMovingAverage(stock, l, n, [v |-> c, q |-> 1])
            /\ UNCHANGED <<layers, valueIn>>

(* consumeFifoLayers throws when the layers do not cover the double it is  *)
(* asked for, and averageCost when the pool has no unit cost.  The doubles *)
(* in up lie above their units.                                            *)
Issuable(units, up) ==
    \A l \in At :
        units[l] > 0 \/ l \in up =>
            IF isFifo
            THEN \/ Total(LeftAt(l)) > units[l]
                 \/ Total(LeftAt(l)) = units[l] /\ l \notin up
            ELSE average[Pool(l)] # NoCost

consumed(units) ==
    [i \in 1..Len(layers) |->
        InOrder(LeftAt(layers[i].at), units[layers[i].at])[i]]
CostOf(units) ==
    Total([i \in 1..Len(layers) |-> consumed(units)[i] * layers[i].cost])

(* issue: units leave at the cost of the layers they empty.                *)
issue(units, up) ==
    /\ Issuable(units, up)
    /\ locked' = TRUE
    /\ layers' = [i \in 1..Len(layers) |->
            [layers[i] EXCEPT !.left = @ - consumed(units)[i]]]
    /\ UNCHANGED average

Only(l, n) == [k \in At |-> IF k = l THEN n ELSE 0]
-----------------------------------------------------------------------------
(* A reservation that is no longer active, nor costed.                     *)
Settled(h) == [h EXCEPT !.ref = "ORDER_RESERVATION_COMMITTED", !.up = {}]

(* configureValuation: the reservations of the completed orders done, left *)
(* behind by earlier versions, are settled at no cost; then every unit,    *)
(* reserved ones included, becomes an opening balance at the cost the      *)
(* caller gives for its location.                                          *)
configureValuation(m, c, done) ==
    LET units == [l \in At |-> onHand[l] + Reserved(l)']
        stock == {l \in At : InUse(l)'}
        full  == [l \in At |-> [at |-> l, left |-> units[l],
                                cost |-> IF l \in stock THEN c[l] ELSE 0]]
    IN  /\ adjusting = Idle
        /\ held' = [o \in Buyers |->
                IF o \in done /\ held[o].ref = "ORDER_RESERVATION"
                THEN Settled(held[o])
                ELSE held[o]]
        /\ UNCHANGED <<onHand, above>>
        /\ ~locked
        /\ m # "NONE"
        /\ method' = m
        /\ locked' = (stock # {})
        /\ layers' = IF m = "FIFO" THEN full ELSE <<>>
        /\ valueIn' = IF m = "FIFO" THEN Worth(full) ELSE 0
        /\ average' = [l \in At |->
                CASE m = "PER_WAREHOUSE" /\ l \in stock -> Fraction(c[l], 1)
                  [] m = "PER_ITEM" /\ l = 1 /\ Total(units) > 0 ->
                        Fraction(Worth(full), Total(units))
                  [] m = "PER_ITEM" /\ l = 1 /\ Total(units) = 0
                       /\ stock # {} -> Fraction(c[Min(stock)], 1)
                  [] OTHER -> NoCost]
        /\ UNCHANGED <<shipment, adjusting, adjustments, valueOut>>

(* stockIn, and receivePurchaseOrder for its line.                         *)
stockIn(l, n, c) ==
    /\ lockItem
    /\ adjustments < MaxAdjustments
    /\ onHand' = [onHand EXCEPT ![l] = @ + n]
    /\ above' \in Added(l, n)
    /\ costed(onHand', l, n, c)
    /\ adjustments' = adjustments + 1
    /\ UNCHANGED <<method, held, shipment, adjusting, valueOut>>

(* adjustment and waste read the balance under the item lock ...           *)
readBalance(l, d, c) ==
    /\ lockItem
    /\ adjustments < MaxAdjustments
    /\ onHand[l] + d >= 0
    /\ \E up \in Added(l, d) :
         adjusting' = [at |-> l, before |-> onHand[l], delta |-> d,
                       cost |-> IF d > 0 THEN c ELSE 0, up |-> up \cap {l}]
    /\ adjustments' = adjustments + 1
    /\ UNCHANGED <<method, locked, onHand, above, layers, average, held,
                   shipment, valueIn, valueOut>>

(* ... and write back the balance they computed from it.                   *)
adjustment ==
    LET l == adjusting.at
        d == adjusting.delta
    IN  /\ adjusting # Idle
        /\ onHand' = [onHand EXCEPT ![l] = adjusting.before + d]
        /\ above' = (above \ {l}) \cup adjusting.up
        /\ adjusting' = Idle
        /\ IF d > 0
           THEN costed(onHand', l, d, adjusting.cost) /\ UNCHANGED valueOut
           ELSE /\ issue(Only(l, -d), {})
                /\ valueOut' = valueOut + CostOf(Only(l, -d))
                /\ UNCHANGED valueIn
        /\ UNCHANGED <<method, held, shipment, adjustments>>

(* What is taken is no more than the balance, which is above if all of it  *)
(* is taken and lies above; a location that gives nothing is not written.  *)
TakenAbove(units) ==
    {up \in SUBSET At : \A l \in up : units[l] = onHand[l] => l \in above}
Touched(units, up) == {l \in At : units[l] > 0 \/ l \in up}

(* Mutant: the item row is not locked while stock is reserved.             *)
reserveStock_unlocked(o, n) ==
    LET units == InOrder(onHand, n)
    IN  /\ held[o].ref = "NONE"
        /\ Total(onHand) >= n
        /\ onHand' = [l \in At |-> onHand[l] - units[l]]
        /\ \E up \in TakenAbove(units) :
             /\ held' = [held EXCEPT ![o] =
                    [ref |-> "ORDER_RESERVATION", units |-> units, up |-> up,
                     cost |-> 0]]
             /\ above' \in Recomputed(Touched(units, up))
        /\ UNCHANGED <<method, locked, layers, average, shipment, adjusting,
                       adjustments, valueIn, valueOut>>

(* reserveStock takes the units off the balances, location by location,    *)
(* and costs nothing.                                                      *)
reserveStock(o, n) ==
    LET units == InOrder(onHand, n)
    IN  /\ adjusting = Idle
        /\ held[o].ref = "NONE"
        /\ Total(onHand) >= n
        /\ onHand' = [l \in At |-> onHand[l] - units[l]]
        /\ \E up \in TakenAbove(units) :
             /\ held' = [held EXCEPT ![o] =
                    [ref |-> "ORDER_RESERVATION", units |-> units, up |-> up,
                     cost |-> 0]]
             /\ above' \in Recomputed(Touched(units, up))
        /\ UNCHANGED <<method, locked, layers, average, shipment, adjusting,
                       adjustments, valueIn, valueOut>>

(* release, cancel and expiry: restoreReservationMovement increments the   *)
(* balances without the item lock, the movement having no allocation.      *)
releaseReservation(o) ==
    /\ held[o].ref = "ORDER_RESERVATION"
    /\ onHand' = [l \in At |-> onHand[l] + held[o].units[l]]
    /\ above' \in Recomputed(Touched(held[o].units, held[o].up))
    /\ held' = [held EXCEPT ![o].ref = "ORDER_RESERVATION_RELEASED",
                            ![o].up = {}]
    /\ UNCHANGED <<method, locked, layers, average, shipment, adjusting,
                   adjustments, valueIn, valueOut>>

commitReservation(o) ==
    /\ lockItem
    /\ held[o].ref = "ORDER_RESERVATION"
    /\ issue(held[o].units, held[o].up)
    /\ held' = [held EXCEPT ![o].ref = "ORDER_RESERVATION_COMMITTED",
                            ![o].up = {}, ![o].cost = CostOf(held[o].units)]
    /\ valueOut' = valueOut + CostOf(held[o].units)
    /\ UNCHANGED <<method, onHand, above, shipment, adjusting, adjustments,
                   valueIn>>

(* ship: the allocations of the shipment are the layers it emptied.        *)
shipTransfer(n) ==
    LET taken == consumed(Only(1, n))
    IN  /\ lockItem
        /\ shipment.sent = 0
        /\ onHand[1] >= n
        /\ onHand' = [onHand EXCEPT ![1] = @ - n]
        /\ above' \in Added(1, -n)
        /\ issue(Only(1, n), {})
        /\ shipment' =
             [sent |-> n, received |-> 0, unit |-> average[Pool(1)],
              parts |-> [i \in 1..Len(layers) |->
                            [left |-> taken[i], cost |-> layers[i].cost]]]
        /\ UNCHANGED <<method, held, adjusting, adjustments, valueIn, valueOut>>

(* Mutant: every receipt copies the allocations from the first on.         *)
copiedAllocations_first(n) ==
    LET lefts == [i \in 1..Len(shipment.parts) |-> shipment.parts[i].left]
    IN  [i \in 1..Len(lefts) |->
            [at |-> 2, left |-> InOrder(lefts, n)[i],
             cost |-> shipment.parts[i].cost]]

(* The part of the shipment's allocations between the units received so    *)
(* far and the n received now.                                             *)
copiedAllocations(n) ==
    LET lefts == [i \in 1..Len(shipment.parts) |-> shipment.parts[i].left]
    IN  [i \in 1..Len(lefts) |->
            [at |-> 2,
             left |-> InOrder(lefts, shipment.received + n)[i]
                        - InOrder(lefts, shipment.received)[i],
             cost |-> shipment.parts[i].cost]]

(* The units received are a difference of doubles and may lie above: the   *)
(* allocations then do not cover the last of them.                         *)
receiveTransfer(n) ==
    /\ lockItem
    /\ shipment.received + n <= shipment.sent
    /\ onHand' = [onHand EXCEPT ![2] = @ + n]
    /\ \/ above' \in Added(2, n)
       \/ /\ above' = above \cup {2}
          /\ isFifo => shipment.received + n < shipment.sent
    /\ locked' = TRUE
    /\ IF isFifo
       THEN layers' = layers \o copiedAllocations(n) /\ UNCHANGED average
       ELSE /\ Weighable(onHand', 2, n)
            /\ average' = updateMovingAverage(onHand', 2, n, shipment.unit)
            /\ UNCHANGED layers
    /\ shipment' = [shipment EXCEPT !.received = @ + n]
    /\ UNCHANGED <<method, held, adjusting, adjustments, valueIn, valueOut>>

CostingNext ==
    \/ \E m \in Method, c \in [At -> Costs], done \in SUBSET Buyers :
           configureValuation(m, c, done)
    \/ \E l \in At, n \in Lots, c \in Costs : stockIn(l, n, c)
    \/ \E l \in At, d \in Deltas, c \in Costs : readBalance(l, d, c)
    \/ adjustment
    \/ \E o \in Buyers, n \in Amounts : reserveStock(o, n)
    \/ \E o \in Buyers : releaseReservation(o) \/ commitReservation(o)
    \/ \E n \in Amounts : shipTransfer(n) \/ receiveTransfer(n)

CostingSpec == CostingInit /\ [][CostingNext]_costingVars
-----------------------------------------------------------------------------
(* Every unit on hand or reserved has a cost once a method is chosen: its  *)
(* layers cover it, whatever was adjusted, released or shipped since it    *)
(* was reserved; and a pool with an average has one for whatever a double  *)
(* shows, a residue of its sums too.                                       *)
StockIsCosted ==
    method # "NONE" =>
        \A l \in At :
            IF isFifo THEN Total(LeftAt(l)) >= onHand[l] + Reserved(l)
            ELSE InUse(l) => average[Pool(l)] # NoCost

InTransitValue ==
    Worth(shipment.parts)
      - Worth([i \in 1..Len(shipment.parts) |->
                [left |-> InOrder([k \in 1..Len(shipment.parts) |->
                                       shipment.parts[k].left],
                                  shipment.received)[i],
                 cost |-> shipment.parts[i].cost]])

(* FIFO neither makes nor loses value: what the receipts cost is what the  *)
(* issues took, the layers still hold and the transfer has on the way,     *)
(* across partial receipts of a shipment that emptied several layers.      *)
ValueConserved ==
    isFifo => valueIn = valueOut + Worth(layers) + InTransitValue

(* A moving average stays among the unit costs it averages.                *)
AverageWithinCosts ==
    \A l \in At :
        average[l] # NoCost =>
            \E low, high \in Costs : /\ low * average[l].q <= average[l].v
                                     /\ average[l].v <= high * average[l].q

(* The double asked for in l lies above all that the layers there hold.    *)
AsksForMore(units, up) ==
    isFifo /\ \E l \in up : Total(LeftAt(l)) = units[l]

(* So costing, which throws when layers run short or a pool has no average,*)
(* refuses what the balances allow in one case only: under FIFO the commit *)
(* of a reservation that takes the last of its location's layers and whose *)
(* double lies above its units, as consumeFifoLayers has no tolerance.  It *)
(* refuses no other commit, no shipment, no second half of an adjustment   *)
(* and no receipt into an average.                                         *)
NothingRefused ==
    method # "NONE" =>
        /\ \A o \in Buyers :
             held[o].ref = "ORDER_RESERVATION" =>
                 \/ Issuable(held[o].units, held[o].up)
                 \/ AsksForMore(held[o].units, held[o].up)
        /\ \A n \in Amounts : onHand[1] >= n => Issuable(Only(1, n), {})
        /\ adjusting # Idle =>
             LET l == adjusting.at
                 d == adjusting.delta
             IN  /\ d < 0 => Issuable(Only(l, -d), {})
                 /\ d > 0 /\ ~isFifo =>
                      Weighable([onHand EXCEPT ![l] = adjusting.before + d], l, d)
        /\ ~isFifo =>
             \A l \in At, n \in Lots :
                 Weighable([onHand EXCEPT ![l] = @ + n], l, n)

(* Amounts and costs at any time: types, every unit costed, nothing        *)
(* refused for want of a cost but what rounding asks for above the last of *)
(* the layers, averages within the costs they average.                     *)
CostingIsSound ==
    CostingTypeOK /\ StockIsCosted /\ NothingRefused /\ AverageWithinCosts
=============================================================================
