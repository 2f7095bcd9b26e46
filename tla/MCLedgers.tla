----------------------------- MODULE MCLedgers -----------------------------
(***************************************************************************)
(* What moves stock and tickets and keeps a record of it: transfers        *)
(* between warehouses, what the stock cost, the kitchen, the history of    *)
(* jobs and the platform's settings, the catalogues all of them refer to   *)
(* and the events they publish.  A behaviour is one of one component, the  *)
(* component in focus, while the others rest in an initial state.          *)
(***************************************************************************)
EXTENDS WarehouseTransfer, KitchenDisplay, JobHistory, PlatformSettings,
        Catalogue, EventFanout, InventoryCosting, HistoricalFifo, TLC

CONSTANTS a1, a2, b1, b2, i1, i2, x

(* Pairs of interchangeable values.                                        *)
PairA == {a1, a2}
PairB == {b1, b2}
Pairs == Permutations(PairA) \cup Permutations(PairB)

(* Three calls, so that two can race and a third comes late.               *)
ThreeCalls == {a1, a2, x}
ThreeKeys == {b1, b2, x}
Two == {i1, i2}
One == {x}

(* A transfer of both items and one of a single item, and enough in stock  *)
(* for one full shipment, not for two.                                     *)
TwoRequests == {i1 :> 2 @@ i2 :> 1, i1 :> 1 @@ i2 :> 0}
Stock == i1 :> 3 @@ i2 :> 1

(* One unit on the shelf before the item is costed.                        *)
OneUnit == <<1, 0>>
UpOrDown == {-1, 1}

(* A socket of the tenant and one of another.                              *)
TwoSockets == {[tenantId |-> i, outletId |-> <<"outlet of", i>>,
                userId |-> <<"user of", i>>] : i \in Two}
-----------------------------------------------------------------------------
VARIABLE focus

Resting(f) ==
    /\ f # "transfer" => UNCHANGED transferVars
    /\ f # "kitchen" => UNCHANGED kitchenVars
    /\ f # "job" => UNCHANGED jobVars
    /\ f # "setting" => UNCHANGED settingVars
    /\ f # "catalogue" => UNCHANGED catalogueVars
    /\ f # "event" => UNCHANGED fanoutVars
    /\ f # "costing" => UNCHANGED costingVars
    /\ f # "history" => UNCHANGED historyVars
ledgerVars == <<focus, transferVars, kitchenVars, jobVars, settingVars,
                catalogueVars, fanoutVars, costingVars, historyVars>>

(* The metrics are read by no other subscriber, so they may come last; and *)
(* the order matters only to events the orchestrator subscribes to.        *)
SomeOrders ==
    /\ subscribed["metrics"] = 5
    /\ published.types[1] \notin Orchestrated =>
         subscribed["orchestrator"] = 2 /\ subscribed["realtime"] = 3
    /\ focus # "event" => published.types = <<"INVOICE_PAID">>

(* What a component chooses at the start is fixed while it rests.          *)
LedgersInit ==
    /\ focus \in {"transfer", "kitchen", "job", "setting", "catalogue",
                  "event", "costing", "history"}
    /\ JobInit /\ SettingInit
    /\ CostingInit /\ HistoryInit
    /\ focus # "history" => balance = 0
    /\ FanoutInit /\ SomeOrders
    /\ IF focus = "catalogue" THEN CatalogueInit
       ELSE /\ catalogue = "product"
            /\ writer = [w \in Writers |->
                 [op |-> "create", row |-> w, at |-> "called", found |-> FALSE,
                  unit |-> "old", missed |-> {}]]
            /\ CatalogueInit
    /\ IF focus = "transfer" THEN TransferInit
       ELSE /\ key = [c \in Calls |-> i1]
            /\ request = [c \in Calls |-> CHOOSE q \in Requests : TRUE]
            /\ TransferInit
    /\ IF focus = "kitchen" THEN KitchenInit
       ELSE target = [c \in KitchenCalls |-> "COOKING"] /\ KitchenInit

In(f, A) == focus = f /\ A /\ Resting(f) /\ UNCHANGED focus

LedgersNext ==
    \/ In("transfer", TransferNext) \/ In("kitchen", KitchenNext)
    \/ In("job", JobNext) \/ In("setting", SettingNext)
    \/ In("catalogue", CatalogueNext) \/ In("event", FanoutNext)
    \/ In("costing", CostingNext) \/ In("history", HistoryNext)

LedgersSpec == LedgersInit /\ [][LedgersNext]_ledgerVars
=============================================================================
