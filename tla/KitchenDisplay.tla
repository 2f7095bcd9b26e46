---------------------------- MODULE KitchenDisplay ----------------------------
(***************************************************************************)
(* PATCH /kitchen/orders/:id/start, ready, serve, cancel and recall, called *)
(* by several operators at once.  KitchenService reads the ticket, checks  *)
(* the move on its copy, has the repository update the order if its status *)
(* is still the one it read, reads the ticket again and announces the move *)
(* with a domain event.  A ticket is a released cafe order and has no      *)
(* status of its own: the order's status is translated both ways.  What    *)
(* the moves do to the stock is in OrderSaga.                              *)
(***************************************************************************)
EXTENDS Naturals

CONSTANTS
    KitchenCalls,   \* calls of the five endpoints
    Tickets         \* orders that were released to the kitchen

VARIABLES
    orderStatus,\* SalesOrder.status of each ticket
    ticket,     \* the ticket a call is about
    target,     \* the KitchenStatus its endpoint moves to
    step,       \* where the call stands
    seen,       \* the KitchenStatus it read
    moved,      \* calls whose update was committed
    announced   \* calls whose domain event was published

input == <<ticket, target>>
kitchenVars == <<orderStatus, input, step, seen, moved, announced>>

OrderStatus == {"PENDING", "IN_PROGRESS", "READY", "COMPLETED", "CANCELLED"}
KitchenStatus ==
    {"NEW", "QUEUED", "COOKING", "READY", "SERVED", "CANCELLED", "RECALLED"}
MoveStep == {"new", "update", "reread", "publish", "returned", "error"}

KITCHEN_VALID_TRANSITIONS ==
    [NEW |-> {"QUEUED", "CANCELLED"},
     QUEUED |-> {"COOKING", "CANCELLED"},
     COOKING |-> {"READY", "CANCELLED", "RECALLED"},
     READY |-> {"SERVED", "RECALLED"},
     SERVED |-> {},
     CANCELLED |-> {},
     RECALLED |-> {"COOKING", "QUEUED", "CANCELLED"}]

mapKitchenStatusToOrderStatus ==
    [NEW |-> "PENDING", QUEUED |-> "PENDING", COOKING |-> "IN_PROGRESS",
     READY |-> "READY", SERVED |-> "COMPLETED", CANCELLED |-> "CANCELLED",
     RECALLED |-> "PENDING"]

mapOrderStatusToKitchenStatus ==
    [PENDING |-> "QUEUED", IN_PROGRESS |-> "COOKING", READY |-> "READY",
     COMPLETED |-> "SERVED", CANCELLED |-> "CANCELLED"]

(* The status each of the five endpoints asks for.                         *)
Targets == {"COOKING", "READY", "SERVED", "CANCELLED", "RECALLED"}

KitchenTypeOK ==
    /\ orderStatus \in [Tickets -> OrderStatus]
    /\ ticket \in [KitchenCalls -> Tickets]
    /\ target \in [KitchenCalls -> Targets]
    /\ step \in [KitchenCalls -> MoveStep]
    /\ seen \in [KitchenCalls -> KitchenStatus]
    /\ moved \in SUBSET KitchenCalls
    /\ announced \in SUBSET KitchenCalls

(* What each call asks for is fixed at the start, in every combination.    *)
KitchenInit ==
    /\ orderStatus = [t \in Tickets |-> "PENDING"]
    /\ ticket \in [KitchenCalls -> Tickets]
    /\ target \in [KitchenCalls -> Targets]
    /\ step = [c \in KitchenCalls |-> "new"]
    /\ seen = [c \in KitchenCalls |-> "NEW"]
    /\ moved = {}
    /\ announced = {}
-----------------------------------------------------------------------------
Goto(c, s) == step' = [step EXCEPT ![c] = s]

(* findBySalesOrderId: finished and cancelled tickets are not found.       *)
Found(t) == orderStatus[t] \in {"PENDING", "IN_PROGRESS", "READY"}

Read(c) ==
    /\ step[c] = "new"
    /\ LET now == mapOrderStatusToKitchenStatus[orderStatus[ticket[c]]] IN
       IF Found(ticket[c]) /\ target[c] \in KITCHEN_VALID_TRANSITIONS[now]
       THEN /\ seen' = [seen EXCEPT ![c] = now]
            /\ Goto(c, "update")
       ELSE /\ Goto(c, "error")
            /\ UNCHANGED seen
    /\ UNCHANGED <<orderStatus, input, moved, announced>>

(* Mutant: the update does not name the status it expects.                 *)
updateStatus_blind(c) ==
    /\ step[c] = "update"
    /\ orderStatus' = [orderStatus EXCEPT ![ticket[c]] =
                    mapKitchenStatusToOrderStatus[target[c]]]
    /\ moved' = moved \cup {c}
    /\ Goto(c, "reread")
    /\ UNCHANGED <<input, seen, announced>>

updateStatus(c) ==
    /\ step[c] = "update"
    /\ IF orderStatus[ticket[c]] = mapKitchenStatusToOrderStatus[seen[c]]
       THEN /\ orderStatus' = [orderStatus EXCEPT ![ticket[c]] =
                            mapKitchenStatusToOrderStatus[target[c]]]
            /\ moved' = moved \cup {c}
            /\ Goto(c, "reread")
       ELSE /\ Goto(c, "error")
            /\ UNCHANGED <<orderStatus, moved>>
    /\ UNCHANGED <<input, seen, announced>>

(* updateStatus returns the ticket read again after its transaction; the   *)
(* service takes "not found" for "not persisted".                          *)
RereadTicket(c) ==
    /\ step[c] = "reread"
    /\ Goto(c, IF Found(ticket[c]) THEN "publish" ELSE "error")
    /\ UNCHANGED <<orderStatus, input, seen, moved, announced>>

Publish(c) ==
    /\ step[c] = "publish"
    /\ announced' = announced \cup {c}
    /\ Goto(c, "returned")
    /\ UNCHANGED <<orderStatus, input, seen, moved>>

(* The order is cancelled through the order endpoint.                      *)
cancelOrder(t) ==
    /\ orderStatus[t] # "COMPLETED"
    /\ orderStatus' = [orderStatus EXCEPT ![t] = "CANCELLED"]
    /\ UNCHANGED <<input, step, seen, moved, announced>>
-----------------------------------------------------------------------------
Serve(c) == Read(c) \/ updateStatus(c) \/ RereadTicket(c) \/ Publish(c)

KitchenNext ==
    \/ \E c \in KitchenCalls : Serve(c)
    \/ \E t \in Tickets : cancelOrder(t)

KitchenSpec == KitchenInit /\ [][KitchenNext]_kitchenVars
-----------------------------------------------------------------------------
(***************************************************************************)
(* Whatever the operators do at the same time, the status of an order      *)
(* moves along the state machine of the kitchen, a recall leading back to  *)
(* the queue; it is cancelled from any unfinished state, and served and    *)
(* cancelled orders stay so.                                               *)
(***************************************************************************)
KitchenEdges ==
    {<<"PENDING", "IN_PROGRESS">>, <<"IN_PROGRESS", "READY">>,
     <<"READY", "COMPLETED">>, <<"IN_PROGRESS", "PENDING">>,
     <<"READY", "PENDING">>, <<"PENDING", "CANCELLED">>,
     <<"IN_PROGRESS", "CANCELLED">>, <<"READY", "CANCELLED">>}

MovesAreLegal ==
    [][\A t \in Tickets :
        orderStatus'[t] # orderStatus[t] =>
            <<orderStatus[t], orderStatus'[t]>> \in KitchenEdges]_kitchenVars

(***************************************************************************)
(* No event is published for a move that did not happen: a call that lost  *)
(* the race for a ticket announces nothing.                                *)
(***************************************************************************)
AnnouncedWasMoved == announced \subseteq moved

(***************************************************************************)
(* An action that changed the order has published its event by the time it *)
(* answers.                                                                *)
(***************************************************************************)
MovedIsAnnounced ==
    \A c \in KitchenCalls :
        step[c] \in {"returned", "error"} /\ c \in moved => c \in announced
=============================================================================
