---------------------------- MODULE EventFanout ----------------------------
(***************************************************************************)
(* The domain event bus and its subscribers: the audit trail, the          *)
(* notifications, the sockets of the realtime gateway, the metrics and the *)
(* orchestration of orders.  The bus calls the subscribers of an event one *)
(* after the other, in the order in which they subscribed; the             *)
(* orchestrator publishes further events from within its handler, and an   *)
(* error it throws keeps the event from the subscribers behind it.         *)
(*                                                                         *)
(* A behaviour is about what one call publishes, directly or through the   *)
(* outbox, which delivers the event again after an error or a crash.       *)
(***************************************************************************)
EXTENDS Naturals, Sequences, FiniteSets, SequencesExt

CONSTANTS
    Sockets,        \* sockets, each the context it has authenticated with
    Tenant,         \* the tenant the event is about
    NoOutlet,       \* no outlet, in a payload or a context
    MaxDeliveries   \* deliveries of an event in the outbox

ASSUME FanoutConstants ==
    /\ \A s \in Sockets : DOMAIN s = {"tenantId", "outletId", "userId"}
    /\ MaxDeliveries \in Nat \ {0}

(* An outlet belongs to one tenant, as does a user.                        *)
ASSUME OneTenantEach ==
    \A s, q \in Sockets :
        \/ s.userId = q.userId
        \/ s.outletId = q.outletId /\ s.outletId # NoOutlet
        => s.tenantId = q.tenantId

VARIABLES
    subscribed,     \* the place of each subscriber in the order of subscription
    published,      \* the event types the call publishes, and its outlet
    stack,          \* the calls of publish under way, the innermost last
    outcome,        \* how far the call, or the row of the outbox, has got
    delivery,       \* the number of deliveries begun
    trail,          \* what the subscribers have done
    socket,         \* whether each socket is connected
    inbox           \* the copies each socket has received

fanoutVars == <<subscribed, published, stack, outcome, delivery, trail, socket,
                inbox>>
-----------------------------------------------------------------------------
(* The event types, by what they are about.                                *)
SalesEvents ==
    {"ORDER_CREATED", "SALES_ORDER_CREATED", "ORDER_RESERVED",
     "SALES_ORDER_CONFIRMED", "ORDER_PAYMENT_SUCCESS", "SALES_ORDER_PAID",
     "ORDER_FULFILLMENT_STARTED", "SALES_ORDER_COMPLETED",
     "SALES_ORDER_COMPLETED_V2", "ORDER_RESERVATION_EXPIRED"}
PurchaseEvents ==
    {"PURCHASE_ORDER_CREATED", "PURCHASE_ORDER_PENDING_APPROVAL",
     "PURCHASE_ORDER_APPROVED", "PURCHASE_ORDER_REJECTED",
     "PURCHASE_ORDER_COMPLETED", "PURCHASE_ORDER_CANCELLED",
     "PURCHASE_ORDER_PARTIALLY_RECEIVED", "PURCHASE_ORDER_RECEIVED"}
TransferEvents ==
    {"WAREHOUSE_TRANSFER_CREATED", "WAREHOUSE_TRANSFER_SHIPPED",
     "WAREHOUSE_TRANSFER_PARTIALLY_RECEIVED", "WAREHOUSE_TRANSFER_RECEIVED",
     "WAREHOUSE_TRANSFER_CANCELLED"}
KitchenEvents ==
    {"KITCHEN_COOKING_STARTED", "KITCHEN_READY", "KITCHEN_SERVED",
     "KITCHEN_CANCELLED", "KITCHEN_RECALLED"}
FlagEvents ==
    {"FEATURE_FLAG_CREATED", "FEATURE_FLAG_ENABLED", "FEATURE_FLAG_DISABLED",
     "FEATURE_FLAG_UPDATED", "FEATURE_FLAG_ARCHIVED", "FEATURE_FLAG_RESTORED"}
BusinessEvents ==
    {"BUSINESS_CREATED", "BUSINESS_UPDATED", "BUSINESS_ACTIVATED",
     "BUSINESS_SUSPENDED", "BUSINESS_ARCHIVED", "BUSINESS_RESTORED",
     "BUSINESS_TYPE_CHANGED"}
AdminEvents ==
    {"SUPER_ADMIN_TENANT_ACTIVATED", "SUPER_ADMIN_TENANT_SUSPENDED",
     "SUPER_ADMIN_TENANT_DEACTIVATED", "SUPER_ADMIN_TENANT_RESTORED",
     "SUPER_ADMIN_PLAN_CHANGE_SCHEDULED", "SUPER_ADMIN_SUBSCRIPTION_CHANGED"}
SubscriptionEvents ==
    {"SUBSCRIPTION_CREATED", "SUBSCRIPTION_ACTIVATED", "SUBSCRIPTION_RENEWED",
     "SUBSCRIPTION_CANCELLED", "SUBSCRIPTION_EXPIRED",
     "SUBSCRIPTION_PLAN_CHANGED", "SUBSCRIPTION_PLAN_CHANGE_SCHEDULED",
     "SUBSCRIPTION_SUSPENDED", "SUBSCRIPTION_PAST_DUE", "PAYMENT_REQUIRED"}
InvoiceEvents ==
    {"INVOICE_CREATED", "INVOICE_PAID", "INVOICE_FAILED", "INVOICE_CANCELLED"}

EventTypes ==
    UNION {SalesEvents, PurchaseEvents, TransferEvents, KitchenEvents,
           FlagEvents, BusinessEvents, AdminEvents, SubscriptionEvents,
           InvoiceEvents}

(* The payloads with an outlet.                                            *)
HasOutlet(type) ==
    type \in {"ORDER_CREATED", "SALES_ORDER_CREATED"} \cup PurchaseEvents
                \cup KitchenEvents
-----------------------------------------------------------------------------
(* The types each subscriber subscribes to.                                *)
AuditedOrders ==
    {"ORDER_CREATED", "ORDER_RESERVED", "ORDER_PAYMENT_SUCCESS",
     "ORDER_FULFILLMENT_STARTED", "SALES_ORDER_COMPLETED",
     "PURCHASE_ORDER_CREATED", "PURCHASE_ORDER_RECEIVED"}
AuditedBusiness == BusinessEvents
Audited == AuditedOrders \cup AuditedBusiness
Notified ==
    {"ORDER_CREATED", "ORDER_PAYMENT_SUCCESS", "SALES_ORDER_COMPLETED",
     "PURCHASE_ORDER_CREATED", "PURCHASE_ORDER_RECEIVED"}
ForwardedOperations ==
    (SalesEvents \ {"ORDER_RESERVATION_EXPIRED"}) \cup PurchaseEvents
        \cup KitchenEvents
ForwardedAdministration ==
    UNION {FlagEvents, BusinessEvents, SubscriptionEvents, InvoiceEvents,
           AdminEvents}
Forwarded == ForwardedOperations \cup ForwardedAdministration
Orchestrated == {"ORDER_CREATED", "ORDER_PAYMENT_SUCCESS"}

SubscribedTo ==
    [audit |-> Audited, notification |-> Notified, realtime |-> Forwarded,
     metrics |-> EventTypes, orchestrator |-> Orchestrated]
Subscribers == DOMAIN SubscribedTo

(* Mutant: an audit trail that subscribes with the other modules.          *)
SubscriptionOrders_on_init == Bijection(Subscribers, 1..5)

(* The audit trail subscribes when it is constructed, the others when      *)
(* their modules are initialised, which is later and in an order that      *)
(* nothing in the subscribers depends on.                                  *)
SubscriptionOrders ==
    {place \in Bijection(Subscribers, 1..5) : place["audit"] = 1}

Handlers(type) == {h \in Subscribers : type \in SubscribedTo[h]}
-----------------------------------------------------------------------------
(* Published by the service itself, after its transaction.  The creation   *)
(* of an order publishes two events.                                       *)
Direct ==
    {<<"ORDER_CREATED", "SALES_ORDER_CREATED">>} \cup
    {<<t>> : t \in KitchenEvents \cup FlagEvents \cup
                   (PurchaseEvents \ {"PURCHASE_ORDER_PARTIALLY_RECEIVED",
                                      "PURCHASE_ORDER_RECEIVED"})}

(* Published by the dispatcher of the outbox.                              *)
Outboxed ==
    {<<t>> : t \in {"ORDER_PAYMENT_SUCCESS", "SALES_ORDER_PAID",
                    "ORDER_RESERVATION_EXPIRED", "PURCHASE_ORDER_RECEIVED",
                    "PURCHASE_ORDER_PARTIALLY_RECEIVED"} \cup TransferEvents
                   \cup BusinessEvents \cup AdminEvents
                   \cup SubscriptionEvents \cup InvoiceEvents}

OutletsOf(types) ==
    IF HasOutlet(types[1])
    THEN {NoOutlet} \cup {s.outletId : s \in {s \in Sockets :
                                                s.tenantId = Tenant}}
    ELSE {NoOutlet}

Frame(type, left, next) == [type |-> type, left |-> left, next |-> next]

FanoutTypeOK ==
    /\ subscribed \in [Subscribers -> 1..5]
    /\ published.types \in Direct \cup Outboxed
    /\ outcome \in {"called", "running", "returned", "thrown"}
    /\ delivery \in 0..MaxDeliveries
    /\ Len(stack) <= 3
    /\ \A i \in DOMAIN stack : stack[i].left \subseteq Subscribers
    /\ \A i \in DOMAIN trail :
         trail[i] \in [delivery : 1..delivery, type : EventTypes,
                       by : Subscribers, did : BOOLEAN]
    /\ socket \in [Sockets -> {"away", "connected", "gone"}]

FanoutInit ==
    /\ subscribed \in SubscriptionOrders
    /\ \E ts \in Direct \cup Outboxed : \E o \in OutletsOf(ts) :
         published = [types |-> ts, outlet |-> o]
    /\ stack = <<>> /\ outcome = "called" /\ delivery = 0 /\ trail = <<>>
    /\ socket = [s \in Sockets |-> "away"]
    /\ inbox = [s \in Sockets |-> {}]
-----------------------------------------------------------------------------
(* The service, or the dispatcher of the outbox, begins.                   *)
deliver ==
    /\ outcome = "called" /\ delivery < MaxDeliveries
    /\ stack' = <<Frame("none", {}, published.types)>>
    /\ delivery' = delivery + 1 /\ outcome' = "running"
    /\ UNCHANGED <<subscribed, published, trail, socket, inbox>>

(* DomainEventBus.publish takes the handlers of the type ...               *)
Top == stack[Len(stack)]
publish ==
    /\ outcome = "running" /\ Top.next # <<>>
    /\ LET type == Head(Top.next) IN
       stack' = Append([stack EXCEPT ![Len(stack)].next = Tail(@)],
                       Frame(type, Handlers(type), <<>>))
    /\ UNCHANGED <<subscribed, published, outcome, delivery, trail, socket,
                   inbox>>

(* ... awaits one after the other ...                                      *)
NextHandler(h) ==
    /\ outcome = "running" /\ Top.next = <<>> /\ h \in Top.left
    /\ \A g \in Top.left : subscribed[h] <= subscribed[g]
Type == Top.type
Did(h, ok) ==
    trail' = Append(trail, [delivery |-> delivery, type |-> Type, by |-> h,
                            did |-> ok])
Continue(h, next) ==
    /\ stack' = [stack EXCEPT ![Len(stack)] =
                    Frame(Type, Top.left \ {h}, next)]
    /\ UNCHANGED <<subscribed, published, outcome, delivery, socket>>

(* ... and returns to who published.                                       *)
return ==
    /\ outcome = "running" /\ Top.next = <<>> /\ Top.left = {}
    /\ stack' = Front(stack)
    /\ outcome' = IF Len(stack) = 1 THEN "returned" ELSE outcome
    /\ UNCHANGED <<subscribed, published, delivery, trail, socket, inbox>>

(* AuditLogService.createAuditLog: a failed write is logged and no one     *)
(* hears of it, so the trail here is of rows that were to be written.      *)
createAuditLog ==
    /\ NextHandler("audit") /\ Did("audit", TRUE)
    /\ Continue("audit", <<>>) /\ UNCHANGED inbox

(* NotificationService.sendNotification: without a recipient there is no   *)
(* notification in the app and only a mail is queued, and a created        *)
(* purchase order has no template, so that nothing is.                     *)
sendNotification(type) == type # "PURCHASE_ORDER_CREATED"

(* The handlers of NotificationEventSubscriber swallow every error.        *)
handleNotification ==
    /\ NextHandler("notification")
    /\ Did("notification", sendNotification(Type))
    /\ Continue("notification", <<>>) /\ UNCHANGED inbox

(* DomainEventObservabilityService.observe.                                *)
observe ==
    /\ NextHandler("metrics") /\ Did("metrics", TRUE)
    /\ Continue("metrics", <<>>) /\ UNCHANGED inbox
-----------------------------------------------------------------------------
(* The rooms of a socket that is connected.                                *)
RoomsOf(s) ==
    {<<"tenant", s.tenantId>>, <<"user", s.userId>>} \cup
    IF s.outletId = NoOutlet THEN {} ELSE {<<"outlet", s.outletId>>}
Joined(s) == IF socket[s] = "connected" THEN RoomsOf(s) ELSE {}

(* The rooms of an event; the events the orchestrator publishes carry no   *)
(* outlet, and no published event carries a user.                          *)
getRealtimeEventRooms(type) ==
    {<<"tenant", Tenant>>} \cup
    IF HasOutlet(type) /\ published.outlet # NoOutlet
    THEN {<<"outlet", published.outlet>>} ELSE {}

(* RealtimeEventEmitter.emitToRooms: once to each room.                    *)
emitToRooms(rooms) ==
    inbox' = [s \in Sockets |-> inbox[s] \cup
         {[delivery |-> delivery, type |-> Type, room |-> r] :
            r \in rooms \cap Joined(s)}]

(* RealtimeEventsSubscriber.handleDomainEvent.                             *)
handleDomainEvent ==
    /\ NextHandler("realtime") /\ Did("realtime", TRUE)
    /\ emitToRooms(getRealtimeEventRooms(Type))
    /\ Continue("realtime", <<>>)

(* A socket that has authenticated joins its rooms, all in its own process *)
(* and at once, and leaves them when it is disconnected.                   *)
Move(s, from, to) ==
    /\ socket[s] = from
    /\ socket' = [socket EXCEPT ![s] = to]
    /\ UNCHANGED <<subscribed, published, stack, outcome, delivery, trail,
                   inbox>>
handleConnection(s) == Move(s, "away", "connected")
handleDisconnect(s) == Move(s, "connected", "gone")
-----------------------------------------------------------------------------
(* What the orchestrator publishes when it has reserved the stock of an    *)
(* open bill, or committed and fulfilled a paid order of a shop.           *)
Follows(type) ==
    IF type = "ORDER_CREATED"
    THEN {<<"ORDER_RESERVED", "SALES_ORDER_CONFIRMED">>}
    ELSE {<<"ORDER_FULFILLMENT_STARTED">>,
          <<"ORDER_FULFILLMENT_STARTED", "SALES_ORDER_COMPLETED",
            "SALES_ORDER_COMPLETED_V2">>}

(* It leaves an order that is not an open bill, or not fully paid, alone;  *)
(* a cafe's paid order it only reserves and releases to the kitchen.       *)
handleOrder ==
    /\ NextHandler("orchestrator")
    /\ \/ UNCHANGED trail /\ Continue("orchestrator", <<>>)
       \/ /\ Type = "ORDER_PAYMENT_SUCCESS"
          /\ Did("orchestrator", TRUE) /\ Continue("orchestrator", <<>>)
       \/ /\ Did("orchestrator", TRUE)
          /\ \E next \in Follows(Type) : Continue("orchestrator", next)
    /\ UNCHANGED inbox

(* Where the publisher goes when it is cut off: the outbox delivers its    *)
(* event again.                                                            *)
CutOff ==
    /\ stack' = <<>>
    /\ outcome' = IF published.types \in Outboxed /\ delivery < MaxDeliveries
                  THEN "called" ELSE "thrown"

(* It throws, having cancelled a created order: no other subscriber throws.*)
throwError ==
    /\ NextHandler("orchestrator") /\ Did("orchestrator", FALSE)
    /\ CutOff
    /\ UNCHANGED <<subscribed, published, delivery, socket, inbox>>

(* The process stops; its sockets are gone and its calls are cut off.      *)
crash ==
    /\ outcome = "running" /\ CutOff
    /\ socket' = [s \in Sockets |->
                    IF socket[s] = "connected" THEN "gone" ELSE socket[s]]
    /\ UNCHANGED <<subscribed, published, delivery, trail, inbox>>

FanoutNext ==
    \/ deliver \/ publish \/ return \/ createAuditLog \/ handleNotification
    \/ observe \/ handleDomainEvent \/ handleOrder \/ throwError \/ crash
    \/ \E s \in Sockets : handleConnection(s) \/ handleDisconnect(s)

FanoutSpec == FanoutInit /\ [][FanoutNext]_fanoutVars
-----------------------------------------------------------------------------
Steps(h) == {i \in DOMAIN trail : trail[i].by = h}
Before(i, h, type) ==
    \E j \in Steps(h) : j < i /\ trail[j].delivery = trail[i].delivery
                              /\ trail[j].type = type

(* Whatever a delivery does to an order, or makes a client see of an       *)
(* audited event, it has tried to put on the audit trail before: the       *)
(* orchestrator may throw, or the process stop, but not ahead of the trail.*)
AuditedFirst ==
    \A i \in DOMAIN trail :
        trail[i].by # "audit" /\ trail[i].type \in Audited
            => Before(i, "audit", trail[i].type)

(* What follows from an order is announced after the orchestrator's step   *)
(* in the same delivery, and never for an order whose step has failed.     *)
CauseFirst ==
    \A i \in DOMAIN trail : \A type \in Orchestrated :
        (\E next \in Follows(type) : trail[i].type \in Range(next))
            => \E j \in Steps("orchestrator") :
                 /\ j < i /\ trail[j].delivery = trail[i].delivery
                 /\ trail[j].type = type /\ trail[j].did

(* A publisher whose call has returned was heard by every subscriber of    *)
(* every event; one that was cut off leaves the events behind the one it   *)
(* was in unheard.                                                         *)
ReturnedIsHeard ==
    \A type \in Range(published.types), h \in Subscribers \ {"orchestrator"} :
        outcome = "returned" /\ type \in SubscribedTo[h] =>
            \E i \in Steps(h) :
                trail[i].delivery = delivery /\ trail[i].type = type

(* No socket receives an event of another tenant.                          *)
OwnTenantOnly == \A s \in Sockets : s.tenantId # Tenant => inbox[s] = {}

(* The subscribers can rely on the order in which the bus calls them, and  *)
(* the clients on the rooms.                                               *)
FanoutIsSound ==
    FanoutTypeOK /\ AuditedFirst /\ CauseFirst /\ ReturnedIsHeard
    /\ OwnTenantOnly
=============================================================================
