# A TLA+ verification of ERP-Multi-Business

ERP-Multi-Business is a multi-tenant ERP for shops and cafes: a NestJS API over
PostgreSQL, a BullMQ worker and a web client. This directory models what several
requests, jobs, operators and tabs do to the same rows at the same time: the way
of an order from the till to fulfilment, the outbox and the event bus, the
kitchen, stock and what it cost, purchasing and transfers, billing and
subscriptions, tenants, staff and sessions, the platform's flags, settings and
workers, and the pages of the web client with their query cache.

## Inventory of the system

| Component | State | Operations | Talks to | Hard part |
|---|---|---|---|---|
| Orders, `modules/orders` | `SalesOrder` rows: status, mode, kitchenReleasedAt | create, cancel, markPaid, releaseToKitchen; the orchestrator's handlers | payments, reservations, kitchen through the event bus | a handler is several transactions |
| Payments, `modules/payments` | paidAmount, paymentStatus, `Payment` rows | pay | writes ORDER_PAYMENT_SUCCESS to the outbox, after its transaction | crash between the two |
| Reservations, `modules/inventory` | `InventoryMovement` rows by referenceType, `InventoryStock.quantity` | reserve, release, commit, expire | called by orchestrator, kitchen, worker | races for the same rows |
| Fulfilment, `inventory.repository.ts` | the same rows, order status | fulfillRetail | called by the orchestrator | redelivered events, expired reservations |
| Outbox, `core/events`, `infrastructure/events` | `OutboxEvent` rows | publish, dispatchBatch every minute | hands events to the bus in the API process | no claim on rows, overlapping runs, crashes |
| Event bus, audit, notifications, websocket | subscriptions, log and message rows, sockets and rooms | publish, the subscribers' handlers, connect | every service publishes | order of subscribers, errors, redelivery |
| Kitchen, `modules/kitchen` | none of its own: the order's status | start, ready, serve, cancel, recall | reservations, events | several operators, read-check-write |
| Stock ledger and costing, `modules/inventory` | stock rows, movements, layers, averages | stock in, adjust, reserve, ship, receive; choice of a valuation | every stock operation | absolute writes, unlocked increments, value through partial receipts, replay of old ledgers |
| Warehouse transfers, `modules/inventory` | transfer, item and receipt rows, stock | create, ship, receive, cancel | outbox, costing | idempotency keys, partial receipts |
| Purchase orders, `modules/purchase-orders` | order, line and receipt rows, stock | create, update, delete, updateStatus, receive | stock, costing, outbox | check first and write later |
| Reservation expiry, `apps/worker` | none | a job every five minutes | `expireReservations` | races every user of reservations |
| Billing, `modules/billing` | invoices, payment attempts, webhook receipts | issue, pay, cancel, webhook | Xendit | lost answers, repeated and early webhooks |
| Subscription, `modules/subscription` | one row per tenant | trial, plan, renewal, cancel; the platform's change of plan | billing | whole-row saves of an old copy |
| Tenants, business registry | the tenant's row, base currency | activate, suspend, edit, settings | orders and purchases read the currency | whole-row saves, snapshots older than a lock |
| Authentication, `modules/auth` | sessions, refresh tokens, the browser's cookie | login, refresh, change of outlet, logout | RBAC, web client | several tabs with one cookie, pages loaded while a refresh runs |
| RBAC and users | users, roles, invitations | set status and roles, edit and delete roles, invite, accept | authentication | losing the last administrator |
| Feature flags, platform settings | rows, a cache, versions | change, evaluate, update | - | stale cache, lost update |
| Worker registry, job history | `WorkerInstance`, `JobExecution` rows | heartbeat, mark stopped; events of the queue | BullMQ | restarts, shared keys, attempts counted in memory |
| Catalogue (suppliers, warehouses, ingredients, products, recipes) | single rows | create, update, remove | everything refers to it | removed while it comes into use |
| Web client, `apps/web` | query cache, session store, sessionStorage | queries and mutations of the pages; retried forms | the API | invalidation against requests in flight, gates repeated by hand |
| Analytics, observability, storage, queue wrappers | counters, files | queries, uploads | - | - |

What makes each part correct: stock and its value are never lost, created or
promised twice; an order follows its state machine and is fulfilled only when
paid; goods are deducted once however often an event is delivered; an event that
was written is handled or visibly failed; a repeated request has the effect of
one; a payment is taken once and settles its invoice; a decision taken on a read
still holds when it is written, or the row shows that it does not; a user sees
what a change of theirs did, and rows of their own session only.
`PROJECT.json` lists the hazards line by line and the properties that face them.

## Modules

| Module | Models | State | Actions |
|---|---|---|---|
| `OrderSaga` | orders, payments, reservations, dispatch of ORDER_PAYMENT_SUCCESS, fulfilment, kitchen, expiry | order columns; one stock row; movement rows counted by referenceType; outbox rows; steps of the handlers | one per transaction, and crashes between them |
| `OrderLifecycle` | what the order module promises (abstract) | status, regular, settled | Place, Settle, Move |
| `OutboxDispatcher` | the outbox for any event | rows, the batch and step of each run | publish, the steps of dispatchBatch, faults |
| `EventFanout` | the bus and its subscribers | subscription order, stack of deliveries, trail of handlers, inboxes of sockets | deliver, publish, one per subscriber, errors, crash, connect |
| `KitchenDisplay` | the five kitchen endpoints | order status, step and copy of each call, published events | Read, updateStatus, Reread, Publish; cancelOrder |
| `WarehouseTransfer` | `WarehouseTransferService` | calls of create, transfers, receipts, stock of both warehouses, outbox rows | the steps of create; ship, receive, cancel |
| `PurchaseOrder` | `PurchaseOrderService` and its repository | calls with what they read; orders, lines, totals, receipts, stock, outbox rows | the steps of create, update and delete; updateStatus, receivePurchaseOrder |
| `InventoryCosting` | `InventoryCostingService` and the stock operations it costs | balances and where their doubles lie above, layers, averages, reservations, one shipment, an adjustment in progress | configureValuation, stockIn, readBalance and adjustment, reserve, release, commit, ship, receive |
| `HistoricalFifo` | `reconstructHistoricalFifo` as a recursive function of a ledger | a ledger that grows, with legacy gaps, and what is really on the shelf | one per kind of movement |
| `InvoiceLifecycle` | what billing promises (abstract) | invoice and subscription status | Issue, Cancel, Settle |
| `PaymentRequests` | `createXenditPaymentRequest`, webhooks, cancellation; the provider from both ends | invoices, attempt rows, steps of calls, payments, receipts, outbox rows | one per read or transaction of a call, the provider, webhooks |
| `Subscription` | subscription service, renewal, the platform's change of plan | the row, copies held by calls, invoices per month | load, save, invoice, die; settle, cancel; the month |
| `TenantLifecycle` | platform, registry and settings writes of one tenant; currency | the row, copies, sales in flight, snapshots | check and change; load and save; lock and update; read and create |
| `PlatformSettings` | one versioned setting | row, pages, updates in progress | list, findSetting, writeSetting |
| `Sessions` | login, rotation, change of outlet, logout, tabs | sessions, tokens, cookie, tabs, calls | each read or transaction; page loads; deactivation, outlets taken away |
| `Staff` | users, roles, invitations | who is active and holds what; roles being edited; invitations | the locked operations as one step, the others in two |
| `FeatureFlags` | a flag, its cache | row, copies, cached result | steps of a call; evaluate, cacheResult, expiry of the cache |
| `WorkerRegistry`, `JobHistory` | rows of workers and of a job's attempts | rows, processes, the queue's events per process | register, timer, heartbeat, stop, crash; one per event and await |
| `Catalogue` | the removable catalogues and what refers to them | rows, references, calls with what they read | reads and writes of create, update, remove; insertion of references; replacement of reorder rules |
| `RetryClient` | the three forms that repeat a request with its key | page, sessionStorage, requests under way, rows at the server | fill in, submit, reload, answers, losses, delays |
| `WebApi`, `WebClient`, `WebPages`, `WebWorkPages` | tables: handlers with guard and rows; client functions and keys; queries and mutations of every page | - | - |
| `WebCache` | a tab with its query cache and session | a query and a mutation of a page, the cache entry, requests, session and outlet | open, close, fetch, answer, invalidate, patch, collect; sign out, change outlet |
| `MC*` | instances for TLC | | |
| `*_proofs` | theorems | | |

Granularity. A database transaction that locks its rows first, or changes them by
conditional updates, is one action; whatever lies between two transactions of a
handler is a point where others run. A handler that reads, decides and writes
later is at least two actions, with what it read kept in the call. Where a
transaction's isolation matters it is modelled: the snapshot of a SERIALIZABLE
change of settings is taken before the lock it waits for is granted
(`TenantLifecycle`), the filter of the cancelling UPDATE is evaluated before the
row is locked (`PaymentRequests`), the item lock does not cover the increment of
a release (`InventoryCosting`). `fulfillRetail` runs serializable and is one
action. The two-phase read of `pay` is one action because the locked transaction
repeats every check of the first.

`OrderSaga`. `Create` ... `OpenCancel` are `OrdersService.create` and
`handleOrderCreated`; `Pay` and `PublishPaymentSuccess` are the two halves of
`PaymentsService.pay`; `Fetch`, `Take`, `Handle*` and `Mark*` are one delivery by
`dispatchBatch` into `handlePaymentSuccess`, step by step; `StartCooking` ...
`Recall` are the kitchen's update with the reservation work in its transaction
(what the calls do around it is in `KitchenDisplay`); `Age` and
`expireReservations` are the worker. `CrashDispatcher`, `CrashOpening` and
`CrashPayment` end a process between two transactions. An order needs a number
of units of one item: several items would be reserved in the same transaction
and fail or succeed together. A payment is named by the paid amount it leads to,
which is unique because `createPayment` locks the order. The quantities of
reservation rows are Need units each, so counts suffice. SALES_ORDER_PAID and
the events published at the end of the handlers are in `EventFanout`: their
subscribers notify and log. `handlePaymentFailed` is left out because nothing in
the repository publishes ORDER_PAYMENT_FAILED.

`OutboxDispatcher` leaves the subscribers open (they return or throw), so what it
shows holds for every event type. `OrderSaga` contains its own copy of the
dispatch steps, specialised to one event type and one handler.

`PurchaseOrder`. A call of update or delete is two actions, `ReadFor*` with the
check of the status and `WriteUpdate` or `WriteDelete`, because nothing holds the
row in between. The amount of an order is represented by the lines it was summed
from, so that a total written back from a stale copy can be told from the right
one. `PurchaseOrderReceiptItem` refers to `PurchaseOrderItem` with ON DELETE
RESTRICT: replacing received lines, or deleting an order that has them (the
cascade reaches the lines first, their constraint being the older one), fails.
The in-process set `statusTransitionLocks` only turns a wait into an error; the
row lock of `updateStatus` makes it one action. Its events have no subscribers.

`PaymentRequests` models the provider by what it can do to a request (create it
or not, settle it) and to the caller (answer, refuse, stay silent); it repeats,
reorders and drops webhooks until they are taken. `Subscription` extends
`InvoiceLifecycle`, the promise `PaymentRequests` is shown to keep, so that its
invoices are settled the way billing settles them.

The web client. `WebApi` names each handler with the permissions of its guard and
the kinds of rows it shows or changes; `WebClient` the keys and functions of each
feature; `WebPages` and `WebWorkPages` what each page mounts and offers, with its
gates and what `onSuccess` invalidates, removes, sets and patches. `WebCache`
takes every pair of a query and a mutation of a page, with a session that holds
what one, the other or both ask for, and keeps of a pair what the cache and the
guards tell apart; pairs alike in that are one initial state. The query client
is external and modelled by how react-query 5 treats an invalidated query with
and without rows. Exceptions are named in the module: `NotRefreshed` (three
places where a page does not show a change by itself) and `WeakGates` (pages that
ask for less than the handler demands); `raced` and `carried` record the two
races that the code leaves open (a first fetch in flight when its query is
invalidated; a session lost, or an outlet changed at the server only, which
leave the cache as it is).

## Runs

Passing runs:

| Run | Instance | Shows |
|---|---|---|
| `saga_retail` | 1 order, 2 instalments, 2 dispatchers, 2 crashes, 1 expiry | `StockConserved`, `OneLiveReservation`, `FulfilledOnlyWhenPaid`, `DeductedOnceUnlessExpired`, `PaidIsFulfilled`, `TypeOK`, refinement of `OrderLifecycle` (`FollowsLifecycle`) |
| `saga_cafe` | 2 orders competing for 2 units, 1 dispatcher, 1 crash, 1 expiry | `PaidIsFulfilled`: preparation, recall and second cooking consume once unless a reservation expired |
| `saga_live` | 2 retail orders, 2 dispatchers, enough stock, no crash | `PaidOrderProceeds` |
| `purchase_late` | 2 orders of 2 items, 2 late updates or deletes, 2 warehouses, 2 receipt keys | `ReceiptsAgree` (receipts, lines, stock and outbox), `StatusMatchesReceipts`, `ReceivedIsFixed` |
| `services` | outbox: 2 rows, batches of 1, 2 runs, 1 fault each; payments: 1 invoice, 3 calls; a flag with 2 calls and an evaluator; workers: 2 processes, 2 keys | `DeliveryIsSound`, `EventuallySettled`; `PaymentsAreSound`, `LifecycleSpec`, `CapturedIsPaid`; `FlagIsKept`, `CacheSettles`; `ListIsTruthful` |
| `back_office` | 2 platform calls, a registry and a settings call, 2 sales, 2 currencies; 2 users, an invitation, 2 roles; 3 flows in 2 tabs, one of them left, 2 outlets; 3 subscription calls over 2 months; a form with 2 bodies, 3 keys and 4 sends; every pair of the web pages with 2 changes and 3 scopes | `TenantRowIsSound`, `SaleKeepsCurrency`; `StaffIsKept`; `SessionsAreSound`; `SubscriptionIsSound`; `RetriesAreSafe`; `OwnChangeShown`, `RowsOfSession`, `OfferedIsAllowed` |
| `ledgers` | 3 calls of create with 2 keys and 2 bodies, 3 receipt keys; 3 operators on a ticket; a job of 3 attempts and 2 listeners; 3 administrators; 3 writers of a catalogue; every published event, 2 deliveries; a buyer, 2 locations, 2 unit costs, amounts of 1 and 2, 2 adjustments; ledgers of 4 movements of 1 or 2 units, one of them without balances | `CreateIsIdempotent`, `StockConserved`, `TransferBooksAgree`; `MovesAreLegal`; `HistoryIsReliable`; `SettingIsKept`; `CatalogueIsKept`; `FanoutIsSound`; `CostingIsSound`, `ValueConserved`; `ReplayIsFaithful` |

`services`, `back_office` and `ledgers` each hold several components that share no row. Exploring their product would multiply states that have nothing to do with
each other, so `focus` chooses, in the initial state, the component whose steps a
behaviour takes; the others rest in an initial state. Each property is about the
variables of one component, and every behaviour of that component is explored.

What the less obvious properties say:

- `PaidIsFulfilled`: the event of a settling payment is marked PROCESSED only if
  its order is completed (retail), or was handed to the kitchen or is cancelled
  (cafe), although several deliveries of it overlap, die and are repeated
  (`ProcessedHadEffect`); a completed retail order has taken its goods
  (`RetailCompletionConsumes`), and an order in preparation its ingredients, once
  over any recall, unless a reservation expired
  (`PreparationCommitsUnlessExpired`).
- `ListIsTruthful`: a worker of which nothing is left is in the end not listed as
  active and no other worker's step brings it back; one that runs is listed again
  and again.
- `StaffIsKept`: the last administrator, or a user's last role, goes only by the
  edit or removal of a role, which the code does not count; an invitation that
  was used or revoked stays so; an address has one account.
- `SessionsAreSound`: a session has one usable token, an ended session stays ended,
  a refresh does not undo a change of outlet, and a deactivation ends every
  session but one whose login had passed its check. A page is refused the refresh
  of a live session only because another call used up its token
  (`TabKeepsSession`): one of another tab, a change of outlet, or one of the same
  tab whose answer was lost or came after the page was loaded again. So the
  requests of one page never cost it its session, but a page load during a
  refresh (`hydrate` sends the cookie again), or a lost answer, may log the
  browser out.
- `SubscriptionIsSound`: a cancelled subscription comes back, and the plan
  changes, only in the ways the rules say or by the save of an old copy, and a
  renewal that returned has its invoice.
- `CostingIsSound`: every unit on the shelf or reserved is costed under every
  interleaving with unlocked releases, and an average stays among the costs it
  averages. Balances are doubles and layers decimals of six places: receipts of
  1.1 and 2.2 leave a balance of 3.3000000000000003 over layers of 3.3, and
  `consumeFifoLayers` compares without tolerance. The model counts decimals of the
  last place and keeps where a double lies above its decimal (`above`); rounding
  is otherwise far below half a place. So the property does not say that no
  commit is refused: it says that the only one refused for want of a cost is a
  FIFO commit that takes the last of a location's layers and whose double lies
  above them, and that no other commit, no shipment, adjustment or stock-in is.
  The last receipt of a transfer, whose difference of doubles may lie above in the
  same way, is refused too (the guard of `receiveTransfer`).
  `ValueConserved`: under FIFO receipts equal issues, layers and transit.
- `ReplayIsFaithful`: a replay layers every unit, whatever gaps the ledger has,
  rows without balances included. Compared with a definition of FIFO by the units
  received last, and as long as no balance was edited without a movement, it gives
  a cost to no more units than FIFO leaves at that cost. Each unit has the cost of
  the unit in its place only until a reservation is given back: a return comes
  back as units of unknown cost behind all others, although they had left from the
  front. After an edit it claims no cost, once no reservation is active. Amounts
  are exact here; the code compares within 1e-6, and rounding can only make it
  give up or leave less than that behind.
- `HistoryIsReliable`: rows of attempts tell what happened although each process
  counts attempts by itself.
- `CatalogueIsKept`: no reference to a row that is gone, no unit changed under a
  counted quantity; suppliers, warehouses and SKUs keep unique names through
  creations and renames, and an ingredient's name is taken twice only by checks
  that overlapped. References include the reorder rules, which go with their
  warehouse or item.
- `FanoutIsSound`: an event is audited before any other subscriber hears it,
  causes are heard before effects, a delivery that returned reached every
  subscriber, and no socket hears of another tenant.

Runs with an expected violation state what the repository's documents say and show
where the code does otherwise (the quotations are in `PROJECT.json`):

| Run | What happens |
|---|---|
| `saga_expiry_deduction` | A reservation expires while two deliveries of the payment event overlap: one fulfils from stock directly, the other reserves again and commits. The goods leave twice. |
| `saga_cancel` | An unpaid open bill is cancelled after its creation committed and before the same request reserves; the reservation is then made for the cancelled order and stays active until it expires. |
| `kitchen_announce` | Serve and cancel commit, then read the ticket with a query that excludes finished orders, report failure and publish nothing. |
| `purchase_approved` | An update reads a DRAFT, the order moves on, and the update replaces the lines all the same. |
| `currency_change` | A change of the base currency takes its snapshot, waits for the lock of an order that is being created, and does not count that order. |

### Bounds

Two dispatchers are the least that overlap, and a third adds no new kind of
overlap because runs share nothing but the rows. Two instalments distinguish a
partial from a settling payment. Stock is chosen so that orders both succeed and
fail to reserve. Three calls, where a key or an invoice is contended, are two that
race and one that comes late; flows and subscription calls take their names in the
order in which they start, which leaves out renamings only (`InOrderOfStart`). Two
late edits of a purchase order are an update
that races a delete or another update; `MaxUnits` bounds only the body of one
receipt and is as large as the largest line, so that a receipt can complete it at
once or exceed it. Amounts of one and two units at two costs, over one
opening unit and the stock-ins, let a shipment empty two layers and be received in parts while later receipts add layers;
`MaxMovements = 4` reaches a receipt, a reservation, its commit and a receipt after
it, from an empty or a stocked shelf (`UnitsBefore`), and `UnitsEdited` has edits of
the balance in both directions; `MaxUnwritten = 1` puts a row without balances
first, last or between. `Lots` is apart from `Amounts` because a stock-in of one
unit already makes a second layer. `MaxCut = 1` lets a page be loaded again while
one of its calls runs. `MaxScopes = 3` is a session, another and the first's late answer;
`MaxChangesSeen = 2` a change that is shown and one that overtakes its fetch.
`MaxMonth = 2` has a renewal on either side of a month's end. `MaxKeys` and
`MaxSends` allow a retry, a body that was changed and a third submission.
MaxCrashes, MaxExpiries, MaxRestarts and the Max...Faults keep the state space
finite; one crash between any two steps already reaches every recovery path and
`saga_retail` has two so that the recovery itself can be interrupted. The
theorems have none of these bounds: the constants are arbitrary. Symmetry is used
where model values are interchangeable and the run has no liveness property.
Deadlock is not checked: a shop with nothing to do may stop, and the bounded
counters end every behaviour.

### Fairness

`OrderSaga!FairSpec` (`saga_live`) and `MCServices!ServicesFairness` assume weak
fairness of each dispatcher: the cron entry of `MaintenanceScheduler` fires every
minute in a running process, and awaits of handlers and database calls end.
`OrderSaga` also assumes that a request that was accepted is carried through
(`OpenBill`, `PublishPaymentSuccess`), and `purchase_approved` the same for the
write of an update. Of billing only the provider's repetition of webhooks is fair
(it retries until one is taken), so `CapturedIsPaid` rests on nothing the caller
does; calls may stop anywhere. Of flags, the steps of a call, the storing of an
evaluation and the five minutes of the cache; of workers, the interval timer of a
living process, its heartbeat's write and the passing of time.
Nobody is obliged to pay, cook, ship, receive or answer, and expiry, crashes and
faults are never fair.

`PaidOrderProceeds` begins at the outbox row. It could not begin at the payment:
the row is written after the payment's transaction, and a process that dies in
between leaves a paid order nobody fulfils (`CrashPayment`). It is checked
without crashes because the redelivered event of an order that was left PAID
fails at `markPaid` and is not retried.

## Proofs

Checked by TLAPS with the SMT, Zenon and PTL backends, for all values of the
constants that satisfy the assumptions named in the modules. They give the
constants their types (`SagaConstants`, `OutboxConstants`, `TransferConstants`,
`PurchaseOrderConstants`, `PaymentConstants`, `FlagConstants`, `CostingConstants`,
`JobConstants`, `CatalogueConstants`, `FanoutConstants`, `CurrencyAssumption`,
`SettingAssumption`, `StaffConstants`, `SessionConstants`, `SubscriptionConstants`,
`RetryConstants`, `HistoryConstants`, `WorkerConstants`, `WebBounds`), and three say more. `OneTenantEach`: an outlet and a
user belong to one tenant. `GatesCoverGuards` and `MutationsNameQueries` are facts
about the tables of the pages, computed from them: every pair of a query and a
mutation that is not listed as an exception has gates that ask for what the guard
demands and an `onSuccess` that names the query. TLC evaluates all of them.

Every invariant of the passing runs is a theorem, and so is every action property
and refinement; how each is proved:

- `Sums_proofs`. A sum over a finite set (`SumFunctionOnSet` of the community
  modules) is the sum without one element plus that element, is a natural number
  if its terms are, and moves by the difference when one term moves. The library
  defines it by CHOOSE over a recursion; existence and uniqueness are shown by
  taking a least counterexample, because the induction theorems of the library
  take an operator and cannot be used. All that follows about quantities rests on
  these lemmas.
- `OrderSaga_proofs`. `SagaInv` is inductive. Beyond types and
  `OneLiveReservation` it says what one component may conclude from another's
  rows: an order is settled exactly when its paid amount is the total, and an
  event for a payment exists only if that amount was reached (`PaymentInv`); a
  dispatcher past the first step of the handler handles a settling payment, and
  one at the last steps saw the status it relies on (`DispatchInv`); completed
  retail orders have consumed goods and direct deductions belong to completed
  orders (`FulfilmentInv`); and, as long as nothing expired, a reservation that a
  handler committed stays committed (`UnexpiredInv`). Without `PaymentInv` and
  `DispatchInv` a handler in an arbitrary state could mark an unpaid order PAID.
  From it follow type correctness (stock is never negative),
  `OneLiveReservation`, `FulfilledOnlyWhenPaid`, `RetailCompletionConsumes`,
  `DeductedOnceUnlessExpired` and `PreparationCommitsUnlessExpired`. The last two
  need their condition: `saga_expiry_deduction` shows that one expiry is enough to
  break what the first says. `NoUnitLost`: a step moves units between the shelf
  and the rows of one order, so of the sum over orders one term moves by what the
  shelf does. `ImplementsLifecycle` maps every step to a step of `OrderLifecycle`
  or a stutter, with the invariant supplying the payment guards.
  `ProcessedIsHandled` uses that refinement: `EffectInv` says of every dispatcher
  about to mark an event what `ProcessedHadEffect` says of the marked ones, and
  what other processes do until it marks cannot undo the effect, because in
  `OrderLifecycle` a completed or cancelled order never moves again and an order
  handed to the kitchen stays handed over. Together they give `PaidIsFulfilled`.
- `PurchaseOrder_proofs`. `PurchaseInv`: beyond `StatusMatchesReceipts`, a complete
  order has receipts and an order without receipts counts nothing as received
  (`OrderInv`), and a late update or delete is about an order that was there
  (`CallsInv`). The checks of status in update and delete play no part in the
  argument: the foreign key from receipt lines to order lines does, because it
  makes the late write impossible once there is a receipt. Hence
  `StatusTellsReceipts`, `ReceivedOrdersAreFixed` and `NumbersAreUnique`.
  `BooksAgree` carries the sums along (`BooksInv`): a receipt adds one row, and its
  quantities to one line and one shelf; a step that touches no receipt keeps the
  sum of every order and warehouse.
- `Stock_proofs`. Transfers: `TransferInv` (one transfer per key, answers match
  requests, lines match status); the unique index carries the argument, `Insert`
  being possible only while no transfer has the key. `NoUnitLost`: what a step
  takes from the units on the way of one transfer it adds to one of the
  warehouses. `BooksAgree`: the events told are those of a path to the status
  (`StoryOf`), and what a line received is the sum of the receipts of its transfer.
  Costing: `CostingInv` adds to `CostingIsSound` and `ValueConserved` that the
  allocations of a shipment are as many units as were sent (`ShipmentInv`), that
  the adjustment in progress read a balance that has only grown since
  (`AdjustingInv`: only a release may run beside it, and what it adds is
  overwritten, which leaves fewer units to cost, never more), and that an average
  is a fraction with a positive denominator. Under an average `StockIsCosted`
  speaks of doubles too: a pool in which a sum or a difference has left a residue
  still has its average. The lemmas say what taking units in
  order does: `InOrderSum` (as many as asked for, if there are), `RestCovers` and
  `RestWorth` (what an issue leaves in every location and in value), `CopiedIs`
  (the part of the allocations between two receipts is worth the difference of
  what was received), `WeightedAveraged` (an average of averages, cancelled to
  lowest terms, is between the costs). `RefusesNothing` turns what is costed into
  what may be issued: the layers cover the units of every reservation and of the
  shelf, so that only a double above them can ask for more, and a pool with units
  or a residue has an average.
  Replay: `HistoryInv` says of the ledger what the replay relies on: the sign of
  every kind of movement, written or not (`SignsOf`), that the rows add up to the
  balance exactly when nothing was edited behind them (`AddsUp`, which follows the
  sum through rows without balances), and how many units had arrived by each row
  and at what cost (`CountOf`, `CostsOf`). The replay is a recursive function of
  the number of rows. Induction over that number (on a set of naturals, so that no
  theorem with an operator as its parameter is needed) keeps a map from the units
  left after n rows to the arrivals (`Placed`): a unit with a known cost is an
  arrival of that cost, no two units are the same one, each lies at its place from
  the end or, after a return, before it. An issue removes from the front of both,
  a return adds units of unknown cost at the end of one only. Counting along the
  map gives `ReplayFaithful`, for ledgers of any length.
- `Services_proofs`. Outbox: a run that is to acknowledge a row handled it; a row
  in a run's batch was delivered by that run at most as often as it faulted.
  Payments: `PaymentInv`: a call that holds the claim, or has a payment at the
  provider, keeps the attempt from being claimed, and two calls for one invoice
  never both do (`ClaimInv`); a call has a payment only in the steps after its
  charge (`ChargedInv`). Hence `PaymentsSound`: one payment request per invoice,
  settled as reported, events in order. `ImplementsInvoiceLifecycle` needs only
  the types: settling and cancelling are conditional on PENDING. Flags: `FlagInv`:
  what a call or an evaluation has read still holds unless the row was saved
  since, hence `FlagKept`. Workers: a process that is gone neither registers nor
  starts a heartbeat, and the only write to a row of another key marks it stale
  (`GoneWorkersStayGone`).
- `Records_proofs`. Kitchen: a call past its update is in `moved`; a call about to
  update holds a status from which its target is a legal move. Catalogue:
  `CatalogueInv`: what a writer found free or unused is so until it writes, or an
  overlapping writer or reference is recorded in `missed`; where the database
  keeps names unique the write itself asks again. Settings: a page that
  shows the current version shows the current value, because every write raises
  the version (`PagesInv`). Jobs: `JobInv`: the queue's events come in the order
  of the attempts, a listener's count is behind by the events it has yet to hear,
  and an ACTIVE row is remembered by a process that will hear its end. Event bus:
  `FanoutInv`: the stack is at most three deep, each level runs handlers of events
  the level below publishes, and what a subscriber has not been told is still to
  be told by some level (`HeardInv`); the audit is first in the order of
  subscription, so the frame of an audited event either has it before it or has
  told it.
- `Administration_proofs`. `TenantInv` adds to `TenantRowIsSound` that every copy
  held by a registry call agrees with itself, so that writing it back cannot
  separate status and deletion. `CurrencyInv`: a sale in flight that met no change
  of settings has the tenant's currency and nobody waits for the row, and a
  waiting change counts every sale it has not met; hence `CurrencyKept`. The sales
  it excuses are those of `currency_change`. Staff: whoever has no account holds
  no role (`StaffInv`), so that an accepted invitation replaces nothing.
  `SessionInv`: a cookie and what a flow sent are tokens that were handed out, a
  token belongs to a session whose login is over, a revoked token of a live session
  was used up by some call (`UsedUp`), the refreshes of one page follow each other
  and none is sent with the token of one that was answered (`PageInv`), and a
  refresh that may still rotate knows the outlet. A refused refresh therefore
  finds the call that used up its token, and it is none its page had answered.
  `SubscriptionInv`: a call whose copy is not outdated saves only what the rules
  allow.
- `WebTab_proofs`. `RetryInv`: the request under way is the saved one, what is
  saved of an earlier intention was carried out, at most one key per intention is
  open or stored unless it was given up (`OneOpenPerIntention`, `SavedInv`), and
  when a refusal is shown nothing of the intention is on its way (`RefusalInv`);
  hence `RetriesSafe`. `ScopeInv`: unless rows were carried over, those in the
  cache and those on their way are of the scope of the moment or the outlet is
  being changed, and signing out leaves none; hence `RowsAreOfSession`. `PageInv`:
  a request is under way only where the page offers it, and refused only by its
  guard (`OfferInv`); rows on their way have every change the page was told of
  unless they were in flight when it was told, and rows in the cache have it or
  will be fetched (`ChangeInv`). With the two facts about the tables it gives
  `OfferedAllowed` and `OwnChangesShown` for every page.

Only model-checked:

- liveness under fairness (`PaidOrderProceeds`, `EventuallySettled`,
  `CapturedIsPaid`, `CacheSettles`, and of `ListIsTruthful` the two conjuncts
  `GoneIsNotActive` and `ServingIsListed`), which needs ENABLED.

## Not modelled

- Prices, taxes and discounts; several items and warehouses per order; the choice
  of warehouse rows by `reserveRequirement`; fractional quantities (but for what
  `InventoryCosting` says of their rounding, so `OrderSaga` has no commit refused
  by it) and the 1e-9 tolerance of both receive operations; two lines for one item in an updated
  purchase order, and the month in its number; price variances.
- Standard cost, the replay of a ledger into averages, the restoration of a costed
  issue. `configureValuation` gives each location one opening layer; several, from
  a replay, are in `HistoricalFifo` only.

`inventory-gap-register.md` (36-37) says that active reservations block the choice
of a method and that cost is allocated when stock is reserved. The code, and so
the model, counts reserved units as opening stock and allocates at commit.

Further:

- Tenant isolation of queries (every query carries the tenant, and a tenant's rows
  are disjoint from others'), serialization failures that only abort a
  transaction, and deadlocks between transactions that lock in different orders,
  which the database resolves by aborting one: transactions are single steps.
- Outlets, kitchen priority, marking and deleting notifications, the catalogue of
  plans: writes of one row that nothing else decides on.
- Secrets, hashing, CSRF, targeting rules of flags, exports.
- What a page draws and the validation of its fields.
- Analytics and observability (read-only queries and counters), file storage (one
  object per request, nothing refers to it), the wrappers of BullMQ and Redis
  (what the workers do with a job is in `JobHistory` and `OrderSaga`).

`PROJECT.json` gives the status and the reason for every component.

## Plan

1. The locks of `ship`, `reserveStock` and `stockIn` as separate steps, for the
   order in which they are taken.
2. A composition of `PurchaseOrder` and `WarehouseTransfer` with the cost layers.
