------------------------------- MODULE WebApi -------------------------------
(***************************************************************************)
(* What the API offers the web client: the handlers of the controllers,    *)
(* each with the permissions its guard demands and with what of the        *)
(* database it answers or changes.  The database is told apart by kinds of *)
(* rows; a handler that shows a kind of row shows every change of it.      *)
(***************************************************************************)
EXTENDS Naturals, Sequences

(* A handler: PermissionGuard demands all of needs; none are demanded of a *)
(* handler without @Permissions.                                           *)
Reads(needs, shows) == [needs |-> needs, shows |-> shows, changes |-> {}]
Writes(needs, changes) == [needs |-> needs, shows |-> {}, changes |-> changes]
PermissionGuard(handler, permissions) == handler.needs \subseteq permissions
-----------------------------------------------------------------------------
(* Catalogues.                                                             *)
WarehouseController ==
    [create     |-> Writes({"warehouse.create"}, {"warehouse"}),
     findAll    |-> Reads({"warehouse.read"}, {"warehouse"}),
     findOne    |-> Reads({"warehouse.read"}, {"warehouse"}),
     listStocks |-> Reads({"warehouse.read"}, {"stock"}),
     update     |-> Writes({"warehouse.update"}, {"warehouse"}),
     remove     |-> Writes({"warehouse.delete"}, {"warehouse"})]

SupplierController ==
    [create  |-> Writes({"supplier.create"}, {"supplier"}),
     findAll |-> Reads({"supplier.read"}, {"supplier"}),
     findOne |-> Reads({"supplier.read"}, {"supplier"}),
     update  |-> Writes({"supplier.update"}, {"supplier"}),
     remove  |-> Writes({"supplier.delete"}, {"supplier"})]

IngredientsController ==
    [create  |-> Writes({"ingredient.create"}, {"item"}),
     findAll |-> Reads({"ingredient.read"}, {"item"}),
     findOne |-> Reads({"ingredient.read"}, {"item"}),
     update  |-> Writes({"ingredient.update"}, {"item"}),
     remove  |-> Writes({"ingredient.delete"}, {"item"})]

RecipesController ==
    [create              |-> Writes({"recipe.create"}, {"recipe"}),
     findAll             |-> Reads({"recipe.read"}, {"recipe"}),
     findByInventoryItem |-> Reads({"recipe.read"}, {"recipe"}),
     findByProduct       |-> Reads({"recipe.read"}, {"recipe"})]

(* A product of a shop has an inventory item.                              *)
ProductsController ==
    [create  |-> Writes({"product.create"}, {"product", "item"}),
     findAll |-> Reads({"product.read"}, {"product"}),
     findOne |-> Reads({"product.read"}, {"product"})]

OutletsController ==
    [getAll     |-> Reads({"outlet.read"}, {"outlet"}),
     getById    |-> Reads({"outlet.read"}, {"outlet"}),
     create     |-> Writes({"outlet.create"}, {"outlet"}),
     update     |-> Writes({"outlet.update"}, {"outlet"}),
     softDelete |-> Writes({"outlet.delete"}, {"outlet"})]
-----------------------------------------------------------------------------
(* Selling: what happens to an order is seen in the kitchen as well.       *)
OrdersController ==
    [create       |-> Writes({"order.create"}, {"order", "ticket", "stock"}),
     findAll      |-> Reads({"order.read"}, {"order"}),
     findOne      |-> Reads({"order.read"}, {"order"}),
     updateStatus |-> Writes({"order.update"}, {"order", "ticket", "stock"})]

PaymentsController ==
    [pay     |-> Writes({"payment.create"}, {"payment", "order"}),
     findAll |-> Reads({"payment.read"}, {"payment"}),
     findOne |-> Reads({"payment.read"}, {"payment"})]

KitchenController ==
    [getQueue       |-> Reads({"kitchen.read"}, {"ticket", "kitchenSetting"}),
     getTicket      |-> Reads({"kitchen.read"}, {"ticket", "kitchenSetting"}),
     getSettings    |-> Reads({"kitchen.read"}, {"kitchenSetting"}),
     updateSettings |-> Writes({"kitchen.update"}, {"kitchenSetting"}),
     setPriority    |-> Writes({"kitchen.update"}, {"ticket"}),
     startCooking   |-> Writes({"kitchen.update"},
                               {"ticket", "order", "movement", "cost"}),
     markReady      |-> Writes({"kitchen.update"}, {"ticket", "order"}),
     markServed     |-> Writes({"kitchen.update"}, {"ticket", "order"}),
     cancel         |-> Writes({"kitchen.update"},
                               {"ticket", "order", "stock"}),
     recall         |-> Writes({"kitchen.update"}, {"ticket", "order"})]
-----------------------------------------------------------------------------
(* Stock and its ledger.                                                   *)
Adjusts(changes) == Writes({"inventory.adjust"}, changes)
Ledger == {"stock", "movement", "cost"}
Answers(shows) == Reads({"inventory.read"}, shows)

InventoryReads ==
    [items            |-> Answers({"item", "valuation", "cost"}),
     getInventoryItem |-> Answers({"item", "valuation", "cost"}),
     history          |-> Answers({"movement"}),
     historyByItem    |-> Answers({"movement"}),
     stockBalances    |-> Answers({"stock"}),
     availability     |-> Answers({"stock", "reorderRule"}),
     reorderRules     |-> Answers({"reorderRule"}),
     valuation        |-> Answers({"valuation", "cost"}),
     listTransfers    |-> Answers({"transfer"}),
     getTransfer      |-> Answers({"transfer"})]

InventoryWrites ==
    [stockIn             |-> Adjusts(Ledger),
     adjustment          |-> Adjusts(Ledger),
     waste               |-> Adjusts(Ledger),
     replaceReorderRules |-> Adjusts({"reorderRule"}),
     configureValuation  |-> Adjusts({"valuation", "cost"}),
     createTransfer      |-> Adjusts({"transfer"}),
     shipTransfer        |-> Adjusts({"transfer"} \cup Ledger),
     receiveTransfer     |-> Adjusts({"transfer"} \cup Ledger),
     cancelTransfer      |-> Adjusts({"transfer"})]

(* The two ends of a purchase order's life have permissions of their own,  *)
(* and a change of its status needs both.                                  *)
PurchaseOrderController ==
    [create             |-> Writes({"purchase_order.create"}, {"purchase"}),
     findAll            |-> Reads({"purchase_order.read"}, {"purchase"}),
     findPriceVariances |-> Reads({"purchase_order.read"}, {"variance"}),
     findOne            |-> Reads({"purchase_order.read"}, {"purchase"}),
     findReceipts       |-> Reads({"purchase_order.read"}, {"receipt"}),
     receive            |-> Writes({"purchase_order.receive"},
                              {"purchase", "receipt", "variance"}
                                \cup Ledger),
     update             |-> Writes({"purchase_order.update"}, {"purchase"}),
     updateStatus       |-> Writes({"purchase_order.approve",
                                    "purchase_order.receive"}, {"purchase"}),
     delete             |-> Writes({"purchase_order.delete"}, {"purchase"})]
-----------------------------------------------------------------------------
(* Users, roles and what they may do.                                      *)
UsersController ==
    [getAll           |-> Reads({"user.read"}, {"user"}),
     getInvitations   |-> Reads({"user.read"}, {"invitation"}),
     getById          |-> Reads({"user.read"}, {"user"}),
     createInvitation |-> Writes({"rbac.user.role.manage"}, {"invitation"}),
     revokeInvitation |-> Writes({"rbac.user.role.manage"}, {"invitation"}),
     setStatus        |-> Writes({"rbac.user.role.manage"}, {"user"})]

UserRolesController ==
    [getUserRoles |-> Reads({"rbac.user.role.manage"}, {"userRole"}),
     putUserRoles |-> Writes({"rbac.user.role.manage"}, {"userRole"})]
UserOutletsController ==
    [getUserOutlets |-> Reads({"rbac.user.outlet.manage"}, {"userOutlet"}),
     putUserOutlets |-> Writes({"rbac.user.outlet.manage"}, {"userOutlet"})]

RolesController ==
    [getAll  |-> Reads({"rbac.role.read"}, {"role"}),
     getById |-> Reads({"rbac.role.read"}, {"role"}),
     create  |-> Writes({"rbac.role.create"}, {"role"}),
     update  |-> Writes({"rbac.role.update"}, {"role"}),
     remove  |-> Writes({"rbac.role.delete"}, {"role"})]

RolePermissionsController ==
    [getPermissions |-> Reads({"rbac.role.read"}, {"rolePermission"}),
     putPermissions |-> Writes({"rbac.role.update"}, {"rolePermission"})]
PermissionController ==
    [getAll |-> Reads({"rbac.permission.read"}, {"permission"})]
-----------------------------------------------------------------------------
(* The tenant and what it pays for.                                        *)
BillingController ==
    [getInvoices    |-> Reads({"invoice.read"}, {"invoice"}),
     exportInvoices |-> Reads({"invoice.read"}, {"invoice"}),
     getInvoice     |-> Reads({"invoice.read"}, {"invoice"}),
     cancelPendingInvoice |-> Writes({"billing.execute"}, {"invoice"}),
     executeBilling |-> Writes({"billing.execute"},
                               {"invoice", "subscription", "history"}),
     renewSubscription |-> Writes({"billing.execute"},
                               {"invoice", "subscription", "history"})]

SubscriptionController ==
    [getCurrent |-> Reads({"subscription.read"}, {"subscription"}),
     getHistory |-> Reads({"subscription.read"}, {"history"})]

TenantsController ==
    [getById |-> Reads({"business.read"}, {"tenant"}),
     update  |-> Writes({"business.update"}, {"tenant"})]

AnalyticsController ==
    [getSummary     |-> Reads({"analytics.read"}, {"order"}),
     getTopProducts |-> Reads({"analytics.read"}, {"order"})]

AuditLogController ==
    [listAuditLogs |-> Reads({"audit-log.read"}, {"auditLog"}),
     getAuditLog   |-> Reads({"audit-log.read"}, {"auditLog"})]

(* Without a permission: the rows are those of the user.                   *)
NotificationController ==
    [getNotifications   |-> Reads({}, {"notification"}),
     getUnreadCount     |-> Reads({}, {"notification"}),
     markAsRead         |-> Writes({}, {"notification"}),
     markAllAsRead      |-> Writes({}, {"notification"}),
     deleteNotification |-> Writes({}, {"notification"})]
AuthController ==
    [getAccessibleOutlets |-> Reads({}, {"userOutlet", "outlet"})]
-----------------------------------------------------------------------------
(* The platform, whose administrators act on all tenants.                  *)
Oversees(shows) == Reads({"super-admin.read"}, shows)
ManagesTenants == Writes({"super-admin.manage.tenants"}, {"tenant"})

SuperAdminReads ==
    [listTenants          |-> Oversees({"tenant"}),
     getTenant            |-> Oversees({"tenant"}),
     listPlans            |-> Oversees({"plan"}),
     listSubscriptions    |-> Oversees({"subscription"}),
     getSubscription      |-> Oversees({"subscription"}),
     listWorkers          |-> Oversees({"worker"}),
     listJobExecutions    |-> Oversees({"job"}),
     getBillingAggregate  |-> Oversees({"invoice"}),
     exportInvoices       |-> Oversees({"invoice"}),
     listPlatformSettings |-> Oversees({"setting"}),
     listInvoices         |-> Oversees({"invoice"}),
     getInvoice           |-> Oversees({"invoice"}),
     listAuditLogs        |-> Oversees({"auditLog"}),
     getAuditLog          |-> Oversees({"auditLog"})]

SuperAdminWrites ==
    [activateTenant        |-> ManagesTenants,
     suspendTenant         |-> ManagesTenants,
     deactivateTenant      |-> ManagesTenants,
     restoreTenant         |-> ManagesTenants,
     updatePlatformSetting |-> Writes({"super-admin.manage.system"},
                                      {"setting"}),
     changeTenantPlan      |-> Writes({"super-admin.manage.subscriptions"},
                                      {"subscription"})]

QueueMonitorController == [listQueues |-> Oversees({"queue"})]
OperationalTelemetryController == [getTelemetry |-> Oversees({"telemetry"})]
HealthController ==
    [readiness |-> Reads({}, {"health"}), liveness |-> Reads({}, {"health"})]
=============================================================================
