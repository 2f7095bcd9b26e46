------------------------------ MODULE WebClient ------------------------------
(***************************************************************************)
(* The client functions of the web application: for each feature the keys  *)
(* under which its queries are cached and the handler each function calls. *)
(*                                                                         *)
(* A key is the array of the code without the tenant, its second element;  *)
(* an object of filters, and a page or a number of rows, is "q", the id in *)
(* the page's path is "id".  A key that another begins with stands for all *)
(* queries under it.                                                       *)
(***************************************************************************)
EXTENDS WebApi

(* warehouses                                                              *)
warehouseKeys ==
    [all    |-> <<"warehouses">>,
     detail |-> <<"warehouses", "id">>,
     stocks |-> <<"warehouses", "id", "stocks", "q">>]
warehouseClient ==
    [getWarehouses      |-> WarehouseController.findAll,
     getWarehouse       |-> WarehouseController.findOne,
     createWarehouse    |-> WarehouseController.create,
     updateWarehouse    |-> WarehouseController.update,
     removeWarehouse    |-> WarehouseController.remove,
     getWarehouseStocks |-> WarehouseController.listStocks]

(* suppliers                                                               *)
supplierKeys ==
    [all     |-> <<"suppliers">>,
     list    |-> <<"suppliers", "list", "q">>,
     options |-> <<"suppliers", "options">>,
     detail  |-> <<"suppliers", "id">>]
supplierClient ==
    [getSupplierPage |-> SupplierController.findAll,
     getSuppliers    |-> SupplierController.findAll,
     getSupplier     |-> SupplierController.findOne,
     createSupplier  |-> SupplierController.create,
     updateSupplier  |-> SupplierController.update,
     deleteSupplier  |-> SupplierController.remove]

(* ingredients                                                             *)
ingredientKeys ==
    [all     |-> <<"ingredients">>,
     list    |-> <<"ingredients", "list", "q">>,
     options |-> <<"ingredients", "options">>,
     detail  |-> <<"ingredients", "id">>]
ingredientClient ==
    [getIngredientPage |-> IngredientsController.findAll,
     getIngredients    |-> IngredientsController.findAll,
     getIngredient     |-> IngredientsController.findOne,
     createIngredient  |-> IngredientsController.create,
     updateIngredient  |-> IngredientsController.update,
     removeIngredient  |-> IngredientsController.remove]

(* recipes                                                                 *)
recipeKeys ==
    [list            |-> <<"recipes", "list", "q">>,
     byInventoryItem |-> <<"recipes", "inventory-item", "id", "q">>,
     byProduct       |-> <<"recipes", "product">>]
recipeClient ==
    [getIngredientRecipeUsage |-> RecipesController.findByInventoryItem,
     getRecipes               |-> RecipesController.findAll,
     getRecipeByProduct       |-> RecipesController.findByProduct,
     createRecipe             |-> RecipesController.create]

(* products                                                                *)
productKeys == [all |-> <<"products">>, detail |-> <<"products", "id">>]
productClient ==
    [getProducts   |-> ProductsController.findAll,
     getProduct    |-> ProductsController.findOne,
     createProduct |-> ProductsController.create]

(* outlets                                                                 *)
outletKeys ==
    [all    |-> <<"outlets">>,
     list   |-> <<"outlets", "list", "q">>,
     detail |-> <<"outlets", "id">>]
outletClient ==
    [getOutlets   |-> OutletsController.getAll,
     getOutlet    |-> OutletsController.getById,
     createOutlet |-> OutletsController.create,
     updateOutlet |-> OutletsController.update,
     deleteOutlet |-> OutletsController.softDelete]
-----------------------------------------------------------------------------
(* orders and payments                                                     *)
orderKeys == [all |-> <<"orders">>, detail |-> <<"orders", "id">>]
orderClient ==
    [getOrders         |-> OrdersController.findAll,
     getOrder          |-> OrdersController.findOne,
     createOrder       |-> OrdersController.create,
     updateOrderStatus |-> OrdersController.updateStatus,
     payOrder          |-> PaymentsController.pay]
paymentKeys == [all |-> <<"payments">>, detail |-> <<"payments", "id">>]
paymentClient ==
    [getPayments |-> PaymentsController.findAll,
     getPayment  |-> PaymentsController.findOne]

(* kitchen                                                                 *)
kitchenKeys ==
    [queue    |-> <<"kitchen">>,
     filtered |-> <<"kitchen", "q">>,
     detail   |-> <<"kitchen", "detail", "id">>,
     settings |-> <<"kitchen-settings">>]
kitchenClient ==
    [getKitchenSettings         |-> KitchenController.getSettings,
     updateKitchenWaitThreshold |-> KitchenController.updateSettings,
     getKitchenQueueWithFilters |-> KitchenController.getQueue,
     getKitchenTicket           |-> KitchenController.getTicket,
     startKitchenTicket         |-> KitchenController.startCooking,
     markKitchenReady           |-> KitchenController.markReady,
     serveKitchenTicket         |-> KitchenController.markServed,
     cancelKitchenTicket        |-> KitchenController.cancel,
     recallKitchenTicket        |-> KitchenController.recall,
     setKitchenTicketPriority   |-> KitchenController.setPriority]
-----------------------------------------------------------------------------
(* inventory                                                               *)
inventoryKeys ==
    [list          |-> <<"inventory", "page">>,
     page          |-> <<"inventory", "page", "q">>,
     all           |-> <<"inventory", "all">>,
     stockBalancesForTenant |-> <<"inventory-stock-balances">>,
     item          |-> <<"inventory-item", "id">>,
     history       |-> <<"inventory-history">>,
     historyPage   |-> <<"inventory-history", "q">>,
     itemHistory   |-> <<"inventory-history", "id", "q">>,
     stockBalances |-> <<"inventory-stock-balances", "id">>,
     availability  |-> <<"inventory-availability", "id">>,
     reorderRules  |-> <<"inventory-reorder-rules", "id">>,
     valuation     |-> <<"inventory-valuation", "id">>,
     transfers     |-> <<"inventory-transfers">>,
     transfer      |-> <<"inventory-transfers", "id">>]
inventoryClient ==
    [getInventoryItems     |-> InventoryReads.items,
     getAllInventoryItems  |-> InventoryReads.items,
     getInventoryItem      |-> InventoryReads.getInventoryItem,
     getInventoryValuation |-> InventoryReads.valuation,
     configureInventoryValuation |-> InventoryWrites.configureValuation,
     getInventoryHistory   |-> InventoryReads.history,
     getInventoryHistoryForItem   |-> InventoryReads.historyByItem,
     getInventoryStockBalances    |-> InventoryReads.stockBalances,
     getInventoryAvailability     |-> InventoryReads.availability,
     getInventoryReorderRules     |-> InventoryReads.reorderRules,
     replaceInventoryReorderRules |-> InventoryWrites.replaceReorderRules,
     stockInInventory      |-> InventoryWrites.stockIn,
     adjustInventory       |-> InventoryWrites.adjustment,
     wasteInventory        |-> InventoryWrites.waste]
transferClient ==
    [getWarehouseTransfers    |-> InventoryReads.listTransfers,
     getWarehouseTransfer     |-> InventoryReads.getTransfer,
     createWarehouseTransfer  |-> InventoryWrites.createTransfer,
     shipWarehouseTransfer    |-> InventoryWrites.shipTransfer,
     receiveWarehouseTransfer |-> InventoryWrites.receiveTransfer,
     cancelWarehouseTransfer  |-> InventoryWrites.cancelTransfer]

(* purchase orders                                                         *)
purchaseOrderKeys ==
    [all            |-> <<"purchase-orders">>,
     list           |-> <<"purchase-orders", "q">>,
     detail         |-> <<"purchase-orders", "id">>,
     receipts       |-> <<"purchase-orders", "id", "receipts">>,
     receiptPage    |-> <<"purchase-orders", "id", "receipts", "q">>,
     priceVariances |-> <<"purchase-orders", "price-variances", "q">>]
purchaseOrderClient ==
    [getPurchaseOrders         |-> PurchaseOrderController.findAll,
     getPurchaseOrder          |-> PurchaseOrderController.findOne,
     getPurchasePriceVariances |-> PurchaseOrderController.findPriceVariances,
     createPurchaseOrder       |-> PurchaseOrderController.create,
     updatePurchaseOrder       |-> PurchaseOrderController.update,
     updatePurchaseOrderStatus |-> PurchaseOrderController.updateStatus,
     receivePurchaseOrder      |-> PurchaseOrderController.receive,
     getPurchaseOrderReceipts  |-> PurchaseOrderController.findReceipts,
     deletePurchaseOrder       |-> PurchaseOrderController.delete]
-----------------------------------------------------------------------------
(* users and roles                                                         *)
userKeys ==
    [all         |-> <<"users">>,
     list        |-> <<"users", "list", "q">>,
     detail      |-> <<"users", "id">>,
     invitations |-> <<"users", "invitations">>,
     roles       |-> <<"users", "id", "roles">>,
     outlets     |-> <<"users", "id", "outlets">>]
userClient ==
    [getUsers              |-> UsersController.getAll,
     getUser               |-> UsersController.getById,
     getPendingInvitations |-> UsersController.getInvitations,
     createInvitation      |-> UsersController.createInvitation,
     revokeInvitation      |-> UsersController.revokeInvitation,
     setUserStatus         |-> UsersController.setStatus,
     getUserRoles          |-> UserRolesController.getUserRoles,
     setUserRoles          |-> UserRolesController.putUserRoles,
     getUserOutlets        |-> UserOutletsController.getUserOutlets,
     setUserOutlets        |-> UserOutletsController.putUserOutlets]
roleKeys ==
    [all             |-> <<"roles">>,
     list            |-> <<"roles", "list", "q">>,
     detail          |-> <<"roles", "id">>,
     permissions     |-> <<"permissions">>,
     rolePermissions |-> <<"roles", "id", "permissions">>]
roleClient ==
    [getRoles              |-> RolesController.getAll,
     getRole               |-> RolesController.getById,
     getPermissions        |-> PermissionController.getAll,
     getRolePermissions    |-> RolePermissionsController.getPermissions,
     createRole            |-> RolesController.create,
     updateRole            |-> RolesController.update,
     deleteRole            |-> RolesController.remove,
     updateRolePermissions |-> RolePermissionsController.putPermissions]
-----------------------------------------------------------------------------
(* billing, settings, reports and messages                                 *)
billingKeys ==
    [all          |-> <<"billing">>,
     invoices     |-> <<"billing", "invoices", "q">>,
     invoice      |-> <<"billing", "invoice", "id">>,
     subscription |-> <<"billing", "subscription">>]
billingClient ==
    [getInvoices            |-> BillingController.getInvoices,
     getInvoice             |-> BillingController.getInvoice,
     cancelInvoice          |-> BillingController.cancelPendingInvoice,
     downloadTenantInvoices |-> BillingController.exportInvoices,
     getCurrentSubscription |-> SubscriptionController.getCurrent,
     getSubscriptionHistory |-> SubscriptionController.getHistory,
     executeBilling         |-> BillingController.executeBilling,
     renewSubscription      |-> BillingController.renewSubscription]
tenantSettingsClient ==
    [key                  |-> <<"tenant-settings">>,
     getTenantSettings    |-> TenantsController.getById,
     updateTenantSettings |-> TenantsController.update]
analyticsClient ==
    [summary             |-> <<"analytics", "summary">>,
     topProducts         |-> <<"analytics", "top-products">>,
     getAnalyticsSummary |-> AnalyticsController.getSummary,
     getTopProducts      |-> AnalyticsController.getTopProducts]
auditLogClient ==
    [list         |-> <<"audit-logs", "q">>,
     detail       |-> <<"audit-logs", "id">>,
     getAuditLogs |-> AuditLogController.listAuditLogs,
     getAuditLog  |-> AuditLogController.getAuditLog]
notificationKeys ==
    [all |-> <<"notifications">>, unread |-> <<"notifications", "unread">>]
notificationClient ==
    [getNotifications       |-> NotificationController.getNotifications,
     getUnreadCount         |-> NotificationController.getUnreadCount,
     markNotificationAsRead |-> NotificationController.markAsRead,
     markAllNotificationsAsRead |-> NotificationController.markAllAsRead,
     deleteNotification     |-> NotificationController.deleteNotification]
-----------------------------------------------------------------------------
(* the platform                                                            *)
platformReads ==
    [getPlatformTenants          |-> SuperAdminReads.listTenants,
     getPlatformTenant           |-> SuperAdminReads.getTenant,
     getPlatformSubscriptions    |-> SuperAdminReads.listSubscriptions,
     getPlatformSubscription     |-> SuperAdminReads.getSubscription,
     getPlatformPlans            |-> SuperAdminReads.listPlans,
     getPlatformWorkers          |-> SuperAdminReads.listWorkers,
     getPlatformJobExecutions    |-> SuperAdminReads.listJobExecutions,
     getPlatformBillingAggregate |-> SuperAdminReads.getBillingAggregate,
     getPlatformSettings         |-> SuperAdminReads.listPlatformSettings,
     getPlatformInvoices         |-> SuperAdminReads.listInvoices,
     downloadPlatformInvoices    |-> SuperAdminReads.exportInvoices,
     getPlatformInvoice          |-> SuperAdminReads.getInvoice,
     getPlatformAuditLogs        |-> SuperAdminReads.listAuditLogs,
     getPlatformAuditLog         |-> SuperAdminReads.getAuditLog]
platformWrites ==
    [changePlatformSubscriptionPlan |-> SuperAdminWrites.changeTenantPlan,
     updatePlatformSetting    |-> SuperAdminWrites.updatePlatformSetting,
     activatePlatformTenant   |-> SuperAdminWrites.activateTenant,
     suspendPlatformTenant    |-> SuperAdminWrites.suspendTenant,
     deactivatePlatformTenant |-> SuperAdminWrites.deactivateTenant,
     restorePlatformTenant    |-> SuperAdminWrites.restoreTenant]
platformMonitors ==
    [getHealth         |-> HealthController.readiness,
     getLiveness       |-> HealthController.liveness,
     getPlatformQueues |-> QueueMonitorController.listQueues,
     getPlatformOperationalTelemetry |->
         OperationalTelemetryController.getTelemetry]
=============================================================================
