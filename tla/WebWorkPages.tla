---------------------------- MODULE WebWorkPages ----------------------------
(***************************************************************************)
(* The pages of daily work: users, orders, the kitchen, stock, purchasing, *)
(* billing, and the console of the platform; and all pages together.       *)
(***************************************************************************)
EXTENDS WebPages

(* users                                                                   *)
userGates ==
    [roles   |-> {"rbac.user.role.manage", "rbac.role.read"},
     outlets |-> {"rbac.user.outlet.manage", "outlet.read"},
     manage  |-> {"user.read", "rbac.user.role.manage"}]
userWorkspaceQueries ==
    {Query(userKeys.list, userClient.getUsers, {"user.read"}),
     Query(userKeys.invitations, userClient.getPendingInvitations,
           userGates.manage),
     Query(roleKeys.list, roleClient.getRoles, userGates.roles),
     Query(outletKeys.list, outletClient.getOutlets,
           userGates.manage \cup userGates.outlets)}
userWorkspaceMutations ==
    {Mutation(userClient.createInvitation, userGates.manage \cup userGates.roles,
              {userKeys.invitations, userKeys.all}),
     Mutation(userClient.revokeInvitation, userGates.manage,
              {userKeys.invitations}),
     Mutation(userClient.setUserStatus, userGates.manage, {userKeys.all})}
UserWorkspace == [queries |-> userWorkspaceQueries,
                  mutations |-> userWorkspaceMutations]

userDetailQueries ==
    {Query(userKeys.detail, userClient.getUser, {"user.read"}),
     Query(roleKeys.list, roleClient.getRoles, userGates.roles),
     Query(outletKeys.list, outletClient.getOutlets, userGates.outlets),
     Query(userKeys.roles, userClient.getUserRoles, userGates.roles),
     Query(userKeys.outlets, userClient.getUserOutlets, userGates.outlets)}
invalidateUser == {userKeys.all, userKeys.roles, userKeys.outlets}
userDetailMutations ==
    {Mutation(userClient.setUserRoles, {"user.read"} \cup userGates.roles,
              invalidateUser),
     Mutation(userClient.setUserOutlets, {"user.read"} \cup userGates.outlets,
              invalidateUser),
     Mutation(userClient.setUserStatus, userGates.manage, invalidateUser)}
UserDetailWorkspace == [queries |-> userDetailQueries,
                        mutations |-> userDetailMutations]
-----------------------------------------------------------------------------
(* orders and payments: the pages of orders ask for no permission          *)
orderFormQueries ==
    {Query(productKeys.all, productClient.getProducts, {"product.read"})}
orderFormCreate ==
    Mutation(orderClient.createOrder, {"product.read"},
             {orderKeys.all, <<"inventory">>, <<"erp-dashboard">>})
OrderWorkspace ==
    [queries |-> {Query(orderKeys.all, orderClient.getOrders, {})}
                    \cup orderFormQueries,
     mutations |-> {orderFormCreate}]

invalidateOrderState(includeInventory) ==
    {orderKeys.all, orderKeys.detail, <<"erp-dashboard">>}
      \cup (IF includeInventory THEN {<<"inventory">>} ELSE {})
orderDetailMutations ==
    {Mutation(orderClient.updateOrderStatus, {}, invalidateOrderState(FALSE)),
     Mutation(orderClient.payOrder, {"payment.create"},
              invalidateOrderState(TRUE) \cup {<<"payments">>})}
OrderDetailWorkspace ==
    [queries |-> {Query(orderKeys.detail, orderClient.getOrder, {})},
     mutations |-> orderDetailMutations]

PaymentWorkspace ==
    [queries |-> {Query(paymentKeys.all, paymentClient.getPayments,
                        {"payment.read"})},
     mutations |-> {}]
PaymentDetailPage ==
    [queries |-> {Query(paymentKeys.detail, paymentClient.getPayment,
                        {"payment.read"})},
     mutations |-> {}]

(* kitchen                                                                 *)
kitchenReads == {"kitchen.read"}
kitchenActs == {"kitchen.read", "kitchen.update"}
ticketActions ==
    {kitchenClient.startKitchenTicket, kitchenClient.markKitchenReady,
     kitchenClient.serveKitchenTicket, kitchenClient.cancelKitchenTicket,
     kitchenClient.recallKitchenTicket}
TicketCard ==
    {Mutation(action, kitchenActs, {kitchenKeys.queue, orderKeys.all}) :
       action \in ticketActions}
kitchenWorkspaceQueries ==
    {Query(kitchenKeys.settings, kitchenClient.getKitchenSettings,
           kitchenReads),
     Query(kitchenKeys.filtered, kitchenClient.getKitchenQueueWithFilters,
           kitchenReads)}
kitchenSettingMutations ==
    {Mutation(kitchenClient.setKitchenTicketPriority, kitchenActs,
              {kitchenKeys.queue}),
     Mutation(kitchenClient.updateKitchenWaitThreshold, kitchenActs,
              {kitchenKeys.settings, kitchenKeys.queue})}
KitchenWorkspace ==
    [queries |-> kitchenWorkspaceQueries,
     mutations |-> TicketCard \cup kitchenSettingMutations]
KitchenTicketDetailWorkspace ==
    [queries |-> {Query(kitchenKeys.detail, kitchenClient.getKitchenTicket,
                        kitchenReads)},
     mutations |-> {}]
-----------------------------------------------------------------------------
(* stock                                                                   *)
stockReads == {"inventory.read"}
stockAdjusts == {"inventory.read", "inventory.adjust"}
inventoryFormQueries ==
    {Query(warehouseKeys.all, warehouseClient.getWarehouses, stockAdjusts)}
inventoryFormSubmit ==
    {Mutation(handler, stockAdjusts,
              {inventoryKeys.list, inventoryKeys.all, inventoryKeys.history,
               inventoryKeys.stockBalancesForTenant}) :
       handler \in {inventoryClient.stockInInventory,
                    inventoryClient.adjustInventory,
                    inventoryClient.wasteInventory}}
inventoryWorkspaceQueries ==
    {Query(inventoryKeys.page, inventoryClient.getInventoryItems, stockReads),
     Query(inventoryKeys.all, inventoryClient.getAllInventoryItems,
           stockAdjusts),
     Query(inventoryKeys.historyPage, inventoryClient.getInventoryHistory,
           stockReads),
     Query(warehouseKeys.all, warehouseClient.getWarehouses,
           stockReads \cup {"warehouse.read"})}
InventoryWorkspace ==
    [queries |-> inventoryWorkspaceQueries \cup inventoryFormQueries,
     mutations |-> inventoryFormSubmit]

inventoryStockBalances ==
    {Query(inventoryKeys.availability, inventoryClient.getInventoryAvailability,
           stockReads)}
reorderSettingsQueries ==
    {Query(inventoryKeys.reorderRules,
           inventoryClient.getInventoryReorderRules, stockReads),
     Query(warehouseKeys.all, warehouseClient.getWarehouses,
           stockReads \cup {"warehouse.read"})}
reorderSettingsSave ==
    Mutation(inventoryClient.replaceInventoryReorderRules, stockAdjusts,
             {inventoryKeys.reorderRules, inventoryKeys.availability})
valuationSettingsQueries ==
    {Query(inventoryKeys.valuation, inventoryClient.getInventoryValuation,
           stockReads)}
valuationSettingsSave ==
    Mutation(inventoryClient.configureInventoryValuation, stockAdjusts,
             {inventoryKeys.valuation, inventoryKeys.item,
              inventoryKeys.stockBalances})
inventoryItemQueries ==
    {Query(inventoryKeys.item, inventoryClient.getInventoryItem, stockReads),
     Query(inventoryKeys.itemHistory,
           inventoryClient.getInventoryHistoryForItem, stockReads)}
InventoryItemPage ==
    [queries |-> inventoryItemQueries \cup inventoryStockBalances
        \cup reorderSettingsQueries \cup valuationSettingsQueries,
     mutations |-> {reorderSettingsSave, valuationSettingsSave}]

(* transfers between warehouses                                            *)
transferReceiptHistory ==
    Query(inventoryKeys.transfer, transferClient.getWarehouseTransfer,
          stockReads)
transferQueries ==
    {Query(inventoryKeys.transfers, transferClient.getWarehouseTransfers,
           stockReads),
     Query(inventoryKeys.all, inventoryClient.getAllInventoryItems,
           stockAdjusts),
     Query(warehouseKeys.all, warehouseClient.getWarehouses, stockAdjusts)}
invalidateTransfers(inventoryChanged) ==
    {inventoryKeys.transfers}
      \cup (IF inventoryChanged
            THEN {inventoryKeys.history, inventoryKeys.list, inventoryKeys.all,
                  inventoryKeys.stockBalancesForTenant}
            ELSE {})
transferMutation(handler, inventoryChanged) ==
    Mutation(handler, stockAdjusts, invalidateTransfers(inventoryChanged))
createTransferForm ==
    transferMutation(transferClient.createWarehouseTransfer, FALSE)
shipTransferButton ==
    transferMutation(transferClient.shipWarehouseTransfer, TRUE)
receiveTransferForm ==
    transferMutation(transferClient.receiveWarehouseTransfer, TRUE)
cancelTransferButton ==
    transferMutation(transferClient.cancelWarehouseTransfer, FALSE)
WarehouseTransferWorkspace ==
    [queries |-> transferQueries \cup {transferReceiptHistory},
     mutations |-> {createTransferForm, shipTransferButton,
                    receiveTransferForm, cancelTransferButton}]
-----------------------------------------------------------------------------
(* purchasing                                                              *)
purchaseReads == {"purchase_order.read"}
purchaseFormReads ==
    purchaseReads \cup {"supplier.read", "warehouse.read", "inventory.read"}
purchaseOrderFormSave(handler, gate) ==
    Mutation(handler, gate, {purchaseOrderKeys.all, purchaseOrderKeys.detail})
purchasePriceVarianceReport ==
    Query(purchaseOrderKeys.priceVariances,
          purchaseOrderClient.getPurchasePriceVariances, purchaseReads)
purchaseWorkspaceQueries ==
    {Query(supplierKeys.options, supplierClient.getSuppliers,
           purchaseReads \cup {"supplier.read"}),
     Query(warehouseKeys.all, warehouseClient.getWarehouses,
           purchaseReads \cup {"warehouse.read"}),
     Query(inventoryKeys.all, inventoryClient.getAllInventoryItems,
           purchaseReads \cup {"inventory.read"}),
     Query(purchaseOrderKeys.list, purchaseOrderClient.getPurchaseOrders,
           purchaseReads)}
PurchaseOrderWorkspace ==
    [queries |-> purchaseWorkspaceQueries \cup {purchasePriceVarianceReport},
     mutations |->
        {purchaseOrderFormSave(purchaseOrderClient.createPurchaseOrder,
           purchaseFormReads \cup {"purchase_order.create"})}]

purchaseEdits == purchaseReads \cup {"purchase_order.update"}
purchaseDetailQueries ==
    {Query(purchaseOrderKeys.detail, purchaseOrderClient.getPurchaseOrder,
           purchaseReads),
     Query(purchaseOrderKeys.receiptPage,
           purchaseOrderClient.getPurchaseOrderReceipts, purchaseReads)}
purchaseEditQueries ==
    {Query(supplierKeys.options, supplierClient.getSuppliers, purchaseEdits),
     Query(warehouseKeys.all, warehouseClient.getWarehouses, purchaseEdits),
     Query(inventoryKeys.all, inventoryClient.getAllInventoryItems,
           purchaseEdits)}
invalidatePurchase == {purchaseOrderKeys.all, purchaseOrderKeys.detail}
inventoryChanged ==
    {inventoryKeys.list, inventoryKeys.all, inventoryKeys.history,
     inventoryKeys.stockBalancesForTenant}
purchaseStatusMutations ==
    {Mutation(purchaseOrderClient.updatePurchaseOrderStatus,
              purchaseReads \cup {"purchase_order.approve",
                                  "purchase_order.receive"},
              invalidatePurchase \cup more) : more \in {{}, inventoryChanged}}
purchaseReceiptMutation ==
    Mutation(purchaseOrderClient.receivePurchaseOrder,
             purchaseReads \cup {"purchase_order.receive"},
             invalidatePurchase \cup inventoryChanged
               \cup {purchaseOrderKeys.receipts})
purchaseDeleteMutation ==
    Leaving(Mutation(purchaseOrderClient.deletePurchaseOrder,
                     purchaseReads \cup {"purchase_order.delete"},
                     invalidatePurchase))
PurchaseOrderDetailPage ==
    [queries |-> purchaseDetailQueries \cup purchaseEditQueries,
     mutations |-> purchaseStatusMutations \cup
        {purchaseReceiptMutation, purchaseDeleteMutation,
         purchaseOrderFormSave(purchaseOrderClient.updatePurchaseOrder,
                               purchaseEdits)}]
-----------------------------------------------------------------------------
(* billing, settings and reports                                           *)
billingQueries ==
    {Query(billingKeys.invoices, billingClient.getInvoices, {"invoice.read"}),
     Query(billingKeys.subscription, billingClient.getCurrentSubscription,
           {"billing.execute", "subscription.read"})}
billingMutations ==
    LET executes == {"invoice.read", "billing.execute", "subscription.read"}
        refreshes == {billingKeys.all, <<"subscriptions">>}
    IN  {Mutation(billingClient.executeBilling, executes, refreshes),
         Mutation(billingClient.renewSubscription, executes, refreshes),
         Mutation(billingClient.cancelInvoice,
                  {"invoice.read", "billing.execute"}, {billingKeys.all}),
         Mutation(billingClient.downloadTenantInvoices, {"invoice.read"}, {})}
BillingWorkspace == [queries |-> billingQueries, mutations |-> billingMutations]
InvoiceDetailWorkspace ==
    [queries |-> {Query(billingKeys.invoice, billingClient.getInvoice,
                        {"invoice.read"})},
     mutations |-> {}]
SubscriptionWorkspace ==
    [queries |->
        {Query(billingKeys.subscription, billingClient.getCurrentSubscription,
               {"subscription.read"}),
         Query(<<"subscription-history", "id", "q">>,
               billingClient.getSubscriptionHistory, {"subscription.read"})},
     mutations |-> {}]
TenantCurrencySettings ==
    [queries |-> {Query(tenantSettingsClient.key,
                        tenantSettingsClient.getTenantSettings,
                        {"business.read"})},
     mutations |-> {Mutation(tenantSettingsClient.updateTenantSettings,
                             {"business.read", "business.update"},
                             {tenantSettingsClient.key})}]
DashboardPage ==
    [queries |->
        {Query(analyticsClient.summary, analyticsClient.getAnalyticsSummary,
               {"analytics.read"}),
         Query(analyticsClient.topProducts, analyticsClient.getTopProducts,
               {"analytics.read"})},
     mutations |-> {}]
AuditLogWorkspace ==
    [queries |->
        {Query(auditLogClient.list, auditLogClient.getAuditLogs,
               {"audit-log.read"}),
         Query(auditLogClient.detail, auditLogClient.getAuditLog,
               {"audit-log.read"})},
     mutations |-> {}]

(* The shell around every page of a tenant.                                *)
appShellQueries ==
    {Query(notificationKeys.unread, notificationClient.getUnreadCount, {}),
     Query(<<"auth", "accessible-outlets">>,
           AuthController.getAccessibleOutlets, {})}
NotificationWorkspace ==
    [queries |->
        {Query(notificationKeys.all, notificationClient.getNotifications, {}),
         Query(notificationKeys.unread, notificationClient.getUnreadCount, {})},
     mutations |->
        {Mutation(handler, {}, {notificationKeys.all, notificationKeys.unread}) :
           handler \in {notificationClient.markNotificationAsRead,
                        notificationClient.markAllNotificationsAsRead,
                        notificationClient.deleteNotification}}]
-----------------------------------------------------------------------------
(* the platform's console                                                  *)
platformSees == {"super-admin.read"}
Console(key, handler) ==
    [queries |-> {Query(key, handler, platformSees)}, mutations |-> {}]
PlatformJobsPage ==
    Console(<<"platform-observability", "queues">>,
            platformMonitors.getPlatformQueues)
PlatformAuditLogsPage ==
    Console(<<"platform-audit-logs", "list", "q">>,
            platformReads.getPlatformAuditLogs)
PlatformAuditLogPage ==
    Console(<<"platform-audit-logs", "detail", "id">>,
            platformReads.getPlatformAuditLog)
PlatformInvoicesPage ==
    [Console(<<"platform-billing-invoices">>, platformReads.getPlatformInvoices)
       EXCEPT !.mutations = {Mutation(platformReads.downloadPlatformInvoices,
                                      platformSees, {})}]
PlatformInvoicePage ==
    Console(<<"platform-billing-invoice", "id">>,
            platformReads.getPlatformInvoice)
PlatformSubscriptionsPage ==
    Console(<<"platform-subscriptions">>,
            platformReads.getPlatformSubscriptions)
PlatformTenantsPage ==
    [queries |-> {Query(<<"platform-tenants">>,
                        platformReads.getPlatformTenants, {})},
     mutations |-> {}]

PlatformObservabilityPage ==
    [queries |->
        {Query(<<"platform-observability", "readiness">>,
               platformMonitors.getHealth, platformSees),
         Query(<<"platform-observability", "liveness">>,
               platformMonitors.getLiveness, platformSees),
         Query(<<"platform-observability", "queues">>,
               platformMonitors.getPlatformQueues, platformSees),
         Query(<<"platform-observability", "telemetry", "q">>,
               platformMonitors.getPlatformOperationalTelemetry,
               platformSees)},
     mutations |-> {}]
PlatformWorkersPage ==
    [queries |->
        {Query(<<"platform-workers">>, platformReads.getPlatformWorkers,
               platformSees),
         Query(<<"platform-job-executions", "q">>,
               platformReads.getPlatformJobExecutions, platformSees)},
     mutations |-> {}]
PlatformDashboardPage ==
    [queries |->
        {Query(<<"platform-observability", "readiness">>,
               platformMonitors.getHealth, platformSees),
         Query(<<"platform-tenants-dashboard">>,
               platformReads.getPlatformTenants, platformSees),
         Query(<<"platform-billing-aggregate">>,
               platformReads.getPlatformBillingAggregate, platformSees)},
     mutations |-> {}]

PlatformSettingsPage ==
    [queries |-> {Query(<<"platform-settings">>,
                        platformReads.getPlatformSettings, platformSees)},
     mutations |->
        {[Mutation(platformWrites.updatePlatformSetting,
                   platformSees \cup {"super-admin.manage.system"}, {})
            EXCEPT !.patches = {<<"platform-settings">>}]}]
PlatformTenantPage ==
    [queries |-> {Query(<<"platform-tenant", "id">>,
                        platformReads.getPlatformTenant, {})},
     mutations |->
        {Mutation(handler, {}, {<<"platform-tenant", "id">>,
                                <<"platform-tenants">>,
                                <<"platform-tenants-dashboard">>}) :
           handler \in {platformWrites.activatePlatformTenant,
                        platformWrites.suspendPlatformTenant,
                        platformWrites.deactivatePlatformTenant,
                        platformWrites.restorePlatformTenant}}]
PlatformSubscriptionPage ==
    [queries |->
        {Query(<<"platform-subscription", "id">>,
               platformReads.getPlatformSubscription, platformSees),
         Query(<<"platform-plans">>, platformReads.getPlatformPlans,
               {"super-admin.manage.subscriptions"})},
     mutations |->
        {Mutation(platformWrites.changePlatformSubscriptionPlan,
                  platformSees \cup {"super-admin.manage.subscriptions"},
                  {<<"platform-subscription", "id">>,
                   <<"platform-subscriptions">>})}]
-----------------------------------------------------------------------------
TenantPages ==
    {WarehouseWorkspace, WarehouseDetailPage, SupplierWorkspace,
     SupplierDetailPage, IngredientWorkspace, IngredientDetailPage,
     RecipeWorkspace, ProductWorkspace, ProductDetailPage, OutletWorkspace,
     OutletDetailWorkspace, RoleWorkspace, RoleDetailWorkspace,
     UserWorkspace, UserDetailWorkspace, OrderWorkspace,
     OrderDetailWorkspace, PaymentWorkspace, PaymentDetailPage,
     KitchenWorkspace, KitchenTicketDetailWorkspace, InventoryWorkspace,
     InventoryItemPage, WarehouseTransferWorkspace, PurchaseOrderWorkspace,
     PurchaseOrderDetailPage, BillingWorkspace, InvoiceDetailWorkspace,
     SubscriptionWorkspace, TenantCurrencySettings, DashboardPage,
     AuditLogWorkspace, NotificationWorkspace}
PlatformPages ==
    {PlatformJobsPage, PlatformAuditLogsPage, PlatformAuditLogPage,
     PlatformInvoicesPage, PlatformInvoicePage, PlatformSubscriptionsPage,
     PlatformTenantsPage, PlatformObservabilityPage, PlatformWorkersPage,
     PlatformDashboardPage, PlatformSettingsPage, PlatformTenantPage,
     PlatformSubscriptionPage}
=============================================================================
