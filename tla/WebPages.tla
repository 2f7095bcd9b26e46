------------------------------ MODULE WebPages ------------------------------
(***************************************************************************)
(* The pages of the web application: the queries a page mounts and the     *)
(* mutations it offers.  A query has its key, the handler it calls and the *)
(* permissions without which the page does not enable it.  A mutation has  *)
(* its handler, the permissions without which the page does not offer it,  *)
(* and what its onSuccess does: the keys it invalidates, the keys it then  *)
(* removes, the keys whose data it sets, or patches where there are any,   *)
(* and whether it leaves the page.                                         *)
(***************************************************************************)
EXTENDS WebClient

Query(key, handler, gate) == [key |-> key, api |-> handler, gate |-> gate]
Mutation(handler, gate, refreshes) ==
    [api |-> handler, gate |-> gate, refreshes |-> refreshes,
     removes |-> {}, sets |-> {}, patches |-> {}, leaves |-> FALSE]
Removing(keys, mutation) == [mutation EXCEPT !.removes = keys]
Leaving(mutation) == [mutation EXCEPT !.leaves = TRUE]
-----------------------------------------------------------------------------
(* warehouses                                                              *)
warehouseFormQueries(gate) ==
    {Query(outletKeys.list, outletClient.getOutlets, gate \cup {"outlet.read"})}
warehouseFormSave(handler, gate) ==
    Mutation(handler, gate,
             {warehouseKeys.all, outletKeys.all, warehouseKeys.detail})

warehouseOffers ==
    [create |-> {"warehouse.read", "warehouse.create"},
     edit   |-> {"warehouse.read", "warehouse.update"},
     remove |-> {"warehouse.read", "warehouse.delete"}]
warehouseWorkspaceQueries ==
    {Query(warehouseKeys.all, warehouseClient.getWarehouses,
           {"warehouse.read"})}
warehouseWorkspaceMutations ==
    {Mutation(warehouseClient.removeWarehouse, warehouseOffers.remove,
              {warehouseKeys.all}),
     Mutation(warehouseClient.updateWarehouse, warehouseOffers.edit,
              {warehouseKeys.all})}
WarehouseWorkspace ==
    [queries |-> warehouseWorkspaceQueries
        \cup warehouseFormQueries(warehouseOffers.create),
     mutations |-> warehouseWorkspaceMutations
        \cup {warehouseFormSave(warehouseClient.createWarehouse,
                                warehouseOffers.create),
              warehouseFormSave(warehouseClient.updateWarehouse,
                                warehouseOffers.edit)}]

WarehouseDetailPage ==
    [queries |->
        {Query(warehouseKeys.detail, warehouseClient.getWarehouse,
               {"warehouse.read"}),
         Query(warehouseKeys.stocks, warehouseClient.getWarehouseStocks,
               {"warehouse.read"}),
         Query(inventoryKeys.historyPage, inventoryClient.getInventoryHistory,
               {"warehouse.read", "inventory.read"})},
     mutations |-> {}]
-----------------------------------------------------------------------------
(* suppliers                                                               *)
supplierFormSave(handler, gate) ==
    Mutation(handler, gate, {supplierKeys.all, supplierKeys.detail})

supplierWorkspaceDelete ==
    Removing({supplierKeys.detail},
             Mutation(supplierClient.deleteSupplier,
                      {"supplier.read", "supplier.delete"},
                      {supplierKeys.all}))
SupplierWorkspace ==
    [queries |-> {Query(supplierKeys.list, supplierClient.getSupplierPage,
                        {"supplier.read"})},
     mutations |->
        {supplierWorkspaceDelete,
         supplierFormSave(supplierClient.createSupplier,
                          {"supplier.read", "supplier.create"})}]

(* A supplier with purchase orders is only deactivated, and the page stays.*)
supplierDetailQueries ==
    {Query(supplierKeys.detail, supplierClient.getSupplier, {"supplier.read"}),
     Query(purchaseOrderKeys.list, purchaseOrderClient.getPurchaseOrders,
           {"supplier.read", "purchase_order.read"})}
supplierDetailDelete ==
    LET deactivated == Mutation(supplierClient.deleteSupplier,
                                {"supplier.read", "supplier.delete"},
                                {supplierKeys.all, supplierKeys.detail})
    IN  {deactivated, Leaving(Removing({supplierKeys.detail}, deactivated))}
SupplierDetailPage ==
    [queries |-> supplierDetailQueries,
     mutations |-> supplierDetailDelete
        \cup {supplierFormSave(supplierClient.updateSupplier,
                               {"supplier.read", "supplier.update"})}]
-----------------------------------------------------------------------------
(* ingredients: one that is used is only deactivated                       *)
ingredientRefresh == {ingredientKeys.all, <<"inventory">>}
ingredientFormSave ==
    Mutation(ingredientClient.createIngredient,
             {"ingredient.read", "ingredient.create"}, ingredientRefresh)
ingredientEditMutations ==
    LET deactivated == Mutation(ingredientClient.removeIngredient,
                                {"ingredient.read", "ingredient.delete"},
                                ingredientRefresh)
    IN  {Mutation(ingredientClient.updateIngredient,
                  {"ingredient.read", "ingredient.update"},
                  ingredientRefresh),
         deactivated,
         Leaving([deactivated EXCEPT !.refreshes = {}])}

IngredientWorkspace ==
    [queries |-> {Query(ingredientKeys.list,
                        ingredientClient.getIngredientPage,
                        {"ingredient.read"})},
     mutations |-> {ingredientFormSave}]

ingredientDetailQueries ==
    LET reads == {"ingredient.read"}
    IN  {Query(ingredientKeys.detail, ingredientClient.getIngredient, reads),
         Query(inventoryKeys.stockBalances,
               inventoryClient.getInventoryStockBalances,
               reads \cup {"inventory.read"}),
         Query(inventoryKeys.itemHistory,
               inventoryClient.getInventoryHistoryForItem,
               reads \cup {"inventory.read"}),
         Query(recipeKeys.byInventoryItem,
               recipeClient.getIngredientRecipeUsage,
               reads \cup {"recipe.read"})}
IngredientDetailPage ==
    [queries |-> ingredientDetailQueries,
     mutations |-> ingredientEditMutations]
-----------------------------------------------------------------------------
(* recipes: the page needs the products and the ingredients as well        *)
recipeReads == {"recipe.read", "product.read", "ingredient.read"}
recipeFormSave ==
    Mutation(recipeClient.createRecipe, recipeReads \cup {"recipe.create"},
             {recipeKeys.byProduct})
recipeWorkspaceQueries ==
    {Query(productKeys.all, productClient.getProducts,
           {"recipe.read", "product.read"}),
     Query(ingredientKeys.options, ingredientClient.getIngredients,
           {"recipe.read", "ingredient.read"}),
     Query(recipeKeys.byProduct, recipeClient.getRecipeByProduct,
           {"recipe.read"}),
     Query(recipeKeys.list, recipeClient.getRecipes, {"recipe.read"})}
RecipeWorkspace ==
    [queries |-> recipeWorkspaceQueries, mutations |-> {recipeFormSave}]

(* products                                                                *)
productFormSave ==
    Mutation(productClient.createProduct, {"product.read", "product.create"},
             {productKeys.all, productKeys.detail, <<"inventory">>,
              <<"erp-dashboard">>})
ProductWorkspace ==
    [queries |-> {Query(productKeys.all, productClient.getProducts,
                        {"product.read"})},
     mutations |-> {productFormSave}]
ProductDetailPage ==
    [queries |-> {Query(productKeys.detail, productClient.getProduct,
                        {"product.read"})},
     mutations |-> {}]
-----------------------------------------------------------------------------
(* outlets                                                                 *)
outletFormSave(handler, gate) ==
    Mutation(handler, gate, {outletKeys.all, outletKeys.detail})
outletDelete ==
    Removing({outletKeys.detail},
             Mutation(outletClient.deleteOutlet,
                      {"outlet.read", "outlet.delete"}, {outletKeys.all}))
OutletWorkspace ==
    [queries |-> {Query(outletKeys.list, outletClient.getOutlets,
                        {"outlet.read"})},
     mutations |-> {outletDelete,
                    outletFormSave(outletClient.createOutlet,
                                   {"outlet.read", "outlet.create"})}]
OutletDetailWorkspace ==
    [queries |-> {Query(outletKeys.detail, outletClient.getOutlet,
                        {"outlet.read"})},
     mutations |->
        {Leaving(outletDelete),
         [outletFormSave(outletClient.updateOutlet,
                         {"outlet.read", "outlet.update"})
            EXCEPT !.sets = {outletKeys.detail}]}]

(* roles                                                                   *)
roleFormSave(handler, gate) ==
    Mutation(handler, gate, {roleKeys.all, roleKeys.detail})
roleDelete ==
    Removing({roleKeys.detail},
             Mutation(roleClient.deleteRole,
                      {"rbac.role.read", "rbac.role.delete"}, {roleKeys.all}))
RoleWorkspace ==
    [queries |-> {Query(roleKeys.list, roleClient.getRoles,
                        {"rbac.role.read"})},
     mutations |-> {roleDelete,
                    roleFormSave(roleClient.createRole,
                                 {"rbac.role.read", "rbac.role.create"})}]
roleDetailQueries ==
    {Query(roleKeys.detail, roleClient.getRole, {"rbac.role.read"}),
     Query(roleKeys.permissions, roleClient.getPermissions,
           {"rbac.role.read"}),
     Query(roleKeys.rolePermissions, roleClient.getRolePermissions,
           {"rbac.role.read"})}
roleAssignment ==
    Mutation(roleClient.updateRolePermissions,
             {"rbac.role.read", "rbac.role.update"},
             {roleKeys.rolePermissions, roleKeys.detail})
RoleDetailWorkspace ==
    [queries |-> roleDetailQueries,
     mutations |-> {roleAssignment,
                    roleFormSave(roleClient.updateRole,
                                 {"rbac.role.read", "rbac.role.update"})}]
=============================================================================
