-------------------------- MODULE TenantLifecycle --------------------------
(***************************************************************************)
(* One Tenant row and those who write it: the platform administrators, who *)
(* move its status with conditional updates; the tenant's own users, whose *)
(* business registry loads the row, edits it and saves all of it; and the  *)
(* base currency, which may change until the first sale or purchase.       *)
(*                                                                         *)
(* The transactions are PostgreSQL's: an order locks the row FOR SHARE     *)
(* until it commits, a change of settings is SERIALIZABLE, so it reads     *)
(* from the snapshot of its first statement, the one that waits for the    *)
(* row, and fails if the row was updated after that.                       *)
(***************************************************************************)
CONSTANTS
    PlatformCalls, RegistryCalls, SaleCalls, SettingsCalls,
    Currencies, NoCurrency

ASSUME CurrencyAssumption ==
    Currencies \cap {NoCurrency, "idle", "done"} = {}

VARIABLES
    tenant,         \* status and deletedAt of the row
    currencyCode,   \* the tenant's base currency
    sales,          \* currency of each committed sale or purchase order
    told,           \* the status the last lifecycle event announced
    adminCall,      \* calls of SuperAdminService
    registryCall,   \* calls of BusinessRegistryService
    saleCall,       \* createOrder and purchase order creation
    settingsCall,   \* calls of TenantsRepository.update
    outdated,       \* settings calls whose snapshot of the row is old
    overwritten,    \* ghost: a save undid a status it had not read
    overlapped      \* ghost: sales in flight beside a change of settings

tenantRowVars == <<tenant, currencyCode, told, outdated, overwritten>>
saleVars == <<sales, saleCall, overlapped>>
tenantVars == <<tenantRowVars, saleVars, adminCall, registryCall, settingsCall>>

TenantStatus == {"ACTIVE", "SUSPENDED", "DEACTIVATED"}
TenantRow == [status : TenantStatus, deletedAt : BOOLEAN]
PlatformOps == {"activate", "suspend", "deactivate", "restore"}
RegistryOps == {"update", "activate", "suspend", "archive", "restore"}
CurrencyCode == Currencies \cup {NoCurrency}

TenantTypeOK ==
    /\ tenant \in TenantRow
    /\ currencyCode \in CurrencyCode
    /\ sales \in [SaleCalls -> CurrencyCode]
    /\ told \in TenantStatus
    /\ adminCall \in [PlatformCalls -> PlatformOps \cup {"idle", "done"}]
    /\ registryCall \in
         [RegistryCalls -> [at : {"idle", "admitted", "loaded", "done"},
                            op : RegistryOps, read : TenantRow]]
    /\ saleCall \in [SaleCalls -> CurrencyCode \cup {"idle", "done"}]
    /\ settingsCall \in
         [SettingsCalls -> [at : {"idle", "waiting", "done"},
                            to : Currencies, sees : SUBSET SaleCalls]]
    /\ outdated \subseteq SettingsCalls
    /\ overwritten \in BOOLEAN
    /\ overlapped \subseteq SaleCalls

Active == [status |-> "ACTIVE", deletedAt |-> FALSE]

TenantInit ==
    /\ tenant = Active
    /\ currencyCode \in CurrencyCode
    /\ sales = [s \in SaleCalls |-> NoCurrency]
    /\ told = "ACTIVE"
    /\ adminCall = [c \in PlatformCalls |-> "idle"]
    /\ registryCall \in [RegistryCalls -> [at : {"idle"}, op : RegistryOps,
                                           read : {Active}]]
    /\ saleCall = [s \in SaleCalls |-> "idle"]
    /\ settingsCall \in [SettingsCalls -> [at : {"idle"}, to : Currencies,
                                           sees : {{}}]]
    /\ outdated = {}
    /\ overwritten = FALSE
    /\ overlapped = {}

Sold == {s \in SaleCalls : sales[s] # NoCurrency}
ShareLocked == \E s \in SaleCalls : saleCall[s] \in Currencies
Waiting == {c \in SettingsCalls : settingsCall[c].at = "waiting"}

(* An UPDATE of the row waits for the shared locks on it.                  *)
WriteTenant(row) ==
    /\ ~ShareLocked
    /\ tenant' = row
    /\ outdated' = outdated \cup Waiting
-----------------------------------------------------------------------------
(* SuperAdminService: the row each operation asks for and leaves.          *)
From(op) ==
    CASE op = "activate"   -> {[status |-> "SUSPENDED", deletedAt |-> FALSE]}
      [] op = "suspend"    -> {Active}
      [] op = "deactivate" -> [status : {"ACTIVE", "SUSPENDED"},
                               deletedAt : {FALSE}]
      [] op = "restore"    -> {[status |-> "DEACTIVATED", deletedAt |-> TRUE]}

To(op) ==
    CASE op \in {"activate", "restore"} -> Active
      [] op = "suspend"    -> [status |-> "SUSPENDED", deletedAt |-> FALSE]
      [] op = "deactivate" -> [status |-> "DEACTIVATED", deletedAt |-> TRUE]

(* The check before the transaction.                                       *)
checkTenant(c, op) ==
    /\ adminCall[c] = "idle"
    /\ tenant \in From(op)
    /\ adminCall' = [adminCall EXCEPT ![c] = op]
    /\ UNCHANGED <<tenantRowVars, saleVars, registryCall, settingsCall>>

(* Mutant: the event is written whether or not a row was updated.          *)
changeTenant_uncounted(c) ==
    /\ adminCall[c] \in PlatformOps
    /\ adminCall' = [adminCall EXCEPT ![c] = "done"]
    /\ WriteTenant(IF tenant \in From(adminCall[c]) THEN To(adminCall[c])
                                                    ELSE tenant)
    /\ told' = To(adminCall[c]).status
    /\ overwritten' = FALSE
    /\ UNCHANGED <<currencyCode, saleVars, registryCall,
                   settingsCall>>

(* activateTenant, suspendTenant, deactivateTenant, restoreTenant: the row *)
(* moves only if it is still as the operation asks, and then the audit log *)
(* and the event are part of the transaction.                              *)
changeTenant(c) ==
    /\ adminCall[c] \in PlatformOps
    /\ adminCall' = [adminCall EXCEPT ![c] = "done"]
    /\ \/ /\ tenant \in From(adminCall[c])
          /\ WriteTenant(To(adminCall[c]))
          /\ told' = To(adminCall[c]).status
          /\ overwritten' = FALSE
          /\ UNCHANGED currencyCode
       \/ tenant \notin From(adminCall[c]) /\ UNCHANGED tenantRowVars
    /\ UNCHANGED <<saleVars, registryCall, settingsCall>>
-----------------------------------------------------------------------------
(* JwtStrategy.validate lets the users of an ACTIVE tenant in.             *)
validate(c) ==
    /\ registryCall[c].at = "idle"
    /\ tenant.status = "ACTIVE"
    /\ registryCall' = [registryCall EXCEPT ![c].at = "admitted"]
    /\ UNCHANGED <<tenantRowVars, saleVars, adminCall, settingsCall>>

loadAggregate(c) ==
    /\ registryCall[c].at = "admitted"
    /\ registryCall' = [registryCall EXCEPT ![c].at = "loaded",
                                            ![c].read = tenant]
    /\ UNCHANGED <<tenantRowVars, saleVars, adminCall, settingsCall>>

(* BusinessRegistryAggregate: what an operation refuses ...                *)
Refuses(op, row) ==
    \/ op = "update" /\ (row.deletedAt \/ row.status = "DEACTIVATED")
    \/ op = "activate" /\ row.status # "ACTIVE" /\ row.deletedAt
    \/ op = "suspend" /\ row.status # "SUSPENDED" /\ row.deletedAt

(* ... and what it makes of the row; it announces the status it changes.   *)
Edited(op, row) ==
    CASE op = "update"   -> row
      [] op = "activate" -> [row EXCEPT !.status = "ACTIVE"]
      [] op = "suspend"  -> [row EXCEPT !.status = "SUSPENDED"]
      [] op = "archive"  -> IF row.deletedAt THEN row ELSE To("deactivate")
      [] op = "restore"  -> IF row.deletedAt THEN Active ELSE row

(* The save writes the whole row, a status that was only read included.    *)
saveBusiness(c) ==
    LET op == registryCall[c].op
        read == registryCall[c].read
        row == Edited(op, read)
    IN  /\ registryCall[c].at = "loaded"
        /\ registryCall' = [registryCall EXCEPT ![c].at = "done"]
        /\ \/ Refuses(op, read) /\ UNCHANGED tenantRowVars
           \/ /\ ~Refuses(op, read)
              /\ WriteTenant(row)
              /\ IF row # read
                 THEN told' = row.status /\ overwritten' = FALSE
                 ELSE /\ overwritten' = (overwritten \/ row # tenant)
                      /\ UNCHANGED told
              /\ UNCHANGED currencyCode
        /\ UNCHANGED <<saleVars, adminCall, settingsCall>>
-----------------------------------------------------------------------------
(* OrdersRepository.createOrder and PurchaseOrderRepository.create read    *)
(* the currency under a shared lock that lasts until they commit.          *)
readCurrency(s) ==
    /\ saleCall[s] = "idle"
    /\ ~tenant.deletedAt
    /\ currencyCode # NoCurrency
    /\ saleCall' = [saleCall EXCEPT ![s] = currencyCode]
    /\ overlapped' = IF Waiting # {} THEN overlapped \cup {s} ELSE overlapped
    /\ UNCHANGED <<tenantRowVars, sales, adminCall, registryCall, settingsCall>>

createOrder(s) ==
    /\ saleCall[s] \in Currencies
    /\ sales' = [sales EXCEPT ![s] = saleCall[s]]
    /\ saleCall' = [saleCall EXCEPT ![s] = "done"]
    /\ UNCHANGED <<tenantRowVars, overlapped, adminCall, registryCall, settingsCall>>

(* TenantsRepository.update: its snapshot is taken by the statement that   *)
(* asks for the row's lock ...                                             *)
lockTenant(c) ==
    /\ settingsCall[c].at = "idle"
    /\ settingsCall' = [settingsCall EXCEPT ![c].at = "waiting",
                                            ![c].sees = Sold]
    /\ overlapped' = overlapped \cup
                     {s \in SaleCalls : saleCall[s] \in Currencies}
    /\ UNCHANGED <<tenantRowVars, sales, saleCall, adminCall, registryCall>>

(* Mutant: the history is not counted before the currency changes.         *)
MayChange_always(c) == c \in SettingsCalls

MayChange(c) ==
    \/ currencyCode \in {NoCurrency, settingsCall[c].to}
    \/ settingsCall[c].sees = {}

(* ... and the lock is granted when the shared ones are gone.  A row that  *)
(* was updated meanwhile is a serialization failure.                       *)
updateTenant(c) ==
    /\ settingsCall[c].at = "waiting"
    /\ ~ShareLocked
    /\ settingsCall' = [settingsCall EXCEPT ![c].at = "done"]
    /\ \/ /\ c \notin outdated /\ ~tenant.deletedAt /\ MayChange(c)
          /\ currencyCode' = settingsCall[c].to
          /\ outdated' = (outdated \cup Waiting) \ {c}
       \/ /\ c \in outdated \/ tenant.deletedAt \/ ~MayChange(c)
          /\ outdated' = outdated \ {c}
          /\ UNCHANGED currencyCode
    /\ UNCHANGED <<tenant, told, overwritten, saleVars, adminCall,
                   registryCall>>

TenantNext ==
    \/ \E c \in PlatformCalls :
         (\E op \in PlatformOps : checkTenant(c, op)) \/ changeTenant(c)
    \/ \E c \in RegistryCalls : validate(c) \/ loadAggregate(c) \/ saveBusiness(c)
    \/ \E s \in SaleCalls : readCurrency(s) \/ createOrder(s)
    \/ \E c \in SettingsCalls : lockTenant(c) \/ updateTenant(c)

TenantSpec == TenantInit /\ [][TenantNext]_tenantVars
-----------------------------------------------------------------------------
(* Sessions are refused by status and data by deletedAt: the two columns   *)
(* agree whoever wrote the row last and whatever it had read.              *)
DeletedIsDeactivated == tenant.deletedAt <=> tenant.status = "DEACTIVATED"

(* The last lifecycle event in the outbox tells the status of the tenant,  *)
(* or a save of the registry has since written back a status it had read   *)
(* before.                                                                 *)
EventsTellStatus == tenant.status = told \/ overwritten

(* A sale or purchase that was not in flight while settings were being     *)
(* changed is in the tenant's currency, then and ever after.               *)
SaleKeepsCurrency ==
    \A s \in Sold \ overlapped : sales[s] = currencyCode

(* The base currency does not change once there is a sale or a purchase.   *)
CurrencyFixed == \A s \in Sold : sales[s] = currencyCode

(* The row of a tenant and its event history stay consistent under racing  *)
(* saves of the platform, the registry and the tenant's own settings.      *)
TenantRowIsSound == TenantTypeOK /\ DeletedIsDeactivated /\ EventsTellStatus
=============================================================================
