----------------------- MODULE Administration_proofs ------------------------
(***************************************************************************)
(* The tenant's row and its currency, the staff, the sessions and the      *)
(* subscription of a tenant, for any number of administrators, calls,      *)
(* tabs, sales, roles and currencies.                                      *)
(***************************************************************************)
EXTENDS TenantLifecycle, Staff, Sessions, Subscription, TLAPS
-----------------------------------------------------------------------------
(***************************************************************************)
(* The tenant's row and its currency.                                      *)
(***************************************************************************)

(* The two columns of a row agree, also in the copy a registry call edits. *)
Agrees(r) == r.deletedAt <=> r.status = "DEACTIVATED"

(* A sale in flight that no change of settings has met will be in the      *)
(* tenant's currency, and a change of settings that waits for the row      *)
(* counts every sale it has not met.                                       *)
CurrencyInv ==
    /\ \A s \in SaleCalls \ overlapped :
         saleCall[s] \in Currencies =>
             saleCall[s] = currencyCode /\ Waiting = {}
    /\ \A c \in Waiting : Sold \ overlapped \subseteq settingsCall[c].sees

TenantInv ==
    /\ TenantRowIsSound
    /\ \A c \in RegistryCalls : Agrees(registryCall[c].read)
    /\ SaleKeepsCurrency
    /\ CurrencyInv

(* Whatever an operation of the platform leaves has agreeing columns.      *)
LEMMA ToAgrees ==
    \A op \in PlatformOps : To(op) \in TenantRow /\ Agrees(To(op))
  BY DEF PlatformOps, To, Active, TenantRow, TenantStatus, Agrees

(* So has what an operation of the registry makes of an agreeing row.      *)
LEMMA EditedAgrees ==
    ASSUME NEW op \in RegistryOps, NEW r \in TenantRow, Agrees(r),
           ~Refuses(op, r)
    PROVE  Edited(op, r) \in TenantRow /\ Agrees(Edited(op, r))
  <1>1. CASE op = "update"
    BY <1>1 DEF Edited
  <1>2. CASE op \in {"activate", "suspend"}
    BY <1>2 DEF Edited, Refuses, Agrees, TenantRow, TenantStatus
  <1>3. CASE op \in {"archive", "restore"}
    BY <1>3 DEF Edited, To, Active, Agrees, TenantRow, TenantStatus
  <1> QED BY <1>1, <1>2, <1>3 DEF RegistryOps

(* There is no sale, and the tenant is active.                             *)
LEMMA TenantInvInit == TenantInit => TenantInv
  <1> SUFFICES ASSUME TenantInit PROVE TenantInv
    OBVIOUS
  <1>1. TenantTypeOK /\ \A c \in RegistryCalls : Agrees(registryCall[c].read)
    <2>1. \A c \in RegistryCalls :
            registryCall[c] \in [at : {"idle"}, op : RegistryOps, read : {Active}]
      BY DEF TenantInit
    <2>2. Active \in TenantRow /\ Agrees(Active)
      BY DEF Active, TenantRow, TenantStatus, Agrees
    <2>3. registryCall \in
            [RegistryCalls -> [at : {"idle", "admitted", "loaded", "done"},
                               op : RegistryOps, read : TenantRow]]
      BY <2>1, <2>2 DEF TenantInit
    <2>4. settingsCall \in
            [SettingsCalls -> [at : {"idle", "waiting", "done"},
                               to : Currencies, sees : SUBSET SaleCalls]]
      BY DEF TenantInit
    <2>5. TenantTypeOK
      BY <2>2, <2>3, <2>4 DEF TenantInit, TenantTypeOK, TenantStatus,
                              CurrencyCode
    <2> QED BY <2>1, <2>2, <2>5
  <1>2. DeletedIsDeactivated /\ EventsTellStatus
    BY DEF TenantInit, DeletedIsDeactivated, EventsTellStatus, Active
  <1>3. SaleKeepsCurrency /\ CurrencyInv
    BY CurrencyAssumption
    DEF TenantInit, SaleKeepsCurrency, CurrencyInv, Sold, Waiting
  <1> QED BY <1>1, <1>2, <1>3 DEF TenantInv, TenantRowIsSound

(* Steps of the platform and of the registry leave sales and currency.     *)
LEMMA SalesUntouched ==
    TenantInv /\ UNCHANGED <<currencyCode, saleVars, settingsCall>> =>
        SaleKeepsCurrency' /\ CurrencyInv'
  BY DEF TenantInv, saleVars, SaleKeepsCurrency, CurrencyInv, Sold, Waiting

(* Steps of the sales and of the settings leave the status.                *)
LEMMA RowUntouched ==
    TenantInv /\ UNCHANGED <<tenant, told, overwritten, registryCall>> =>
        /\ DeletedIsDeactivated' /\ EventsTellStatus'
        /\ \A c \in RegistryCalls : Agrees(registryCall[c].read)'
  BY DEF TenantInv, TenantRowIsSound, DeletedIsDeactivated, EventsTellStatus,
         Agrees

(* Every step preserves the invariant.                                     *)
LEMMA TenantInvNext == TenantInv /\ [TenantNext]_tenantVars => TenantInv'
  <1> SUFFICES ASSUME TenantInv, [TenantNext]_tenantVars PROVE TenantInv'
    OBVIOUS
  <1> USE DEF TenantInv, TenantRowIsSound
  <1>1. ASSUME NEW c \in PlatformCalls, NEW op \in PlatformOps,
               checkTenant(c, op)
        PROVE  TenantInv'
    <2>1. TenantTypeOK'
      BY <1>1 DEF checkTenant, TenantTypeOK, tenantRowVars, saleVars
    <2> QED
      BY <1>1, <2>1, SalesUntouched, RowUntouched
      DEF checkTenant, tenantRowVars
  <1>2. ASSUME NEW c \in PlatformCalls, changeTenant(c) PROVE TenantInv'
    <2>1. /\ \/ /\ tenant' = To(adminCall[c])
                /\ told' = To(adminCall[c]).status
                /\ overwritten' = FALSE
                /\ outdated' = outdated \cup Waiting
             \/ UNCHANGED <<tenant, told, overwritten, outdated>>
          /\ adminCall' = [adminCall EXCEPT ![c] = "done"]
          /\ adminCall[c] \in PlatformOps
          /\ UNCHANGED <<currencyCode, saleVars, registryCall, settingsCall>>
      BY <1>2 DEF changeTenant, WriteTenant, tenantRowVars
    <2>2. TenantTypeOK'
      <3>1. To(adminCall[c]) \in TenantRow
        BY <2>1, ToAgrees
      <3>2. tenant' \in TenantRow /\ told' \in TenantStatus
        BY <2>1, <3>1 DEF TenantTypeOK, TenantRow
      <3>3. adminCall' \in [PlatformCalls -> PlatformOps \cup {"idle", "done"}]
        BY <2>1 DEF TenantTypeOK
      <3>4. outdated' \subseteq SettingsCalls /\ overwritten' \in BOOLEAN
        BY <2>1 DEF TenantTypeOK, Waiting
      <3> QED
        BY <2>1, <3>2, <3>3, <3>4 DEF TenantTypeOK, saleVars
    <2>3. DeletedIsDeactivated' /\ EventsTellStatus'
      BY <2>1, ToAgrees DEF DeletedIsDeactivated, EventsTellStatus, Agrees
    <2>4. \A d \in RegistryCalls : Agrees(registryCall[d].read)'
      BY <2>1 DEF Agrees
    <2> QED BY <2>1, <2>2, <2>3, <2>4, SalesUntouched
  <1>3. ASSUME NEW c \in RegistryCalls, validate(c) \/ loadAggregate(c)
        PROVE  TenantInv'
    <2>1. TenantTypeOK'
      <3>1. registryCall' \in
              [RegistryCalls -> [at : {"idle", "admitted", "loaded", "done"},
                                 op : RegistryOps, read : TenantRow]]
        BY <1>3 DEF validate, loadAggregate, TenantTypeOK
      <3> QED
        BY <1>3, <3>1 DEF validate, loadAggregate, TenantTypeOK,
                          tenantRowVars, saleVars
    <2>2. \A d \in RegistryCalls : Agrees(registryCall[d].read)'
      BY <1>3 DEF validate, loadAggregate, Agrees, TenantTypeOK,
                  DeletedIsDeactivated
    <2>3. DeletedIsDeactivated' /\ EventsTellStatus'
      BY <1>3 DEF validate, loadAggregate, tenantRowVars,
                  DeletedIsDeactivated, EventsTellStatus
    <2> QED
      BY <1>3, <2>1, <2>2, <2>3, SalesUntouched
      DEF validate, loadAggregate, tenantRowVars
  <1>4. ASSUME NEW c \in RegistryCalls, saveBusiness(c) PROVE TenantInv'
    <2> DEFINE op == registryCall[c].op
               read == registryCall[c].read
    <2>1. op \in RegistryOps /\ read \in TenantRow /\ Agrees(read)
      BY DEF TenantTypeOK
    <2>2. /\ registryCall' = [registryCall EXCEPT ![c].at = "done"]
          /\ UNCHANGED <<currencyCode, saleVars, adminCall, settingsCall>>
      BY <1>4 DEF saveBusiness, tenantRowVars
    <2>3. \A d \in RegistryCalls : Agrees(registryCall[d].read)'
      BY <2>2 DEF Agrees, TenantTypeOK
    <2>4. CASE UNCHANGED tenantRowVars
      <3>1. TenantTypeOK'
        BY <2>2, <2>4 DEF TenantTypeOK, tenantRowVars, saleVars
      <3>2. DeletedIsDeactivated' /\ EventsTellStatus'
        BY <2>4 DEF tenantRowVars, DeletedIsDeactivated, EventsTellStatus
      <3> QED BY <2>2, <2>3, <3>1, <3>2, SalesUntouched
    <2>5. CASE /\ ~Refuses(op, read)
               /\ WriteTenant(Edited(op, read))
               /\ IF Edited(op, read) # read
                  THEN told' = Edited(op, read).status /\ overwritten' = FALSE
                  ELSE /\ overwritten' = (overwritten \/ Edited(op, read) # tenant)
                       /\ UNCHANGED told
      <3>1. /\ Edited(op, read) \in TenantRow /\ Agrees(Edited(op, read))
            /\ tenant' = Edited(op, read)
            /\ outdated' = outdated \cup Waiting
        BY <2>1, <2>5, EditedAgrees DEF WriteTenant
      <3>2. EventsTellStatus' /\ told' \in TenantStatus
                /\ overwritten' \in BOOLEAN
        BY <2>5, <3>1 DEF EventsTellStatus, TenantTypeOK, TenantRow
      <3>3. TenantTypeOK'
        BY <2>2, <3>1, <3>2 DEF TenantTypeOK, saleVars, Waiting
      <3>4. DeletedIsDeactivated'
        BY <3>1 DEF DeletedIsDeactivated, Agrees
      <3> QED BY <2>2, <2>3, <3>2, <3>3, <3>4, SalesUntouched
    <2> QED BY <1>4, <2>4, <2>5 DEF saveBusiness
  <1>5. ASSUME NEW s \in SaleCalls, readCurrency(s) PROVE TenantInv'
    <2>1. TenantTypeOK'
      BY <1>5 DEF readCurrency, TenantTypeOK, tenantRowVars
    <2>2. SaleKeepsCurrency' /\ CurrencyInv'
      BY <1>5 DEF readCurrency, tenantRowVars, TenantTypeOK, CurrencyCode,
                  SaleKeepsCurrency, CurrencyInv, Sold, Waiting
    <2> QED
      BY <1>5, <2>1, <2>2, RowUntouched DEF readCurrency, tenantRowVars
  <1>6. ASSUME NEW s \in SaleCalls, createOrder(s) PROVE TenantInv'
    <2>1. TenantTypeOK'
      BY <1>6 DEF createOrder, TenantTypeOK, tenantRowVars, CurrencyCode
    <2>2. SaleKeepsCurrency' /\ CurrencyInv'
      BY <1>6, CurrencyAssumption
      DEF createOrder, tenantRowVars, TenantTypeOK, CurrencyCode,
          SaleKeepsCurrency, CurrencyInv, Sold, Waiting
    <2> QED
      BY <1>6, <2>1, <2>2, RowUntouched DEF createOrder, tenantRowVars
  <1>7. ASSUME NEW c \in SettingsCalls, lockTenant(c) PROVE TenantInv'
    <2>1. TenantTypeOK'
      BY <1>7 DEF lockTenant, TenantTypeOK, tenantRowVars, Sold
    <2>2. SaleKeepsCurrency' /\ CurrencyInv'
      BY <1>7 DEF lockTenant, tenantRowVars, TenantTypeOK,
                  SaleKeepsCurrency, CurrencyInv, Sold, Waiting
    <2> QED
      BY <1>7, <2>1, <2>2, RowUntouched DEF lockTenant, tenantRowVars
  <1>8. ASSUME NEW c \in SettingsCalls, updateTenant(c) PROVE TenantInv'
    <2>1. TenantTypeOK'
      BY <1>8 DEF updateTenant, TenantTypeOK, saleVars, CurrencyCode, Waiting
    <2>2. \A s \in SaleCalls : saleCall[s] \notin Currencies
      BY <1>8 DEF updateTenant, ShareLocked
    <2>3. /\ c \in Waiting
          /\ settingsCall' = [settingsCall EXCEPT ![c].at = "done"]
          /\ UNCHANGED saleVars
          /\ currencyCode' = currencyCode
             \/ currencyCode = NoCurrency
             \/ settingsCall[c].sees = {}
      BY <1>8 DEF updateTenant, MayChange, Waiting
    <2>4. SaleKeepsCurrency'
      BY <2>3 DEF saleVars, SaleKeepsCurrency, CurrencyInv, Sold
    <2>5. CurrencyInv'
      BY <2>2, <2>3 DEF saleVars, CurrencyInv, Sold, Waiting, TenantTypeOK
    <2> QED
      BY <1>8, <2>1, <2>4, <2>5, RowUntouched DEF updateTenant
  <1>9. CASE UNCHANGED tenantVars
    <2>1. TenantTypeOK'
      BY <1>9 DEF tenantVars, tenantRowVars, saleVars, TenantTypeOK
    <2> QED
      BY <1>9, <2>1, SalesUntouched, RowUntouched
      DEF tenantVars, tenantRowVars
  <1> QED
    BY <1>1, <1>2, <1>3, <1>4, <1>5, <1>6, <1>7, <1>8, <1>9 DEF TenantNext

(* The invariant holds in every reachable state.                           *)
THEOREM TenantInvariant == TenantSpec => []TenantInv
  BY TenantInvInit, TenantInvNext, PTL DEF TenantSpec

(***************************************************************************)
(* For any number of racing calls: a deleted tenant is deactivated and the *)
(* other way round, and its last event tells its status, unless a registry *)
(* save has written back a status it had only read.                        *)
(***************************************************************************)
THEOREM TenantRowSound == TenantSpec => []TenantRowIsSound
  <1>1. TenantInv => TenantRowIsSound
    BY DEF TenantInv
  <1> QED BY <1>1, TenantInvariant, PTL

(***************************************************************************)
(* For any number of sales and changes of settings: a sale that met no     *)
(* change of settings is in the tenant's currency ever after.              *)
(***************************************************************************)
THEOREM CurrencyKept == TenantSpec => []SaleKeepsCurrency
  <1>1. TenantInv => SaleKeepsCurrency
    BY DEF TenantInv
  <1> QED BY <1>1, TenantInvariant, PTL
-----------------------------------------------------------------------------
(***************************************************************************)
(* The staff.                                                              *)
(***************************************************************************)

(* Whoever has no account holds no role, so the roles that an accepted     *)
(* invitation gives replace nothing.                                       *)
StaffInv ==
    /\ StaffTypeOK
    /\ OneAccountPerAddress
    /\ \A p \in People : account[p] = "absent" => holds[p] = {}

(* The actions, by what they may touch.                                    *)
RequestSteps ==
    \E a \in People :
        \/ admit(a) \/ refuse(a)
        \/ \E r \in Roles :
             \/ \E ps \in SUBSET Permissions : checkUpdate(a, r, ps)
             \/ checkRemove(a, r)
InvitationSteps ==
    \/ \E a \in People, v \in Invitations, rs \in SUBSET Roles \ {{}} :
            revokeEarlier(a, v, rs)
    \/ \E v \in Invitations :
            insertInvitation(v) \/ revokeInvitation(v) \/ readInvitation(v)

USE StaffConstants DEF People, InvitationStatus

LEMMA StaffInvInit == StaffInit => StaffInv
  BY DEF StaffInit, StaffInv, StaffTypeOK, OneAccountPerAddress

(* Requests that only pass the guards or their own checks, and invitations *)
(* that are not accepted, leave accounts, roles and grants alone.          *)
LEMMA RequestStep ==
  ASSUME StaffInv, RequestSteps
  PROVE  StaffTypeOK' /\ UNCHANGED <<account, holds, roles, grants, invitation>>
  BY DEF StaffInv, StaffTypeOK, RequestSteps, admit, refuse, checkUpdate,
         checkRemove, Handled

LEMMA InvitationStep ==
  ASSUME StaffInv, InvitationSteps
  PROVE  /\ StaffTypeOK' /\ UNCHANGED <<account, holds, roles, grants>>
         /\ \A v \in Invitations : invitation[v] \in {"ACCEPTED", "REVOKED"}
                                     => invitation'[v] = invitation[v]
  <1>1. StaffTypeOK
    BY DEF StaffInv
  <1>2. ASSUME NEW a \in People, NEW v \in Invitations,
               NEW rs \in SUBSET Roles, revokeEarlier(a, v, rs)
        PROVE  StaffTypeOK'
    BY <1>1, <1>2 DEF StaffTypeOK, revokeEarlier, Handled
  <1>3. ASSUME NEW v \in Invitations,
               insertInvitation(v) \/ revokeInvitation(v) \/ readInvitation(v)
        PROVE  StaffTypeOK'
    BY <1>1, <1>3 DEF StaffTypeOK, insertInvitation, revokeInvitation,
                      readInvitation
  <1>4. UNCHANGED <<account, holds, roles, grants>>
    BY DEF InvitationSteps, revokeEarlier, insertInvitation,
           revokeInvitation, readInvitation
  <1>5. ASSUME NEW v \in Invitations,
               invitation[v] \in {"ACCEPTED", "REVOKED"}
        PROVE  invitation'[v] = invitation[v]
    BY <1>1, <1>5 DEF StaffTypeOK, InvitationSteps, revokeEarlier,
         insertInvitation, revokeInvitation, readInvitation
  <1> QED
    BY <1>2, <1>3, <1>4, <1>5 DEF InvitationSteps

(* The steps that change accounts and roles.                               *)
LEMMA AccountStep ==
  ASSUME StaffInv,
         \/ \E a, u \in People :
              \/ deactivate(a, u) \/ activate(a, u)
              \/ \E rs \in SUBSET Roles : setUserRoles(a, u, rs)
         \/ \E v \in Invitations : acceptInvitation(v)
  PROVE  StaffInv'
  <1>1. StaffTypeOK
    BY DEF StaffInv
  <1>2. ASSUME NEW a \in People, NEW u \in People,
               deactivate(a, u) \/ activate(a, u)
        PROVE  StaffInv'
    <2>1. StaffTypeOK'
      BY <1>1, <1>2 DEF StaffTypeOK, deactivate, activate, Handled
    <2>2. /\ holds' = holds
          /\ \A p \in People : account'[p] = "absent" <=> account[p] = "absent"
      BY <1>1, <1>2 DEF StaffTypeOK, deactivate, activate
    <2> QED
      BY <2>1, <2>2 DEF StaffInv, OneAccountPerAddress
  <1>3. ASSUME NEW a \in People, NEW u \in People, NEW rs \in SUBSET Roles,
               setUserRoles(a, u, rs)
        PROVE  StaffInv'
    <2>1. /\ holds' = [holds EXCEPT ![u] = rs] /\ account' = account
          /\ rs \subseteq roles /\ account[u] # "absent" /\ roles' = roles
      BY <1>3 DEF setUserRoles, MayAssign
    <2>2. holds' \in [People -> SUBSET roles']
      BY <1>1, <2>1 DEF StaffTypeOK
    <2>3. StaffTypeOK'
      BY <1>1, <1>3, <2>2 DEF StaffTypeOK, setUserRoles, Handled
    <2> QED
      BY <1>1, <2>1, <2>3 DEF StaffInv, OneAccountPerAddress, StaffTypeOK
  <1>4. ASSUME NEW v \in Invitations, acceptInvitation(v)
        PROVE  StaffInv'
    <2> DEFINE accepts == /\ invitation[v] = "PENDING"
                          /\ \A w \in Invitations : account[w] = "absent"
                          /\ offered[v] \subseteq roles
    <2>0. offered' \in [Invitations -> SUBSET Roles]
      BY <1>1, <1>4 DEF StaffTypeOK, acceptInvitation
    <2>1. CASE accepts
      <3>1. /\ invitation' = [invitation EXCEPT ![v] = "ACCEPTED"]
            /\ account' = [account EXCEPT ![v] = "active"]
            /\ holds' = [holds EXCEPT ![v] = offered[v]]
            /\ accepting' = accepting \ {v}
            /\ UNCHANGED <<roles, grants, roleEdit, wanted, invited, admitted>>
        BY <1>4, <2>1 DEF acceptInvitation
      <3>2. holds' \in [People -> SUBSET roles']
        BY <1>1, <2>1, <3>1 DEF StaffTypeOK
      <3>3. StaffTypeOK'
        BY <1>1, <2>0, <3>1, <3>2 DEF StaffTypeOK
      <3>4. \A w \in Invitations : account'[w] # "absent" => w = v
        BY <1>1, <2>1, <3>1 DEF StaffTypeOK
      <3>5. \A p \in People : account'[p] = "absent" => holds'[p] = {}
        BY <1>1, <3>1 DEF StaffTypeOK, StaffInv
      <3> QED
        BY <3>3, <3>4, <3>5 DEF StaffInv, OneAccountPerAddress
    <2>2. CASE ~accepts
      <3>1. UNCHANGED <<invitation, account, holds, roles, grants, roleEdit,
                        wanted, invited, admitted>>
            /\ accepting' = accepting \ {v}
        BY <1>4, <2>2 DEF acceptInvitation
      <3> QED
        BY <1>1, <2>0, <3>1 DEF StaffTypeOK, StaffInv, OneAccountPerAddress
    <2> QED
      BY <2>1, <2>2
  <1> QED
    BY <1>2, <1>3, <1>4

LEMMA RoleStep ==
  ASSUME StaffInv,
         \/ \E a \in People, r \in Roles, ps \in SUBSET Permissions :
              createRole(a, r, ps)
         \/ \E r \in Roles : updateRole(r) \/ removeRole(r)
  PROVE  StaffInv'
  <1>1. StaffTypeOK
    BY DEF StaffInv
  <1>2. ASSUME NEW a \in People, NEW r \in Roles, NEW ps \in SUBSET Permissions,
               createRole(a, r, ps)
        PROVE  StaffInv'
    <2>1. holds' \in [People -> SUBSET roles']
      BY <1>1, <1>2 DEF StaffTypeOK, createRole
    <2>2. StaffTypeOK'
      BY <1>1, <1>2, <2>1 DEF StaffTypeOK, createRole, Handled
    <2> QED
      BY <1>2, <2>2 DEF StaffInv, OneAccountPerAddress, createRole
  <1>3. ASSUME NEW r \in Roles, updateRole(r)
        PROVE  StaffInv'
    <2>1. grants' \in [Roles -> SUBSET Permissions]
      BY <1>1, <1>3 DEF StaffTypeOK, updateRole
    <2>2. StaffTypeOK'
      BY <1>1, <1>3, <2>1 DEF StaffTypeOK, updateRole
    <2> QED
      BY <1>3, <2>2 DEF StaffInv, OneAccountPerAddress, updateRole
  <1>4. ASSUME NEW r \in Roles, removeRole(r)
        PROVE  StaffInv'
    <2>1. holds' \in [People -> SUBSET roles']
      BY <1>1, <1>4 DEF StaffTypeOK, removeRole
    <2>2. invited' \in [Invitations -> SUBSET Roles]
      BY <1>1, <1>4 DEF StaffTypeOK, removeRole
    <2>3. StaffTypeOK'
      BY <1>1, <1>4, <2>1, <2>2 DEF StaffTypeOK, removeRole
    <2>4. \A p \in People : account[p] = "absent" => holds'[p] = {}
      BY <1>1, <1>4 DEF StaffInv, removeRole
    <2> QED
      BY <1>4, <2>3, <2>4 DEF StaffInv, OneAccountPerAddress, removeRole
  <1> QED
    BY <1>2, <1>3, <1>4

LEMMA StaffInvNext == StaffInv /\ [StaffNext]_staffVars => StaffInv'
  <1> SUFFICES ASSUME StaffInv, [StaffNext]_staffVars PROVE StaffInv'
    OBVIOUS
  <1>1. CASE RequestSteps
    BY <1>1, RequestStep DEF StaffInv, OneAccountPerAddress
  <1>2. CASE InvitationSteps
    BY <1>2, InvitationStep DEF StaffInv, OneAccountPerAddress
  <1>3. CASE UNCHANGED staffVars
    BY <1>3 DEF staffVars, StaffInv, StaffTypeOK, OneAccountPerAddress
  <1> QED
    BY <1>1, <1>2, <1>3, AccountStep, RoleStep DEF StaffNext, RequestSteps,
                                                    InvitationSteps

(* What concurrent administration may not do: lose the last administrator  *)
(* or a user's last role other than by an edit or a removal of the role,   *)
(* revive an invitation, or make a second account for an address.          *)
THEOREM StaffKept == StaffSpec => StaffIsKept
  <1>1. StaffInv => StaffTypeOK /\ OneAccountPerAddress
    BY DEF StaffInv
  <1>2. ASSUME StaffInv, [StaffNext]_staffVars
        PROVE  [Admins # {} /\ Admins' = {} =>
                  \E r \in Roles : roleEdit[r] # "none" /\ roleEdit'[r] = "none"]_staffVars
    <2> SUFFICES ASSUME StaffNext, Admins # {},
                        ~ \E r \in Roles : updateRole(r) \/ removeRole(r)
                 PROVE  Admins' # {}
      BY <1>2 DEF updateRole, removeRole, StaffInv, StaffTypeOK
    <2>1. StaffTypeOK
      BY <1>2 DEF StaffInv
    <2>2. CASE RequestSteps \/ InvitationSteps
      BY <1>2, <2>2, RequestStep, InvitationStep DEF Admins, AdminsWith,
                                                    GrantedBy
    <2>3. ASSUME NEW a \in People, NEW u \in People, deactivate(a, u)
          PROVE  Admins' # {}
      BY <2>1, <2>3 DEF deactivate, Admins, AdminsWith, GrantedBy, StaffTypeOK
    <2>4. ASSUME NEW a \in People, NEW u \in People, activate(a, u)
          PROVE  Admins' # {}
      BY <2>1, <2>4 DEF activate, Admins, AdminsWith, GrantedBy, StaffTypeOK
    <2>5. ASSUME NEW a \in People, NEW u \in People, NEW rs \in SUBSET Roles,
                 setUserRoles(a, u, rs)
          PROVE  Admins' # {}
      <3>1. Admins' = AdminsWith([holds EXCEPT ![u] = rs])
        BY <2>5 DEF setUserRoles, Admins, AdminsWith, GrantedBy
      <3> QED
        BY <2>5, <3>1 DEF setUserRoles
    <2>6. ASSUME NEW a \in People, NEW r \in Roles,
                 NEW ps \in SUBSET Permissions, createRole(a, r, ps)
          PROVE  Admins' # {}
      <3>1. PICK u \in People : u \in Admins
        BY DEF Admins, AdminsWith
      <3>2. r \notin holds[u] /\ holds[u] \subseteq Roles
        BY <2>1, <2>6 DEF createRole, StaffTypeOK
      <3>3. \A q \in holds[u] : grants'[q] = grants[q]
        BY <2>1, <2>6, <3>2 DEF createRole, StaffTypeOK
      <3>4. u \in Admins'
        BY <2>6, <3>1, <3>3 DEF createRole, Admins, AdminsWith, GrantedBy
      <3> QED
        BY <3>4
    <2>7. ASSUME NEW v \in Invitations, acceptInvitation(v)
          PROVE  Admins' # {}
      <3>1. PICK u \in People : u \in Admins
        BY DEF Admins, AdminsWith
      <3>2. account'[u] = account[u] /\ holds'[u] = holds[u] /\ grants' = grants
        BY <2>1, <2>7, <3>1 DEF acceptInvitation, Admins, AdminsWith,
                                StaffTypeOK
      <3>3. u \in Admins'
        BY <3>1, <3>2 DEF Admins, AdminsWith, GrantedBy
      <3> QED
        BY <3>3
    <2> QED
      BY <2>2, <2>3, <2>4, <2>5, <2>6, <2>7 DEF StaffNext, RequestSteps,
                                                InvitationSteps
  <1>3. ASSUME StaffInv, [StaffNext]_staffVars
        PROVE  [\A u \in People :
                  holds'[u] = {} /\ holds[u] # {}
                  => \E r \in holds[u] :
                       roleEdit[r] = "remove" /\ roleEdit'[r] = "none"]_staffVars
    <2> SUFFICES ASSUME StaffNext, NEW u \in People,
                        holds'[u] = {}, holds[u] # {}
                 PROVE  \E r \in holds[u] :
                          roleEdit[r] = "remove" /\ roleEdit'[r] = "none"
      BY <1>3
    <2>1. StaffTypeOK
      BY <1>3 DEF StaffInv
    <2>2. PICK r \in Roles : removeRole(r)
      <3>1. ~(RequestSteps \/ InvitationSteps)
        BY <1>3, RequestStep, InvitationStep
      <3>2. ASSUME NEW a \in People, NEW q \in People, NEW rs \in SUBSET Roles,
                   setUserRoles(a, q, rs)
            PROVE  FALSE
        BY <2>1, <3>2 DEF setUserRoles, StaffTypeOK
      <3>3. ASSUME NEW v \in Invitations, acceptInvitation(v)
            PROVE  FALSE
        BY <1>3, <2>1, <3>3 DEF acceptInvitation, StaffInv, StaffTypeOK
      <3>4. ASSUME NEW a \in People, NEW q \in People,
                   deactivate(a, q) \/ activate(a, q)
            PROVE  FALSE
        BY <3>4 DEF deactivate, activate
      <3>5. ASSUME NEW a \in People, NEW r \in Roles,
                   NEW ps \in SUBSET Permissions, createRole(a, r, ps)
            PROVE  FALSE
        BY <3>5 DEF createRole
      <3>6. ASSUME NEW r \in Roles, updateRole(r) PROVE FALSE
        BY <3>6 DEF updateRole
      <3> QED
        BY <3>1, <3>2, <3>3, <3>4, <3>5, <3>6 DEF StaffNext, RequestSteps,
                                                  InvitationSteps
    <2> QED
      BY <2>1, <2>2 DEF removeRole, StaffTypeOK
  <1>4. ASSUME StaffInv, [StaffNext]_staffVars
        PROVE  [\A v \in Invitations :
                  invitation[v] \in {"ACCEPTED", "REVOKED"} =>
                    /\ invitation'[v] = invitation[v]
                    /\ account[v] = "absent" => account'[v] = "absent"]_staffVars
    <2> SUFFICES ASSUME StaffNext, NEW v \in Invitations,
                        invitation[v] \in {"ACCEPTED", "REVOKED"}
                 PROVE  /\ invitation'[v] = invitation[v]
                        /\ account[v] = "absent" => account'[v] = "absent"
      BY <1>4
    <2>1. StaffTypeOK
      BY <1>4 DEF StaffInv
    <2>2. CASE RequestSteps \/ InvitationSteps
      BY <1>4, <2>2, RequestStep, InvitationStep
    <2>3. ASSUME NEW w \in Invitations, acceptInvitation(w)
          PROVE  invitation'[v] = invitation[v] /\ account'[v] = account[v]
      BY <2>1, <2>3 DEF acceptInvitation, StaffTypeOK
    <2>4. ASSUME NEW a \in People, NEW u \in People,
                 \/ deactivate(a, u) \/ activate(a, u)
                 \/ \E rs \in SUBSET Roles : setUserRoles(a, u, rs)
          PROVE  /\ invitation' = invitation
                 /\ account[v] = "absent" => account'[v] = "absent"
      BY <2>1, <2>4 DEF deactivate, activate, setUserRoles, StaffTypeOK
    <2>5. ASSUME NEW r \in Roles,
                 \/ updateRole(r) \/ removeRole(r)
                 \/ \E a \in People, ps \in SUBSET Permissions :
                      createRole(a, r, ps)
          PROVE  UNCHANGED <<invitation, account>>
      BY <2>5 DEF updateRole, removeRole, createRole
    <2> QED
      BY <2>2, <2>3, <2>4, <2>5 DEF StaffNext, RequestSteps, InvitationSteps
  <1> QED
    BY <1>1, <1>2, <1>3, <1>4, StaffInvInit, StaffInvNext, PTL
       DEF StaffSpec, StaffIsKept, AdminLostByEdit, RoleLostByRemoval,
           InvitationFinal
HIDE StaffConstants DEF People, InvitationStatus
-----------------------------------------------------------------------------
(***************************************************************************)
(* Sessions and refresh tokens.                                            *)
(***************************************************************************)

(* What a call has behind it and before it: the rows it has inserted, and  *)
(* the token it was sent with, which a call before it has brought.         *)
Unissued == {"new", "create", "issue", "load", "rotate", "revoke", "refused"}
FlowInv(f) ==
    /\ flowStep[f] \in {"new", "create", "issue"} => flowKind[f] = "login"
    /\ flowStep[f] \in {"new", "create"} => session[f] = "NONE"
    /\ flowStep[f] \in Unissued => token[f] = "NONE"
    /\ flowStep[f] = "reply" => token[f] # "NONE"
    /\ flowStep[f] \in {"load", "rotate"} => flowKind[f] \in {"refresh", "switch"}
    /\ flowStep[f] = "revoke" => flowKind[f] = "logout"
    /\ flowStep[f] \in {"rotate", "revoke"} => sent[f] \in Flows
    /\ flowKind[f] = "refresh" /\ flowStep[f] \in {"reply", "done"}
         => sent[f] \in Flows
    /\ flowStep[f] = "create" /\ ~userActive => f \in overtaken
Brought(x) == x \in Flows => flowStep[x] = "done" /\ token[x] # "NONE"

(* A token belongs to a session whose login has got its own token.         *)
TokenInv(f) ==
    token[f] # "NONE" =>
        tokenSession[f] \in Flows /\ token[tokenSession[f]] # "NONE"

(* The cookie is not the token of a refresh that was answered, and one     *)
(* that still may rotate knows the session's outlet.                       *)
RefreshInv(f) ==
    flowKind[f] = "refresh" /\ flowStep[f] = "done" => cookie # sent[f]
KnowsOutlet(f) ==
    LET s == tokenSession[sent[f]] IN
    /\ flowKind[f] = "refresh" /\ flowStep[f] = "rotate"
    /\ token[sent[f]] = "LIVE"
    => \/ chosen[f] = sessionOutlet[s]
       \/ sessionOutlet[s] = NoOutlet /\ changes > 0

(* A revoked token of a live session was used up by a call.                *)
Spent(c) == token[c] = "REVOKED" /\ session[tokenSession[c]] = "LIVE"
Spends(g, c) ==
    /\ sent[g] = c
    /\ flowKind[g] \in {"refresh", "switch"}
    /\ flowStep[g] \in {"reply", "done", "lost"}
UsedUp(c) == Spent(c) => \E g \in Flows : Spends(g, c)

(* Of two refreshes of a tab that run, a page was left during one, and one *)
(* that runs was not sent with the token of one its page had answered.     *)
Running(f) == flowKind[f] = "refresh" /\ flowStep[f] \notin Finished
PageInv ==
    \A f, g \in Flows :
        f # g /\ Running(f) /\ f \notin cut /\ g \notin cut
        /\ flowTab[f] = flowTab[g]
        => /\ ~Running(g)
           /\ flowKind[g] = "refresh" /\ flowStep[g] = "done" => sent[f] # sent[g]

SessionInv ==
    /\ SessionTypeOK /\ OneLiveToken /\ PageInv
    /\ DeactivationEndsSessions
    /\ Brought(cookie)
    /\ \A f \in Flows :
         /\ FlowInv(f) /\ Brought(sent[f]) /\ TokenInv(f)
         /\ RefreshInv(f) /\ KnowsOutlet(f) /\ UsedUp(f)
-----------------------------------------------------------------------------
USE SessionConstants DEF FlowKind, Finished, FlowStep, Unissued

LEMMA SessionInvInit == SessionInit => SessionInv
  <1> SUFFICES ASSUME SessionInit PROVE SessionInv
    OBVIOUS
  <1>1. (CHOOSE t \in Tabs : TRUE) \in Tabs
    OBVIOUS
  <1>2. SessionTypeOK
    BY <1>1 DEF SessionInit, SessionTypeOK
  <1> QED
    BY <1>2 DEF SessionInit, SessionInv, OneLiveToken, PageInv, Running,
         DeactivationEndsSessions, Brought, FlowInv, TokenInv, RefreshInv,
         KnowsOutlet, UsedUp, Spent

(* A call that is sent takes the cookie with it.                           *)
StartSteps(f, t) ==
    \/ login(f, t) \/ refreshAccessToken(f, t) \/ logout(f, t)
    \/ \E o \in Outlets : switchOutlet(f, t, o)

StartsWell(f, t, kind, step, o) ==
    /\ Starts(f, t, kind, step, o)
    /\ kind \in FlowKind /\ o \in Outlets \cup {NoOutlet}
    /\ step \in {"create", "load", "rotate", "revoke", "done"}
    /\ step = "create" => kind = "login" /\ userActive
    /\ step \in {"rotate", "revoke"} => cookie \in Flows
    /\ step \in {"load", "rotate"} => kind \in {"refresh", "switch"}
    /\ step = "revoke" => kind = "logout"
    /\ kind = "refresh" =>
         /\ step = "load"
         /\ \A g \in Flows : flowKind[g] = "refresh" /\ flowTab[g] = t
                               => g \in cut \/ flowStep[g] \in Finished
    /\ step = "done" => kind = "logout"
    /\ UNCHANGED <<tenantActive, userActive, assigned, changes, session,
         sessionOutlet, token, tokenSession, overtaken>>
    /\ \/ UNCHANGED <<cookie, access>>
       \/ cookie' = NoFlow /\ access' = [access EXCEPT ![t] = NoFlow]

LEMMA Started ==
  ASSUME SessionInv, NEW f \in Flows, NEW t \in Tabs, StartSteps(f, t)
  PROVE  SessionInv'
  <1>1. /\ SessionTypeOK /\ OneLiveToken /\ PageInv
        /\ DeactivationEndsSessions /\ Brought(cookie)
    BY DEF SessionInv
  <1>2. PICK kind, step, o : StartsWell(f, t, kind, step, o)
    <2>1. ASSUME login(f, t)
          PROVE  \E o : StartsWell(f, t, "login", "create", o)
      <3>1. PICK o \in IF assigned = {} THEN {NoOutlet} ELSE assigned :
              Starts(f, t, "login", "create", o)
        BY <2>1 DEF login
      <3>2. StartsWell(f, t, "login", "create", o)
        BY <1>1, <2>1, <3>1 DEF StartsWell, login, identityVars, tokenVars,
             browserVars, SessionTypeOK
      <3> QED
        BY <3>2
    <2>2. ASSUME refreshAccessToken(f, t)
          PROVE  StartsWell(f, t, "refresh", "load", NoOutlet)
      BY <1>1, <2>2 DEF StartsWell, refreshAccessToken, identityVars,
           tokenVars, browserVars, SessionTypeOK
    <2>3. ASSUME logout(f, t)
          PROVE  \E step : StartsWell(f, t, "logout", step, NoOutlet)
      <3>1. CASE cookie # NoFlow /\ token[cookie] = "LIVE"
        <4>1. StartsWell(f, t, "logout", "revoke", NoOutlet)
          BY <1>1, <2>3, <3>1 DEF StartsWell, logout, identityVars,
               tokenVars, browserVars, SessionTypeOK
        <4> QED
          BY <4>1
      <3>2. CASE ~(cookie # NoFlow /\ token[cookie] = "LIVE")
        <4>1. StartsWell(f, t, "logout", "done", NoOutlet)
          BY <1>1, <2>3, <3>2 DEF StartsWell, logout, identityVars,
               tokenVars, SessionTypeOK
        <4> QED
          BY <4>1
      <3> QED
        BY <3>1, <3>2
    <2>4. ASSUME NEW o \in Outlets, switchOutlet(f, t, o)
          PROVE  StartsWell(f, t, "switch", "rotate", o)
      BY <1>1, <2>4 DEF StartsWell, switchOutlet, identityVars, tokenVars,
           browserVars, SessionTypeOK
    <2> QED
      BY <2>1, <2>2, <2>3, <2>4 DEF StartSteps
  <1>3. /\ flowStep[f] = "new" /\ flowStep' = [flowStep EXCEPT ![f] = step]
        /\ flowKind' = [flowKind EXCEPT ![f] = kind]
        /\ flowTab' = [flowTab EXCEPT ![f] = t]
        /\ sent' = [sent EXCEPT ![f] = IF kind = "login" THEN NoFlow ELSE cookie]
        /\ chosen' = [chosen EXCEPT ![f] = o]
        /\ cut' = cut
    BY <1>2 DEF StartsWell, Starts, FlowGoto
  <1>0. /\ kind \in FlowKind /\ o \in Outlets \cup {NoOutlet}
        /\ step \in {"create", "load", "rotate", "revoke", "done"}
        /\ step = "create" => kind = "login" /\ userActive
        /\ step \in {"rotate", "revoke"} => cookie \in Flows
        /\ step \in {"load", "rotate"} => kind \in {"refresh", "switch"}
        /\ step = "revoke" => kind = "logout"
        /\ kind = "refresh" =>
             /\ step = "load"
             /\ \A g \in Flows : flowKind[g] = "refresh" /\ flowTab[g] = t
                                   => g \in cut \/ flowStep[g] \in Finished
        /\ step = "done" => kind = "logout"
        /\ UNCHANGED <<tenantActive, userActive, assigned, changes, session,
             sessionOutlet, token, tokenSession, overtaken>>
        /\ \/ UNCHANGED <<cookie, access>>
           \/ cookie' = NoFlow /\ access' = [access EXCEPT ![t] = NoFlow]
    BY <1>2 DEF StartsWell
  <1>4. SessionTypeOK'
    BY <1>1, <1>0, <1>3 DEF SessionTypeOK
  <1>5. OneLiveToken' /\ DeactivationEndsSessions'
    BY <1>1, <1>0 DEF OneLiveToken, DeactivationEndsSessions
  <1>6. PageInv'
    <2> SUFFICES ASSUME NEW g \in Flows, NEW h \in Flows, g # h, Running(g)',
                        g \notin cut, h \notin cut, flowTab'[g] = flowTab'[h]
                 PROVE  /\ ~Running(h)'
                        /\ flowKind'[h] = "refresh" /\ flowStep'[h] = "done"
                             => sent'[g] # sent'[h]
      BY <1>3 DEF PageInv
    <2>1. /\ flowStep'[f] = step /\ flowKind'[f] = kind /\ flowTab'[f] = t
          /\ kind # "login" => sent'[f] = cookie
      BY <1>1, <1>3 DEF SessionTypeOK
    <2>2. \A y \in Flows \ {f} :
             /\ flowStep'[y] = flowStep[y] /\ flowKind'[y] = flowKind[y]
             /\ flowTab'[y] = flowTab[y] /\ sent'[y] = sent[y]
      BY <1>1, <1>3 DEF SessionTypeOK
    <2>3. CASE g = f
      BY <1>0, <2>1, <2>2, <2>3 DEF Running, SessionInv, RefreshInv
    <2>4. CASE h = f
      BY <1>0, <2>1, <2>2, <2>4 DEF Running
    <2>5. CASE g # f /\ h # f
      BY <1>1, <2>2, <2>5 DEF PageInv, Running
    <2> QED
      BY <2>3, <2>4, <2>5
  <1>7. ASSUME NEW x PROVE Brought(x) => Brought(x)'
    BY <1>1, <1>0, <1>3 DEF Brought, SessionTypeOK
  <1>8. Brought(cookie)'
    BY <1>1, <1>0, <1>7 DEF Brought
  <1>9. ASSUME NEW g \in Flows
        PROVE  /\ FlowInv(g)' /\ Brought(sent[g])' /\ TokenInv(g)'
               /\ RefreshInv(g)' /\ KnowsOutlet(g)' /\ UsedUp(g)'
    <2>1. /\ FlowInv(g) /\ Brought(sent[g]) /\ TokenInv(g)
          /\ RefreshInv(g) /\ KnowsOutlet(g) /\ UsedUp(g)
      BY DEF SessionInv
    <2>0. UsedUp(g)'
      <3>1. ASSUME NEW h \in Flows, Spends(h, g) PROVE Spends(h, g)'
        BY <1>1, <1>3, <3>1 DEF Spends, SessionTypeOK
      <3> QED
        BY <1>0, <2>1, <3>1 DEF UsedUp, Spent
    <2>2. TokenInv(g)'
      BY <1>0, <2>1 DEF TokenInv
    <2>3. CASE g = f
      <3>1. /\ flowStep'[f] = step /\ flowKind'[f] = kind
            /\ sent'[f] = IF kind = "login" THEN NoFlow ELSE cookie
        BY <1>1, <1>3 DEF SessionTypeOK
      <3>2. FlowInv(f)'
        BY <1>0, <1>3, <2>1, <2>3, <3>1 DEF FlowInv
      <3>3. RefreshInv(f)' /\ KnowsOutlet(f)'
        BY <1>0, <3>1 DEF RefreshInv, KnowsOutlet
      <3>4. Brought(sent[f])'
        BY <1>1, <1>7, <3>1 DEF Brought
      <3> QED
        BY <2>0, <2>2, <2>3, <3>2, <3>3, <3>4
    <2>4. CASE g # f
      <3>1. /\ flowStep'[g] = flowStep[g] /\ flowKind'[g] = flowKind[g]
            /\ sent'[g] = sent[g] /\ flowTab'[g] = flowTab[g]
            /\ chosen'[g] = chosen[g]
        BY <1>1, <1>3, <2>4 DEF SessionTypeOK
      <3>2. FlowInv(g)' /\ Brought(sent[g])' /\ KnowsOutlet(g)'
        BY <1>0, <1>7, <2>1, <3>1 DEF FlowInv, KnowsOutlet, Brought
      <3>3. RefreshInv(g)'
        BY <1>1, <1>0, <2>1, <3>1 DEF RefreshInv, FlowInv, SessionTypeOK
      <3> QED
        BY <2>0, <2>2, <3>2, <3>3
    <2> QED
      BY <2>3, <2>4
  <1> QED
    BY <1>4, <1>5, <1>6, <1>8, <1>9 DEF SessionInv

(* A later step of call f: what it is, its tab and its token stay.         *)
Moves(f, step) ==
    /\ flowStep' = [flowStep EXCEPT ![f] = step]
    /\ UNCHANGED <<flowKind, flowTab, sent, cut, overtaken, tenantActive,
                   userActive, assigned, changes>>

(* What SessionInv says of one call.                                       *)
CallInv(g) ==
    FlowInv(g) /\ Brought(sent[g]) /\ TokenInv(g) /\ RefreshInv(g)
    /\ KnowsOutlet(g) /\ UsedUp(g)

LEMMA Moved ==
  ASSUME SessionTypeOK, NEW f \in Flows, NEW step \in FlowStep, Moves(f, step)
  PROVE  /\ flowStep'[f] = step
         /\ \A g \in Flows : g # f => flowStep'[g] = flowStep[g]
         /\ flowStep' \in [Flows -> FlowStep]
  BY DEF SessionTypeOK, Moves

(* A step of a call that runs: no other refresh of its page was running,   *)
(* and who used up a token still did.                                      *)
LEMMA PageKept ==
  ASSUME SessionInv, NEW f \in Flows, NEW step \in FlowStep, Moves(f, step),
         flowStep[f] \notin Finished,
         flowStep[f] = "reply" => step \in {"done", "lost"}
  PROVE  /\ PageInv'
         /\ \A g \in Flows, c \in Flows : Spends(g, c) => Spends(g, c)'
  <1>1. SessionTypeOK /\ PageInv
    BY DEF SessionInv
  <1>2. /\ flowStep'[f] = step
        /\ \A g \in Flows : g # f => flowStep'[g] = flowStep[g]
    BY <1>1, Moved
  <1>3. \A g \in Flows : Running(g)' => Running(g)
    BY <1>2 DEF Running, Moves
  <1>4. \A g \in Flows : flowKind[g] = "refresh" /\ flowStep'[g] = "done"
                           => flowStep[g] = "done" \/ Running(g)
    BY <1>2 DEF Running
  <1>5. PageInv'
    BY <1>1, <1>3, <1>4 DEF PageInv, Moves
  <1> QED
    BY <1>2, <1>5 DEF Spends, Moves

LEMMA SessionCreated ==
  ASSUME SessionInv, NEW f \in Flows, createSession(f) PROVE SessionInv'
  <1>1. /\ SessionTypeOK /\ OneLiveToken /\ PageInv
        /\ DeactivationEndsSessions /\ Brought(cookie)
        /\ \A g \in Flows : CallInv(g)
    BY DEF SessionInv, CallInv
  <1>2. /\ flowStep[f] = "create" /\ Moves(f, "issue")
        /\ session' = [session EXCEPT ![f] = "LIVE"]
        /\ sessionOutlet' = [sessionOutlet EXCEPT ![f] = chosen[f]]
        /\ chosen' = [chosen EXCEPT ![f] = NoOutlet]
        /\ UNCHANGED <<token, tokenSession, cookie, access>>
    BY DEF createSession, Moves, FlowGoto, Chose, identityVars, browserVars
  <1>3. /\ flowStep'[f] = "issue"
        /\ \A g \in Flows : g # f => flowStep'[g] = flowStep[g]
        /\ flowStep' \in [Flows -> FlowStep]
    BY <1>1, <1>2, Moved
  <1>4. SessionTypeOK'
    BY <1>1, <1>2, <1>3 DEF SessionTypeOK, Moves
  <1>5. OneLiveToken' /\ PageInv'
    BY <1>1, <1>2, PageKept DEF OneLiveToken
  <1>6. flowKind[f] = "login" /\ token[f] = "NONE"
        /\ (~userActive => f \in overtaken)
    BY <1>1, <1>2 DEF CallInv, FlowInv
  <1>7. DeactivationEndsSessions'
    BY <1>1, <1>2, <1>6 DEF DeactivationEndsSessions, Moves, SessionTypeOK
  <1>8. Brought(cookie)'
    BY <1>1, <1>2, <1>3 DEF Brought, Moves
  <1>9. ASSUME NEW g \in Flows PROVE CallInv(g)'
    <2>1. FlowInv(g)' /\ TokenInv(g)' /\ RefreshInv(g)'
      BY <1>1, <1>2, <1>3, <1>6 DEF CallInv, FlowInv, TokenInv, RefreshInv,
           Moves, SessionTypeOK
    <2>2. Brought(sent[g])'
      BY <1>1, <1>2, <1>3 DEF CallInv, Brought, Moves
    <2>3. KnowsOutlet(g)'
      BY <1>1, <1>2, <1>3, <1>6 DEF CallInv, KnowsOutlet, FlowInv, TokenInv,
           Moves, SessionTypeOK
    <2>4. Spent(g)' => Spent(g)
      BY <1>1, <1>2, <1>6 DEF Spent, CallInv, TokenInv, SessionTypeOK
    <2>5. UsedUp(g)'
      BY <1>1, <1>2, <2>4, PageKept DEF CallInv, UsedUp
    <2> QED
      BY <2>1, <2>2, <2>3, <2>5 DEF CallInv
  <1> QED
    BY <1>4, <1>5, <1>7, <1>8, <1>9 DEF SessionInv, CallInv

LEMMA TokenCreated ==
  ASSUME SessionInv, NEW f \in Flows, createToken(f) PROVE SessionInv'
  <1>1. /\ SessionTypeOK /\ OneLiveToken /\ PageInv
        /\ DeactivationEndsSessions /\ Brought(cookie)
        /\ \A g \in Flows : CallInv(g)
    BY DEF SessionInv, CallInv
  <1>2. /\ flowStep[f] = "issue" /\ Moves(f, "reply")
        /\ token' = [token EXCEPT ![f] = "LIVE"]
        /\ tokenSession' = [tokenSession EXCEPT ![f] = f]
        /\ UNCHANGED <<session, sessionOutlet, cookie, access, chosen>>
    BY DEF createToken, Moves, FlowGoto, identityVars, browserVars
  <1>3. /\ flowStep'[f] = "reply"
        /\ \A g \in Flows : g # f => flowStep'[g] = flowStep[g]
        /\ flowStep' \in [Flows -> FlowStep]
    BY <1>1, <1>2, Moved
  <1>4. SessionTypeOK'
    BY <1>1, <1>2, <1>3 DEF SessionTypeOK, Moves
  <1>5. token[f] = "NONE"
    BY <1>1, <1>2 DEF CallInv, FlowInv
  <1>6. OneLiveToken'
    BY <1>1, <1>2, <1>5 DEF OneLiveToken, CallInv, TokenInv, SessionTypeOK
  <1>7. DeactivationEndsSessions' /\ PageInv'
    BY <1>1, <1>2, PageKept DEF DeactivationEndsSessions, Moves
  <1>8. Brought(cookie)'
    BY <1>1, <1>2, <1>3 DEF Brought, Moves, SessionTypeOK
  <1>9. ASSUME NEW g \in Flows PROVE CallInv(g)'
    <2>1. FlowInv(g)' /\ TokenInv(g)' /\ RefreshInv(g)'
      BY <1>1, <1>2, <1>3 DEF CallInv, FlowInv, TokenInv, RefreshInv,
           Moves, SessionTypeOK
    <2>2. Brought(sent[g])' /\ sent[g] # f
      BY <1>1, <1>2, <1>3 DEF CallInv, Brought, Moves, SessionTypeOK
    <2>3. KnowsOutlet(g)'
      BY <1>1, <1>2, <1>3, <2>2 DEF CallInv, KnowsOutlet, FlowInv, TokenInv,
           Moves, SessionTypeOK
    <2>4. Spent(g)' => Spent(g)
      BY <1>1, <1>2 DEF Spent, SessionTypeOK
    <2>5. UsedUp(g)'
      BY <1>1, <1>2, <2>4, PageKept DEF CallInv, UsedUp
    <2> QED
      BY <2>1, <2>2, <2>3, <2>5 DEF CallInv
  <1> QED
    BY <1>4, <1>6, <1>7, <1>8, <1>9 DEF SessionInv, CallInv

LEMMA RefreshLoaded ==
  ASSUME SessionInv, NEW f \in Flows, refresh(f) PROVE SessionInv'
  <1>1. /\ SessionTypeOK /\ OneLiveToken /\ PageInv
        /\ DeactivationEndsSessions /\ Brought(cookie)
        /\ \A g \in Flows : CallInv(g)
    BY DEF SessionInv, CallInv
  <1>2. /\ flowStep[f] = "load" /\ Moves(f, "rotate")
        /\ sent[f] # NoFlow /\ token[sent[f]] = "LIVE"
        /\ chosen' = [chosen EXCEPT ![f] =
                        sessionOutlet[tokenSession[sent[f]]]]
        /\ UNCHANGED <<session, sessionOutlet, token, tokenSession, cookie,
                       access>>
    BY DEF refresh, Refreshable, Moves, FlowGoto, identityVars, browserVars, tokenVars
  <1>3. /\ flowStep'[f] = "rotate"
        /\ \A g \in Flows : g # f => flowStep'[g] = flowStep[g]
        /\ flowStep' \in [Flows -> FlowStep]
    BY <1>1, <1>2, Moved
  <1>4. sent[f] \in Flows /\ tokenSession[sent[f]] \in Flows
    BY <1>1, <1>2 DEF CallInv, SessionTypeOK, TokenInv
  <1>5. SessionTypeOK'
    BY <1>1, <1>2, <1>3, <1>4 DEF SessionTypeOK, Moves
  <1>6. OneLiveToken' /\ DeactivationEndsSessions' /\ PageInv'
    BY <1>1, <1>2, PageKept DEF OneLiveToken, DeactivationEndsSessions, Moves
  <1>7. Brought(cookie)'
    BY <1>1, <1>2, <1>3 DEF Brought, Moves, SessionTypeOK
  <1>8. ASSUME NEW g \in Flows PROVE CallInv(g)'
    <2>1. FlowInv(g)' /\ TokenInv(g)' /\ RefreshInv(g)'
      BY <1>1, <1>2, <1>3, <1>4 DEF CallInv, FlowInv, TokenInv, RefreshInv,
           Moves, SessionTypeOK
    <2>2. Brought(sent[g])'
      BY <1>1, <1>2, <1>3 DEF CallInv, Brought, Moves, SessionTypeOK
    <2>3. KnowsOutlet(g)'
      BY <1>1, <1>2, <1>3 DEF CallInv, KnowsOutlet, Moves, SessionTypeOK
    <2>4. UsedUp(g)'
      BY <1>1, <1>2, PageKept DEF CallInv, UsedUp, Spent
    <2> QED
      BY <2>1, <2>2, <2>3, <2>4 DEF CallInv
  <1> QED
    BY <1>5, <1>6, <1>7, <1>8 DEF SessionInv, CallInv

LEMMA Rotated ==
  ASSUME SessionInv, NEW f \in Flows, rotate(f) PROVE SessionInv'
  <1>1. /\ SessionTypeOK /\ OneLiveToken /\ PageInv
        /\ DeactivationEndsSessions /\ Brought(cookie)
        /\ \A g \in Flows : CallInv(g)
    BY DEF SessionInv, CallInv
  <1> DEFINE x == sent[f]
             s == tokenSession[x]
  <1>2. /\ flowStep[f] = "rotate" /\ Moves(f, "reply")
        /\ token[x] = "LIVE" /\ session[s] = "LIVE"
        /\ token' = [token EXCEPT ![x] = "REVOKED", ![f] = "LIVE"]
        /\ tokenSession' = [tokenSession EXCEPT ![f] = s]
        /\ sessionOutlet' = [sessionOutlet EXCEPT ![s] = chosen[f]]
        /\ chosen' = [chosen EXCEPT ![f] = NoOutlet]
        /\ UNCHANGED <<session, cookie, access>>
    BY DEF rotate, Moves, FlowGoto, Chose, identityVars, browserVars
  <1>3. /\ flowStep'[f] = "reply"
        /\ \A g \in Flows : g # f => flowStep'[g] = flowStep[g]
        /\ flowStep' \in [Flows -> FlowStep]
    BY <1>1, <1>2, Moved
  <1>4. /\ x \in Flows /\ x # f /\ s \in Flows /\ token[f] = "NONE"
        /\ token[s] # "NONE" /\ s # f
    BY <1>1, <1>2 DEF CallInv, FlowInv, TokenInv, Brought
  <1>5. /\ token'[f] = "LIVE" /\ token'[x] = "REVOKED"
        /\ tokenSession'[f] = s
        /\ \A g \in Flows : g # f => tokenSession'[g] = tokenSession[g]
        /\ \A g \in Flows : g # f /\ g # x => token'[g] = token[g]
        /\ \A g \in Flows : token[g] # "NONE" => token'[g] # "NONE"
        /\ \A g \in Flows : g # f /\ token'[g] = "LIVE"
                              => token[g] = "LIVE" /\ g # x
    BY <1>1, <1>2, <1>4 DEF SessionTypeOK
  <1> HIDE DEF x, s
  <1>6. SessionTypeOK'
    BY <1>1, <1>2, <1>3, <1>4 DEF SessionTypeOK, Moves
  <1>7. ASSUME NEW g \in Flows, g # f, token'[g] = "LIVE"
        PROVE  tokenSession'[g] # s
    BY <1>1, <1>2, <1>4, <1>5, <1>7 DEF OneLiveToken, s
  <1>8. OneLiveToken'
    <2> SUFFICES ASSUME NEW g \in Flows, NEW h \in Flows,
                        token'[g] = "LIVE", token'[h] = "LIVE",
                        tokenSession'[g] = tokenSession'[h]
                 PROVE  g = h
      BY DEF OneLiveToken
    <2>1. CASE g = f \/ h = f
      BY <1>5, <1>7, <2>1
    <2>2. CASE g # f /\ h # f
      BY <1>1, <1>5, <2>2 DEF OneLiveToken
    <2> QED
      BY <2>1, <2>2
  <1>9. DeactivationEndsSessions' /\ PageInv'
    BY <1>1, <1>2, PageKept DEF DeactivationEndsSessions, Moves
  <1>10. Brought(cookie)'
    BY <1>1, <1>2, <1>3, <1>5 DEF Brought, Moves, SessionTypeOK
  <1>11. ASSUME NEW g \in Flows PROVE CallInv(g)'
    <2>1. FlowInv(g)' /\ RefreshInv(g)'
      <3>1. CASE g = f
        BY <1>1, <1>2, <1>3, <1>5, <3>1 DEF CallInv, FlowInv, RefreshInv,
             Moves
      <3>2. CASE g # f
        <4>1. flowStep'[g] \in Unissued => token'[g] = "NONE"
          <5>1. ASSUME flowStep[g] \in Unissued PROVE g # x
            BY <1>1, <1>2, <5>1 DEF CallInv, FlowInv
          <5> QED
            BY <1>1, <1>3, <1>5, <3>2, <5>1 DEF CallInv, FlowInv
        <4> QED
          BY <1>1, <1>2, <1>3, <1>5, <3>2, <4>1 DEF CallInv, FlowInv,
               RefreshInv, Moves
      <3> QED
        BY <3>1, <3>2
    <2>2. TokenInv(g)'
      <3>1. CASE g = f
        BY <1>4, <1>5, <3>1 DEF TokenInv
      <3>2. CASE g # f
        <4>1. TokenInv(g) /\ (token'[g] # "NONE" => token[g] # "NONE")
          BY <1>1, <1>2, <1>5, <3>2 DEF CallInv
        <4> QED
          BY <1>5, <3>2, <4>1 DEF TokenInv
      <3> QED
        BY <3>1, <3>2
    <2>3. Brought(sent[g])' /\ sent[g] # f
      BY <1>1, <1>2, <1>3, <1>5 DEF CallInv, Brought, Moves, SessionTypeOK
    <2>4. KnowsOutlet(g)'
      <3> SUFFICES ASSUME flowKind[g] = "refresh", flowStep'[g] = "rotate",
                          token'[sent[g]] = "LIVE"
                   PROVE  \/ chosen'[g] = sessionOutlet'[tokenSession'[sent[g]]]
                          \/ /\ sessionOutlet'[tokenSession'[sent[g]]] = NoOutlet
                             /\ changes > 0
        BY <1>2 DEF KnowsOutlet, Moves
      <3>1. g # f /\ flowStep[g] = "rotate" /\ chosen'[g] = chosen[g]
        BY <1>1, <1>2, <1>3 DEF SessionTypeOK
      <3>2. /\ sent[g] \in Flows /\ token[sent[g]] = "LIVE"
            /\ tokenSession'[sent[g]] = tokenSession[sent[g]]
            /\ tokenSession[sent[g]] \in Flows /\ tokenSession[sent[g]] # s
        BY <1>1, <1>5, <1>7, <2>3, <3>1 DEF CallInv, FlowInv, TokenInv
      <3>3. sessionOutlet'[tokenSession[sent[g]]]
              = sessionOutlet[tokenSession[sent[g]]]
        BY <1>1, <1>2, <1>4, <3>2 DEF SessionTypeOK
      <3>4. KnowsOutlet(g)
        BY <1>1 DEF CallInv
      <3> QED
        BY <3>1, <3>2, <3>3, <3>4 DEF KnowsOutlet
    <2>5. UsedUp(g)'
      <3>1. CASE g = x
        <4>1. Spends(f, g)'
          BY <1>1, <1>2, <1>3, <3>1 DEF Spends, CallInv, FlowInv, Moves, x
        <4> QED
          BY <4>1 DEF UsedUp
      <3>2. CASE g # x
        <4>1. Spent(g)' => Spent(g)
          BY <1>2, <1>5, <3>2 DEF Spent
        <4> QED
          BY <1>1, <1>2, <4>1, PageKept DEF CallInv, UsedUp
      <3> QED
        BY <3>1, <3>2
    <2> QED
      BY <2>1, <2>2, <2>3, <2>4, <2>5 DEF CallInv
  <1> QED
    BY <1>6, <1>8, <1>9, <1>10, <1>11 DEF SessionInv, CallInv

(* A refusal, or an answer that is lost, may cost the tab its access token.*)
GivesUp(f) == refreshRefused(f) \/ rotateRefused(f) \/ AnswerLost(f)

LEMMA GivenUp ==
  ASSUME SessionInv, NEW f \in Flows, GivesUp(f) PROVE SessionInv'
  <1>1. /\ SessionTypeOK /\ OneLiveToken /\ PageInv
        /\ DeactivationEndsSessions /\ Brought(cookie)
        /\ \A g \in Flows : CallInv(g)
    BY DEF SessionInv, CallInv
  <1>2. /\ refreshRefused(f) => Moves(f, "refused") /\ flowStep[f] = "load"
                                  /\ chosen' = chosen
        /\ rotateRefused(f) => Moves(f, "refused") /\ flowStep[f] = "rotate"
                                 /\ chosen' = [chosen EXCEPT ![f] = NoOutlet]
        /\ AnswerLost(f) => Moves(f, "lost") /\ flowStep[f] = "reply"
                              /\ chosen' = chosen
        /\ FailsRefresh(f)
        /\ UNCHANGED <<session, sessionOutlet, token, tokenSession, cookie>>
    BY DEF GivesUp, refreshRefused, rotateRefused, AnswerLost, Moves,
         FlowGoto, Chose, identityVars, tokenVars
  <1>3. PICK step \in {"refused", "lost"} :
          /\ Moves(f, step) /\ flowStep[f] \in {"load", "rotate", "reply"}
          /\ step = "refused" => flowStep[f] \in {"load", "rotate"}
    BY <1>2 DEF GivesUp
  <1>4. /\ flowStep'[f] = step
        /\ \A g \in Flows : g # f => flowStep'[g] = flowStep[g]
        /\ flowStep' \in [Flows -> FlowStep]
    BY <1>1, <1>3, Moved
  <1>5. /\ access' \in [Tabs -> Flows \cup {NoFlow}]
        /\ chosen' \in [Flows -> Outlets \cup {NoOutlet}]
        /\ \A g \in Flows : g # f => chosen'[g] = chosen[g]
    BY <1>1, <1>2 DEF GivesUp, FailsRefresh, SessionTypeOK
  <1>6. SessionTypeOK'
    BY <1>1, <1>2, <1>3, <1>4, <1>5 DEF SessionTypeOK, Moves
  <1>7. OneLiveToken' /\ DeactivationEndsSessions' /\ PageInv'
    BY <1>1, <1>2, <1>3, PageKept DEF OneLiveToken, DeactivationEndsSessions,
         Moves, GivesUp
  <1>8. Brought(cookie)'
    BY <1>1, <1>2, <1>3, <1>4 DEF Brought
  <1>9. ASSUME NEW g \in Flows PROVE CallInv(g)'
    <2>1. FlowInv(g)' /\ TokenInv(g)'
      BY <1>1, <1>2, <1>3, <1>4 DEF CallInv, FlowInv, TokenInv, Moves
    <2>2. RefreshInv(g)'
      BY <1>1, <1>2, <1>3, <1>4, <1>5 DEF CallInv, RefreshInv, Moves,
           SessionTypeOK
    <2>3. Brought(sent[g])'
      BY <1>1, <1>2, <1>3, <1>4 DEF CallInv, Brought, Moves
    <2>4. KnowsOutlet(g)'
      BY <1>1, <1>2, <1>3, <1>4, <1>5 DEF CallInv, KnowsOutlet, Moves
    <2>5. UsedUp(g)'
      BY <1>1, <1>2, <1>3, PageKept DEF CallInv, UsedUp, Spent, GivesUp
    <2> QED
      BY <2>1, <2>2, <2>3, <2>4, <2>5 DEF CallInv
  <1> QED
    BY <1>6, <1>7, <1>8, <1>9 DEF SessionInv, CallInv

LEMMA AnswerStored ==
  ASSUME SessionInv, NEW f \in Flows, Answered(f) PROVE SessionInv'
  <1>1. /\ SessionTypeOK /\ OneLiveToken /\ PageInv
        /\ DeactivationEndsSessions /\ Brought(cookie)
        /\ \A g \in Flows : CallInv(g)
    BY DEF SessionInv, CallInv
  <1>2. /\ flowStep[f] = "reply" /\ Moves(f, "done")
        /\ cookie' = f
        /\ access' = IF f \in cut THEN access
                     ELSE [access EXCEPT ![flowTab[f]] = tokenSession[f]]
        /\ UNCHANGED <<session, sessionOutlet, token, tokenSession, chosen>>
    BY DEF Answered, Moves, FlowGoto, identityVars, tokenVars
  <1>3. /\ flowStep'[f] = "done"
        /\ \A g \in Flows : g # f => flowStep'[g] = flowStep[g]
        /\ flowStep' \in [Flows -> FlowStep]
    BY <1>1, <1>2, Moved
  <1>4. token[f] # "NONE" /\ \A g \in Flows : sent[g] # f
    BY <1>1, <1>2 DEF CallInv, FlowInv, Brought
  <1>5. SessionTypeOK'
    BY <1>1, <1>2, <1>3 DEF SessionTypeOK, Moves
  <1>6. OneLiveToken' /\ DeactivationEndsSessions' /\ PageInv'
    BY <1>1, <1>2, PageKept DEF OneLiveToken, DeactivationEndsSessions, Moves
  <1>7. Brought(cookie)'
    BY <1>2, <1>3, <1>4 DEF Brought
  <1>8. ASSUME NEW g \in Flows PROVE CallInv(g)'
    <2>1. FlowInv(g)' /\ TokenInv(g)' /\ RefreshInv(g)'
      BY <1>1, <1>2, <1>3, <1>4 DEF CallInv, FlowInv, TokenInv, RefreshInv,
           Moves
    <2>2. Brought(sent[g])'
      BY <1>1, <1>2, <1>3 DEF CallInv, Brought, Moves
    <2>3. KnowsOutlet(g)'
      BY <1>1, <1>2, <1>3 DEF CallInv, KnowsOutlet, Moves
    <2>4. UsedUp(g)'
      BY <1>1, <1>2, PageKept DEF CallInv, UsedUp, Spent
    <2> QED
      BY <2>1, <2>2, <2>3, <2>4 DEF CallInv
  <1> QED
    BY <1>5, <1>6, <1>7, <1>8 DEF SessionInv, CallInv

LEMMA LoggedOut ==
  ASSUME SessionInv, NEW f \in Flows, logoutRevokes(f) PROVE SessionInv'
  <1>1. /\ SessionTypeOK /\ OneLiveToken /\ PageInv
        /\ DeactivationEndsSessions /\ Brought(cookie)
        /\ \A g \in Flows : CallInv(g)
    BY DEF SessionInv, CallInv
  <1> DEFINE x == sent[f]
  <1>0. PICK step \in {"done", "lost"} : Moves(f, step)
    BY DEF logoutRevokes, Moves, FlowGoto, identityVars
  <1>2. /\ flowStep[f] = "revoke"
        /\ token' = [token EXCEPT ![x] = "REVOKED"]
        /\ session' = [session EXCEPT ![tokenSession[x]] = "DELETED"]
        /\ cookie' \in {cookie, NoFlow}
        /\ \/ access' = access
           \/ access' = [access EXCEPT ![flowTab[f]] = NoFlow]
        /\ UNCHANGED <<sessionOutlet, tokenSession, chosen>>
    BY DEF logoutRevokes, browserVars
  <1>3. /\ flowStep'[f] = step
        /\ \A g \in Flows : g # f => flowStep'[g] = flowStep[g]
        /\ flowStep' \in [Flows -> FlowStep]
    BY <1>0, <1>1, Moved
  <1>4. /\ x \in Flows /\ token[x] # "NONE" /\ tokenSession[x] \in Flows
        /\ token[tokenSession[x]] # "NONE" /\ flowStep[x] = "done"
    BY <1>1, <1>2 DEF CallInv, FlowInv, TokenInv, Brought
  <1> HIDE DEF x
  <1>5. /\ \A g \in Flows : (token'[g] = "NONE") = (token[g] = "NONE")
        /\ \A g \in Flows : token'[g] = "LIVE" => token[g] = "LIVE"
        /\ \A g \in Flows : session'[g] = "LIVE" => session[g] = "LIVE"
        /\ \A g \in Flows : session[g] = "NONE" /\ g # tokenSession[x]
             => session'[g] = "NONE"
    BY <1>1, <1>2, <1>4 DEF SessionTypeOK
  <1>6. SessionTypeOK'
    BY <1>0, <1>1, <1>2, <1>3, <1>4 DEF SessionTypeOK, Moves
  <1>7. OneLiveToken' /\ DeactivationEndsSessions' /\ PageInv'
    BY <1>0, <1>1, <1>2, <1>5, PageKept DEF OneLiveToken,
         DeactivationEndsSessions, Moves
  <1>8. Brought(cookie)'
    BY <1>1, <1>2, <1>3, <1>5 DEF Brought
  <1>9. ASSUME NEW g \in Flows PROVE CallInv(g)'
    <2>1. FlowInv(g)'
      <3>1. flowStep[g] \in {"new", "create"} => g # tokenSession[x]
        BY <1>1, <1>4 DEF CallInv, FlowInv
      <3> QED
        BY <1>0, <1>1, <1>2, <1>3, <1>5, <3>1 DEF CallInv, FlowInv, Moves
    <2>2. TokenInv(g)' /\ RefreshInv(g)'
      BY <1>0, <1>1, <1>2, <1>3, <1>5 DEF CallInv, TokenInv, RefreshInv, FlowInv,
           Moves
    <2>3. Brought(sent[g])'
      BY <1>0, <1>1, <1>2, <1>3, <1>5 DEF CallInv, Brought, Moves
    <2>4. KnowsOutlet(g)'
      BY <1>0, <1>1, <1>2, <1>3, <1>5 DEF CallInv, KnowsOutlet, FlowInv, Moves
    <2>5. Spent(g)' => Spent(g)
      BY <1>1, <1>2, <1>4, <1>5 DEF Spent, SessionTypeOK
    <2>6. UsedUp(g)'
      BY <1>0, <1>1, <1>2, <2>5, PageKept DEF CallInv, UsedUp
    <2> QED
      BY <2>1, <2>2, <2>3, <2>4, <2>6 DEF CallInv
  <1> QED
    BY <1>6, <1>7, <1>8, <1>9 DEF SessionInv, CallInv

LEMMA PageLoaded ==
  ASSUME SessionInv, NEW t \in Tabs, loadPage(t) PROVE SessionInv'
  <1>1. /\ access' = [access EXCEPT ![t] = NoFlow]
        /\ cut \subseteq cut' /\ cut' \subseteq Flows \cup cut
        /\ UNCHANGED <<tenantActive, userActive, assigned, changes, session,
             sessionOutlet, token, tokenSession, cookie, flowStep, flowKind,
             flowTab, sent, chosen, overtaken>>
    BY DEF loadPage, identityVars, tokenVars
  <1>2. SessionTypeOK'
    BY <1>1 DEF SessionInv, SessionTypeOK
  <1>3. PageInv'
    BY <1>1 DEF SessionInv, PageInv, Running
  <1> QED
    BY <1>1, <1>2, <1>3 DEF SessionInv, OneLiveToken,
         DeactivationEndsSessions, Brought, FlowInv, TokenInv, RefreshInv,
         KnowsOutlet, UsedUp, Spent, Spends

(* What an administrator or the platform does.                             *)
Administers ==
    \/ setStatus \/ TenantSwitched
    \/ \E outlets \in SUBSET Outlets : setUserOutlets(outlets)

LEMMA Administered == ASSUME SessionInv, Administers PROVE SessionInv'
  <1>1. /\ SessionTypeOK /\ OneLiveToken /\ PageInv
        /\ DeactivationEndsSessions /\ Brought(cookie)
        /\ \A g \in Flows : CallInv(g)
    BY DEF SessionInv, CallInv
  <1>2. /\ changes < MaxChanges /\ changes' = changes + 1
        /\ UNCHANGED <<tokenSession, cookie, access, flowStep, flowKind,
                       flowTab, sent, chosen, cut>>
    BY DEF Administers, setStatus, TenantSwitched, setUserOutlets, Changed,
         browserVars, flowVars, tokenVars
  <1>3. changes' \in 0..MaxChanges /\ changes' > 0
    BY <1>1, <1>2 DEF SessionTypeOK
  <1>4. /\ \A g \in Flows : (token'[g] = "NONE") = (token[g] = "NONE")
        /\ \A g \in Flows : token'[g] = "LIVE" => token[g] = "LIVE"
        /\ \A g \in Flows : session[g] = "NONE" => session'[g] = "NONE"
        /\ \A g \in Flows : Spent(g)' => Spent(g)
        /\ \A g \in Flows : sessionOutlet'[g] = sessionOutlet[g]
                              \/ sessionOutlet'[g] = NoOutlet
        /\ overtaken \subseteq overtaken'
    <2>1. CASE setStatus
      <3>1. \A g \in Flows : Spent(g)' => Spent(g)
        BY <1>1, <1>2, <2>1 DEF setStatus, SessionTypeOK, Spent, CallInv,
             TokenInv
      <3> QED
        BY <1>1, <2>1, <3>1 DEF setStatus, SessionTypeOK
    <2>2. CASE TenantSwitched
      BY <1>1, <2>2 DEF TenantSwitched, tokenVars, Spent
    <2>3. ASSUME NEW outlets \in SUBSET Outlets, setUserOutlets(outlets)
          PROVE  /\ UNCHANGED <<token, session, overtaken>>
                 /\ \A g \in Flows : sessionOutlet'[g] = sessionOutlet[g]
                                       \/ sessionOutlet'[g] = NoOutlet
      BY <1>1, <2>3 DEF setUserOutlets
    <2> QED
      BY <1>2, <2>1, <2>2, <2>3 DEF Administers, Spent
  <1>5. SessionTypeOK'
    <2>1. CASE setStatus
      <3>1. /\ token' \in [Flows -> {"NONE", "LIVE", "REVOKED"}]
            /\ session' \in [Flows -> {"NONE", "LIVE", "DELETED"}]
            /\ overtaken' \subseteq Flows /\ userActive' \in BOOLEAN
        BY <1>1, <2>1 DEF setStatus, SessionTypeOK
      <3> QED
        BY <1>1, <1>2, <1>3, <2>1, <3>1 DEF setStatus, SessionTypeOK
    <2>2. CASE TenantSwitched
      BY <1>1, <1>2, <1>3, <2>2 DEF TenantSwitched, tokenVars, SessionTypeOK
    <2>3. ASSUME NEW outlets \in SUBSET Outlets, setUserOutlets(outlets)
          PROVE  SessionTypeOK'
      BY <1>1, <1>2, <1>3, <2>3 DEF setUserOutlets, SessionTypeOK
    <2> QED
      BY <2>1, <2>2, <2>3 DEF Administers
  <1>6. /\ DeactivationEndsSessions'
        /\ \A g \in Flows : flowStep[g] = "create" /\ ~userActive'
                              => g \in overtaken'
    <2>1. CASE setStatus
      <3>1. CASE userActive
        <4>1. \A g \in Flows : session'[g] # "LIVE"
          BY <1>1, <2>1, <3>1 DEF setStatus, SessionTypeOK
        <4>2. \A g \in Flows : flowStep[g] = "create" => g \in overtaken'
          BY <2>1, <3>1 DEF setStatus
        <4> QED
          BY <4>1, <4>2 DEF DeactivationEndsSessions
      <3>2. CASE ~userActive
        BY <2>1, <3>2 DEF setStatus, DeactivationEndsSessions
      <3> QED
        BY <3>1, <3>2
    <2>2. CASE UNCHANGED <<userActive, session, overtaken>>
      BY <1>1, <2>2 DEF DeactivationEndsSessions, CallInv, FlowInv
    <2> QED
      BY <2>1, <2>2 DEF Administers, TenantSwitched, setUserOutlets, tokenVars
  <1>7. OneLiveToken' /\ PageInv'
    BY <1>1, <1>2, <1>4 DEF OneLiveToken, PageInv, Running
  <1>8. Brought(cookie)'
    BY <1>1, <1>2, <1>4 DEF Brought
  <1>9. ASSUME NEW g \in Flows PROVE CallInv(g)'
    <2>1. FlowInv(g)'
      BY <1>1, <1>2, <1>4, <1>6 DEF CallInv, FlowInv
    <2>2. TokenInv(g)' /\ RefreshInv(g)'
      BY <1>1, <1>2, <1>4 DEF CallInv, TokenInv, RefreshInv
    <2>3. Brought(sent[g])'
      BY <1>1, <1>2, <1>4 DEF CallInv, Brought
    <2>4. KnowsOutlet(g)'
      BY <1>1, <1>2, <1>3, <1>4 DEF CallInv, KnowsOutlet, FlowInv, TokenInv
    <2>5. UsedUp(g)'
      BY <1>1, <1>2, <1>4 DEF CallInv, UsedUp, Spends
    <2> QED
      BY <2>1, <2>2, <2>3, <2>4, <2>5 DEF CallInv
  <1> QED
    BY <1>5, <1>6, <1>7, <1>8, <1>9 DEF SessionInv, CallInv
-----------------------------------------------------------------------------
(* The disjuncts of SessionNext, each under a name the lemmas are about.   *)
LEMMA SessionSteps ==
  ASSUME SessionNext
  PROVE  \/ \E f \in Flows, t \in Tabs : StartSteps(f, t)
         \/ \E f \in Flows :
              \/ createSession(f) \/ createToken(f) \/ refresh(f)
              \/ GivesUp(f) \/ rotate(f) \/ Answered(f) \/ logoutRevokes(f)
         \/ Administers
         \/ \E t \in Tabs : loadPage(t)
  BY DEF SessionNext, StartSteps, GivesUp, Administers

LEMMA SessionInvNext ==
  SessionInv /\ [SessionNext]_sessionVars => SessionInv'
  <1>1. ASSUME SessionInv, SessionNext PROVE SessionInv'
    BY <1>1, SessionSteps, Started, SessionCreated, TokenCreated,
       RefreshLoaded, GivenUp, Rotated, AnswerStored, LoggedOut, PageLoaded,
       Administered
  <1>2. ASSUME SessionInv, UNCHANGED sessionVars PROVE SessionInv'
    BY <1>2 DEF SessionInv, sessionVars, identityVars, tokenVars,
         browserVars, flowVars, SessionTypeOK, OneLiveToken, PageInv, Running,
         DeactivationEndsSessions, Brought, FlowInv, TokenInv, RefreshInv,
         KnowsOutlet, UsedUp, Spent, Spends
  <1> QED
    BY <1>1, <1>2

(* The rows a step leaves alone: all but rotate insert no token for a      *)
(* session that has one, and all but createSession revive no session.      *)
LEMMA EndedStays ==
  ASSUME SessionInv, SessionNext, NEW s \in Flows, session[s] = "DELETED"
  PROVE  /\ session'[s] = "DELETED"
         /\ \A f \in Flows :
              tokenSession'[f] = s /\ token[f] = "NONE"
                => token'[f] = "NONE" \/ flowKind[f] = "login"
  <1>1. /\ SessionTypeOK /\ OneLiveToken /\ PageInv
        /\ DeactivationEndsSessions /\ Brought(cookie)
        /\ \A g \in Flows : CallInv(g)
    BY DEF SessionInv, CallInv
  <1>2. ASSUME NEW f \in Flows, NEW t \in Tabs, StartSteps(f, t)
        PROVE  UNCHANGED <<session, token>>
    BY <1>2 DEF StartSteps, login, refreshAccessToken, logout, switchOutlet,
         tokenVars
  <1>3. ASSUME NEW f \in Flows, createSession(f)
        PROVE  token' = token /\ session'[s] = "DELETED"
    BY <1>1, <1>3 DEF createSession, CallInv, FlowInv, SessionTypeOK
  <1>4. ASSUME NEW f \in Flows, createToken(f)
        PROVE  /\ session' = session /\ flowKind[f] = "login"
               /\ token' = [token EXCEPT ![f] = "LIVE"]
    BY <1>1, <1>4 DEF createToken, CallInv, FlowInv
  <1>5. ASSUME NEW f \in Flows, rotate(f)
        PROVE  /\ session' = session
               /\ tokenSession'[f] # s
               /\ \A g \in Flows : g # f /\ token[g] = "NONE"
                                     => token'[g] = "NONE"
    <2>1. /\ session' = session /\ tokenSession[sent[f]] # s
          /\ tokenSession'[f] = tokenSession[sent[f]]
      BY <1>1, <1>5 DEF rotate, SessionTypeOK
    <2>2. token[sent[f]] = "LIVE"
          /\ token' = [token EXCEPT ![sent[f]] = "REVOKED", ![f] = "LIVE"]
      BY <1>5 DEF rotate
    <2> QED
      BY <1>1, <2>1, <2>2 DEF SessionTypeOK
  <1>6. ASSUME NEW f \in Flows, GivesUp(f) \/ Answered(f) \/ refresh(f)
        PROVE  UNCHANGED <<session, token>>
    BY <1>6 DEF GivesUp, refreshRefused, rotateRefused, AnswerLost,
         Answered, refresh, tokenVars
  <1>7. ASSUME NEW f \in Flows, logoutRevokes(f)
        PROVE  /\ session'[s] = "DELETED"
               /\ token' = [token EXCEPT ![sent[f]] = "REVOKED"]
               /\ sent[f] \in Flows /\ token[sent[f]] # "NONE"
    BY <1>1, <1>7 DEF logoutRevokes, CallInv, FlowInv, Brought, SessionTypeOK
  <1>8. ASSUME Administers
        PROVE  /\ session'[s] = "DELETED"
               /\ \A g \in Flows : token[g] = "NONE" => token'[g] = "NONE"
    BY <1>1, <1>8 DEF Administers, setStatus, TenantSwitched, setUserOutlets,
         tokenVars, SessionTypeOK
  <1>9. ASSUME NEW t \in Tabs, loadPage(t)
        PROVE  UNCHANGED <<session, token>>
    BY <1>9 DEF loadPage, tokenVars
  <1> QED
    BY <1>1, <1>2, <1>3, <1>4, <1>5, <1>6, <1>7, <1>8, <1>9, SessionSteps
       DEF SessionTypeOK

LEMMA OutletKept ==
  ASSUME SessionInv, SessionNext, NEW s \in Flows,
         sessionOutlet'[s] # sessionOutlet[s],
         NEW f \in Flows, flowStep[f] = "rotate", flowStep'[f] = "reply",
         flowKind[f] = "refresh"
  PROVE  sessionOutlet[s] = NoOutlet /\ changes > 0
  <1>1. /\ SessionTypeOK /\ OneLiveToken /\ PageInv
        /\ DeactivationEndsSessions /\ Brought(cookie)
        /\ \A g \in Flows : CallInv(g)
    BY DEF SessionInv, CallInv
  <1>2. rotate(f)
    <2>1. ASSUME NEW g \in Flows, NEW t \in Tabs, StartSteps(g, t)
          PROVE  UNCHANGED sessionOutlet
      BY <2>1 DEF StartSteps, login, refreshAccessToken, logout,
           switchOutlet, tokenVars
    <2>2. ASSUME NEW g \in Flows,
                 createToken(g) \/ refresh(g) \/ GivesUp(g) \/ Answered(g)
                 \/ logoutRevokes(g)
          PROVE  UNCHANGED sessionOutlet
      BY <2>2 DEF createToken, refresh, GivesUp, refreshRefused,
           rotateRefused, AnswerLost, Answered, logoutRevokes, tokenVars
    <2>3. ASSUME NEW g \in Flows, createSession(g) PROVE FALSE
      BY <1>1, <2>3 DEF createSession, FlowGoto, SessionTypeOK
    <2>4. ASSUME Administers PROVE FALSE
      BY <2>4 DEF Administers, setStatus, TenantSwitched, setUserOutlets,
           flowVars
    <2>5. ASSUME NEW g \in Flows, rotate(g) PROVE g = f
      BY <1>1, <2>5 DEF rotate, FlowGoto, SessionTypeOK
    <2>6. ASSUME NEW t \in Tabs, loadPage(t) PROVE FALSE
      BY <2>6 DEF loadPage
    <2> QED
      BY <2>1, <2>2, <2>3, <2>4, <2>5, <2>6, SessionSteps
  <1>3. /\ sessionOutlet' =
             [sessionOutlet EXCEPT ![tokenSession[sent[f]]] = chosen[f]]
        /\ token[sent[f]] = "LIVE"
    BY <1>2 DEF rotate
  <1>4. s = tokenSession[sent[f]] /\ chosen[f] # sessionOutlet[s]
    BY <1>1, <1>3 DEF SessionTypeOK
  <1> QED
    BY <1>1, <1>3, <1>4 DEF CallInv, KnowsOutlet

LEMMA RefusalExplained ==
  ASSUME SessionInv, SessionNext, NEW f \in Flows,
         flowStep[f] \in {"load", "rotate"}, flowStep'[f] = "refused",
         RefusedFor(f)
  PROVE  \E g \in Flows : UsedUpBy(f, g)
  <1>1. /\ SessionTypeOK /\ PageInv /\ FlowInv(f) /\ Brought(sent[f])
        /\ UsedUp(sent[f])
    BY DEF SessionInv, RefusedFor, SessionTypeOK
  <1>2. refreshRefused(f) \/ rotateRefused(f)
    <2>1. ASSUME NEW g \in Flows, NEW t \in Tabs, StartSteps(g, t) PROVE FALSE
      BY <1>1, <2>1 DEF StartSteps, login, refreshAccessToken, logout,
           switchOutlet, Starts, FlowGoto, SessionTypeOK
    <2>2. ASSUME NEW g \in Flows,
                 createSession(g) \/ createToken(g) \/ refresh(g) \/ rotate(g)
                 \/ Answered(g) \/ AnswerLost(g) \/ logoutRevokes(g)
          PROVE  FALSE
      BY <1>1, <2>2 DEF createSession, createToken, refresh, rotate, Answered,
           AnswerLost, logoutRevokes, FlowGoto, SessionTypeOK
    <2>3. ASSUME Administers \/ \E t \in Tabs : loadPage(t) PROVE FALSE
      BY <2>3 DEF Administers, setStatus, TenantSwitched, setUserOutlets,
           flowVars, loadPage
    <2>4. ASSUME NEW g \in Flows, refreshRefused(g) \/ rotateRefused(g)
          PROVE  g = f
      BY <1>1, <2>4 DEF refreshRefused, rotateRefused, FlowGoto, SessionTypeOK
    <2> QED
      BY <2>1, <2>2, <2>3, <2>4, SessionSteps DEF GivesUp
  <1>3. sent[f] \in Flows /\ token[sent[f]] # "LIVE"
    BY <1>1, <1>2 DEF refreshRefused, rotateRefused, Refreshable, RefusedFor,
         SessionTypeOK
  <1>4. Spent(sent[f])
    BY <1>1, <1>3 DEF Spent, Brought, SessionTypeOK, RefusedFor
  <1>5. PICK g \in Flows : Spends(g, sent[f])
    BY <1>1, <1>4 DEF UsedUp
  <1>6. g # f /\ Running(f) /\ f \notin cut
    BY <1>5 DEF Spends, Running, RefusedFor
  <1>7. UsedUpBy(f, g)
    BY <1>1, <1>5, <1>6 DEF UsedUpBy, Spends, PageInv, Running
  <1> QED
    BY <1>7

(* What AuthService and the rotation of refresh tokens promise, for every  *)
(* number of calls, tabs, outlets and changes of an administrator, however *)
(* often pages are loaded and answers are lost: a session has one usable   *)
(* token at most, a deactivated user has no session but one whose login    *)
(* had read the user before, an ended session stays ended, a refresh does  *)
(* not undo a switch of outlet, and a page whose refresh of a live session *)
(* is refused lost its token to another tab, to a switch of outlet or to   *)
(* an answer it did not get, never to another refresh of its own.          *)
THEOREM SessionsSound == SessionSpec => SessionsAreSound
  <1>1. SessionInv => SessionTypeOK /\ OneLiveToken /\ DeactivationEndsSessions
    BY DEF SessionInv
  <1>2. ASSUME SessionInv, [SessionNext]_sessionVars
        PROVE  [\A s \in Flows : session[s] = "DELETED" =>
            /\ session'[s] = "DELETED"
            /\ \A f \in Flows :
                    tokenSession'[f] = s /\ token[f] = "NONE"
                        => token'[f] = "NONE" \/ flowKind[f] = "login"]_sessionVars
    BY <1>2, EndedStays
  <1>3. ASSUME SessionInv, [SessionNext]_sessionVars
        PROVE  [\A s \in Flows :
        /\ sessionOutlet'[s] # sessionOutlet[s]
        /\ \E f \in Flows : /\ flowStep[f] = "rotate" /\ flowStep'[f] = "reply"
                            /\ flowKind[f] = "refresh"
        => sessionOutlet[s] = NoOutlet /\ changes > 0]_sessionVars
    BY <1>3, OutletKept
  <1>4. ASSUME SessionInv, [SessionNext]_sessionVars
        PROVE  [\A f \in Flows :
        /\ flowStep[f] \in {"load", "rotate"} /\ flowStep'[f] = "refused"
        /\ RefusedFor(f)
        => \E g \in Flows : UsedUpBy(f, g)]_sessionVars
    BY <1>4, RefusalExplained
  <1> QED
    BY <1>1, <1>2, <1>3, <1>4, SessionInvInit, SessionInvNext, PTL
       DEF SessionSpec, SessionsAreSound, EndedForGood, RefreshKeepsOutlet,
           TabKeepsSession
HIDE SessionConstants DEF FlowKind, Finished, FlowStep, Unissued
-----------------------------------------------------------------------------
(***************************************************************************)
(* The subscription.                                                       *)
(***************************************************************************)

(* A copy that is saved before the row was written again neither ends a    *)
(* cancellation nor brings another plan than the scheduled one, and only   *)
(* the platform's plan change goes through the compare-and-set.            *)
SavesWell(c) ==
    /\ standing = "CANCELLED" => copy[c].status = "CANCELLED"
    /\ copy[c].plan \in {plan, pendingPlan}
SubscriptionInv ==
    /\ SubscriptionTypeOK
    /\ RenewalIsInvoiced
    /\ \A c \in fresh : subStep[c] = "save" => SavesWell(c)
    /\ \A c \in SubCalls :
         subStep[c] = "schedule" => subOp[c].op = "changeTenantPlan"

USE SubscriptionConstants

LEMMA RowFields ==
  /\ Row.status = standing /\ Row.plan = plan /\ Row.pending = pendingPlan
  /\ Row.end = endedAt
  BY DEF Row

LEMMA SubscriptionInvInit == SubscriptionInit => SubscriptionInv
  <1> SUFFICES ASSUME SubscriptionInit PROVE SubscriptionInv
    OBVIOUS
  <1>1. Row \in RowType
    BY DEF Row, RowType, SubscriptionInit, LifecycleInit, SubscriptionStatus
  <1>2. copy \in [SubCalls -> RowType] /\ month \in Invoices
        /\ period \in [SubCalls -> Invoices]
    BY <1>1 DEF SubscriptionInit
  <1>3. SubscriptionTypeOK
    BY <1>1, <1>2 DEF SubscriptionInit, SubscriptionTypeOK, LifecycleInit,
         InvoiceStatus, SubStep
  <1> QED
    BY <1>3 DEF SubscriptionInv, SubscriptionInit, RenewalIsInvoiced

(* What a call holds once it has read the row.                             *)
LoadsWell(c, s, b, next) ==
    /\ s \in RowType /\ b \in Invoices
    /\ next \in {"save", "schedule", "invoice"}
    /\ next = "schedule" => subOp[c].op = "changeTenantPlan"
    /\ next = "save" => /\ standing = "CANCELLED" => s.status = "CANCELLED"
                        /\ s.plan \in {plan, pendingPlan}
    /\ Loads(c, s, b, next)

LEMMA Loaded ==
  ASSUME SubscriptionTypeOK, NEW c \in SubCalls, LoadAggregate(c)
  PROVE  \E s, b, next : LoadsWell(c, s, b, next)
  <1> DEFINE op == subOp[c].op
             p == subOp[c].plan
  <1>1. /\ Row \in RowType /\ month \in Invoices /\ subOp[c] \in SubOps
        /\ standing = Row.status /\ plan = Row.plan /\ pendingPlan = Row.pending
    BY RowFields DEF SubscriptionTypeOK
  <1> HIDE DEF op
  <1>2. ASSUME NEW t \in {"CANCELLED", "SUSPENDED", "ACTIVE"},
               standing = "CANCELLED" => t = "CANCELLED",
               Loads(c, [Row EXCEPT !.status = t], month, "save")
        PROVE  LoadsWell(c, [Row EXCEPT !.status = t], month, "save")
    <2>1. /\ [Row EXCEPT !.status = t] \in RowType
          /\ [Row EXCEPT !.status = t].status = t
          /\ [Row EXCEPT !.status = t].plan = Row.plan
      BY <1>1 DEF RowType, SubscriptionStatus
    <2> QED
      BY <1>1, <1>2, <2>1 DEF LoadsWell
  <1>3. CASE op = "cancel" /\ Loads(c, [Row EXCEPT !.status = "CANCELLED"], month, "save")
    BY <1>2, <1>3
  <1>4. CASE /\ MaySuspend(Row)
             /\ Loads(c, [Row EXCEPT !.status = "SUSPENDED"], month, "save")
    BY <1>1, <1>2, <1>4 DEF MaySuspend
  <1>5. CASE /\ canActivate(Row)
             /\ Loads(c, [Row EXCEPT !.status = "ACTIVE"], month, "save")
    BY <1>1, <1>2, <1>5 DEF canActivate
  <1>6. CASE /\ op = "changePlan" /\ isActive(Row)
             /\ Loads(c, schedulePlanChange(Row, p), month, "save")
    <2>1. p \in Plans
      BY <1>1, <1>6 DEF SubOps, op
    <2>2. /\ schedulePlanChange(Row, p) \in RowType
          /\ schedulePlanChange(Row, p).plan = Row.plan
      BY <1>1, <2>1 DEF schedulePlanChange, RowType
    <2>3. standing # "CANCELLED"
      BY <1>1, <1>6 DEF isActive
    <2>4. LoadsWell(c, schedulePlanChange(Row, p), month, "save")
      BY <1>1, <1>6, <2>2, <2>3 DEF LoadsWell
    <2> QED
      BY <2>4
  <1>7. CASE op = "changeTenantPlan" /\ Loads(c, Row, month, "schedule")
    <2>1. LoadsWell(c, Row, month, "schedule")
      BY <1>1, <1>7 DEF LoadsWell, op
    <2> QED
      BY <2>1
  <1>8. CASE Loads(c, Row, month, "invoice")
    <2>1. LoadsWell(c, Row, month, "invoice")
      BY <1>1, <1>8 DEF LoadsWell
    <2> QED
      BY <2>1
  <1>9. CASE /\ MayRenew(Row) /\ month < MaxMonth
             /\ Loads(c, renew(Row, month + 1), month + 1, "save")
    <2>1. month + 1 \in Invoices /\ month + 1 \in 0..MaxMonth
      BY <1>1, <1>9
    <2>2. /\ renew(Row, month + 1) \in RowType
          /\ renew(Row, month + 1).plan \in {plan, pendingPlan}
      <3>1. CASE Covered(Row, month + 1)
        BY <1>1, <3>1 DEF renew
      <3>2. CASE ~Covered(Row, month + 1)
        <4> DEFINE q == IF Row.pending = NoPlan THEN Row.plan ELSE Row.pending
        <4>1. q \in Plans /\ q \in {plan, pendingPlan}
          BY <1>1 DEF RowType
        <4> HIDE DEF q
        <4>2. renew(Row, month + 1) =
                [status |-> "ACTIVE", pending |-> NoPlan, end |-> month + 1,
                 plan |-> q]
          BY <3>2 DEF renew, q
        <4> QED
          BY <2>1, <4>1, <4>2 DEF RowType, SubscriptionStatus
      <3> QED
        BY <3>1, <3>2
    <2>3. standing # "CANCELLED"
      BY <1>1, <1>9 DEF MayRenew
    <2>4. LoadsWell(c, renew(Row, month + 1), month + 1, "save")
      BY <1>9, <2>1, <2>2, <2>3 DEF LoadsWell
    <2> QED
      BY <2>4
  <1> QED
    BY <1>3, <1>4, <1>5, <1>6, <1>7, <1>8, <1>9 DEF LoadAggregate, op

LEMMA CallStep ==
  ASSUME SubscriptionInv, NEW c \in SubCalls,
         LoadAggregate(c) \/ AggregateThrows(c) \/ saveSubscription(c)
           \/ changeTenantPlan(c) \/ createInvoiceForBillingPeriod(c)
           \/ SubDies(c)
  PROVE  SubscriptionInv'
  <1>1. SubscriptionTypeOK /\ RenewalIsInvoiced
    BY DEF SubscriptionInv
  <1>2. CASE LoadAggregate(c)
    <2>1. PICK s, b, next : LoadsWell(c, s, b, next)
      BY <1>1, <1>2, Loaded
    <2>2. /\ copy' = [copy EXCEPT ![c] = s]
          /\ period' = [period EXCEPT ![c] = b]
          /\ fresh' = fresh \cup {c}
          /\ subStep' = [subStep EXCEPT ![c] = next]
          /\ UNCHANGED <<invoice, standing, plan, pendingPlan, endedAt, month,
                         amount, subOp>>
      BY <2>1 DEF LoadsWell, Loads, lifecycleVars
    <2>3. next \in SubStep
      BY <2>1 DEF LoadsWell, SubStep
    <2>4. SubscriptionTypeOK'
      BY <1>1, <2>1, <2>2, <2>3 DEF SubscriptionTypeOK, LoadsWell, Row
    <2>5. RenewalIsInvoiced'
      BY <1>1, <2>1, <2>2 DEF RenewalIsInvoiced, SubscriptionTypeOK, LoadsWell
    <2>6. \A d \in fresh' : subStep'[d] = "save" => SavesWell(d)'
      BY <1>1, <2>1, <2>2 DEF SubscriptionInv, SubscriptionTypeOK, LoadsWell,
                              SavesWell
    <2>7. \A d \in SubCalls :
            subStep'[d] = "schedule" => subOp'[d].op = "changeTenantPlan"
      BY <1>1, <2>1, <2>2 DEF SubscriptionInv, SubscriptionTypeOK, LoadsWell
    <2> QED
      BY <2>4, <2>5, <2>6, <2>7 DEF SubscriptionInv
  <1>3. CASE AggregateThrows(c) \/ SubDies(c)
    <2>1. /\ subStep' = [subStep EXCEPT ![c] = "error"]
          /\ UNCHANGED <<invoice, standing, plan, pendingPlan, endedAt, month,
                         amount, subOp, copy, period, fresh>>
      BY <1>3 DEF AggregateThrows, SubDies, lifecycleVars
    <2>2. SubscriptionTypeOK'
      BY <1>1, <2>1 DEF SubscriptionTypeOK, SubStep, Row
    <2> QED
      BY <1>1, <2>1, <2>2 DEF SubscriptionInv, SubscriptionTypeOK, SavesWell,
                              RenewalIsInvoiced
  <1>4. CASE saveSubscription(c)
    <2>1. /\ standing' = copy[c].status /\ plan' = copy[c].plan
          /\ pendingPlan' = copy[c].pending /\ endedAt' = copy[c].end
          /\ fresh' = {}
          /\ subStep' = [subStep EXCEPT ![c] =
                IF subOp[c].op = "renew" THEN "invoice" ELSE "returned"]
          /\ UNCHANGED <<invoice, month, amount, subOp, copy, period>>
      BY <1>4 DEF saveSubscription, WriteRow
    <2>2. Row' \in RowType
      BY <1>1, <2>1 DEF SubscriptionTypeOK, Row, RowType
    <2>3. SubscriptionTypeOK'
      <3>1. RowType' = RowType
        OBVIOUS
      <3> QED
        BY <1>1, <2>1, <2>2, <3>1 DEF SubscriptionTypeOK, SubStep
    <2>4. RenewalIsInvoiced'
      BY <1>1, <2>1 DEF RenewalIsInvoiced, SubscriptionTypeOK
    <2> QED
      BY <1>1, <2>1, <2>3, <2>4 DEF SubscriptionInv, SubscriptionTypeOK
  <1>5. CASE changeTenantPlan(c)
    <2>1. /\ UNCHANGED <<invoice, month, amount, subOp, copy, period>>
          /\ standing' = standing /\ plan' = plan /\ endedAt' = endedAt
          /\ \/ UNCHANGED <<pendingPlan, fresh>>
             \/ /\ fresh' = {}
                /\ pendingPlan' =
                     schedulePlanChange(copy[c], subOp[c].plan).pending
          /\ \/ subStep' = [subStep EXCEPT ![c] = "returned"]
             \/ subStep' = [subStep EXCEPT ![c] = "error"]
      BY <1>5, RowFields DEF changeTenantPlan, WriteRow, rowVars, Row
    <2>2. subOp[c].op = "changeTenantPlan" /\ subOp[c] \in SubOps
      BY <1>1, <1>5 DEF SubscriptionInv, changeTenantPlan, SubscriptionTypeOK
    <2>3. pendingPlan' \in Plans \cup {NoPlan}
      <3>1. subOp[c].plan \in Plans
        BY <2>2 DEF SubOps
      <3>2. copy[c] \in RowType
        BY <1>1 DEF SubscriptionTypeOK
      <3>3. schedulePlanChange(copy[c], subOp[c].plan).pending
              \in Plans \cup {NoPlan}
        BY <3>1, <3>2 DEF schedulePlanChange, RowType
      <3>4. pendingPlan \in Plans \cup {NoPlan}
        BY <1>1 DEF SubscriptionTypeOK, Row, RowType
      <3> QED
        BY <2>1, <3>3, <3>4
    <2>4. SubscriptionTypeOK'
      BY <1>1, <2>1, <2>3 DEF SubscriptionTypeOK, Row, RowType, SubStep
    <2>5. RenewalIsInvoiced'
      BY <1>1, <2>1, <2>2 DEF RenewalIsInvoiced, SubscriptionTypeOK
    <2> QED
      BY <1>1, <2>1, <2>4, <2>5 DEF SubscriptionInv, SubscriptionTypeOK,
                                    SavesWell
  <1>6. CASE createInvoiceForBillingPeriod(c)
    <2> DEFINE i == period[c]
               price == Price[copy[c].plan]
    <2>1. i \in Invoices /\ price \in Nat
      BY <1>1 DEF SubscriptionTypeOK, RowType
    <2>2. /\ \/ /\ invoice' = [invoice EXCEPT ![i] = "PENDING"]
                /\ amount' = [amount EXCEPT ![i] = price]
             \/ UNCHANGED <<invoice, amount>> /\ ~(price > 0 /\ invoice[i] = "NONE")
          /\ subStep' = [subStep EXCEPT ![c] = "returned"]
          /\ UNCHANGED <<standing, plan, pendingPlan, endedAt, month, subOp,
                         copy, period, fresh>>
      BY <1>6 DEF createInvoiceForBillingPeriod, Issue, lifecycleVars
    <2> HIDE DEF price
    <2>3. SubscriptionTypeOK'
      <3>1. /\ invoice' \in [Invoices -> InvoiceStatus]
            /\ amount' \in [Invoices -> Nat]
        <4>1. /\ invoice \in [Invoices -> InvoiceStatus]
              /\ amount \in [Invoices -> Nat]
          BY <1>1 DEF SubscriptionTypeOK
        <4>2. "PENDING" \in InvoiceStatus
          BY DEF InvoiceStatus
        <4> QED
          BY <2>1, <2>2, <4>1, <4>2
      <3>2. subStep' \in [SubCalls -> SubStep] /\ Row' = Row
        BY <1>1, <2>2 DEF SubscriptionTypeOK, SubStep, Row
      <3> QED
        BY <1>1, <2>2, <3>1, <3>2 DEF SubscriptionTypeOK
    <2>4. /\ \A j \in Invoices : invoice[j] # "NONE" => invoice'[j] # "NONE"
          /\ price > 0 => invoice'[i] # "NONE"
      BY <1>1, <2>1, <2>2 DEF SubscriptionTypeOK
    <2>5. RenewalIsInvoiced'
      BY <1>1, <2>1, <2>2, <2>4 DEF RenewalIsInvoiced, SubscriptionTypeOK,
                                    price
    <2> QED
      BY <1>1, <2>2, <2>3, <2>5 DEF SubscriptionInv, SubscriptionTypeOK,
                                    SavesWell
  <1> QED
    BY <1>2, <1>3, <1>4, <1>5, <1>6

LEMMA SubscriptionInvNext ==
  SubscriptionInv /\ [SubscriptionNext]_subscriptionVars => SubscriptionInv'
  <1> SUFFICES ASSUME SubscriptionInv, [SubscriptionNext]_subscriptionVars
               PROVE  SubscriptionInv'
    OBVIOUS
  <1>1. SubscriptionTypeOK /\ RenewalIsInvoiced
    BY DEF SubscriptionInv
  <1>2. ASSUME NEW i \in Invoices, settleInvoice(i) \/ cancelInvoice(i)
        PROVE  SubscriptionInv'
    <2>1. /\ \E t \in {"PAID", "FAILED", "CANCELLED"} :
               invoice' = [invoice EXCEPT ![i] = t]
          /\ \/ standing' = standing /\ fresh' = fresh
             \/ standing' \in {"ACTIVE", "PAST_DUE"} /\ fresh' = {}
          /\ UNCHANGED <<plan, pendingPlan, endedAt, month, amount, subStep,
                         subOp, copy, period>>
      BY <1>2 DEF settleInvoice, cancelInvoice, Settle, Cancel, StandingAfter
    <2>2. Row' \in RowType
      BY <1>1, <2>1 DEF SubscriptionTypeOK, Row, RowType, SubscriptionStatus
    <2>3. RowType' = RowType
      OBVIOUS
    <2>4. /\ invoice' \in [Invoices -> InvoiceStatus]
          /\ \A j \in Invoices : invoice[j] # "NONE" => invoice'[j] # "NONE"
      BY <1>1, <2>1 DEF SubscriptionTypeOK, InvoiceStatus
    <2>5. SubscriptionTypeOK'
      BY <1>1, <2>1, <2>2, <2>3, <2>4 DEF SubscriptionTypeOK
    <2>6. RenewalIsInvoiced'
      BY <1>1, <2>1, <2>4 DEF RenewalIsInvoiced, SubscriptionTypeOK
    <2> QED
      BY <2>1, <2>5, <2>6 DEF SubscriptionInv, SavesWell
  <1>3. CASE MonthEnds
    <2>1. /\ month' = month + 1 /\ month < MaxMonth
          /\ UNCHANGED <<invoice, standing, plan, pendingPlan, endedAt, amount,
                         subStep, subOp, copy, period, fresh>>
      BY <1>3 DEF MonthEnds, lifecycleVars
    <2>2. month' \in Invoices
      BY <1>1, <2>1 DEF SubscriptionTypeOK
    <2> QED
      BY <1>1, <2>1, <2>2 DEF SubscriptionInv, SubscriptionTypeOK, Row,
           RenewalIsInvoiced, SavesWell
  <1>4. CASE UNCHANGED subscriptionVars
    BY <1>1, <1>4 DEF subscriptionVars, lifecycleVars, SubscriptionInv,
         SubscriptionTypeOK, Row, RenewalIsInvoiced, SavesWell
  <1> QED
    BY <1>2, <1>3, <1>4, CallStep DEF SubscriptionNext

(* A cancelled subscription comes back only by a settled invoice or a      *)
(* stale save, the plan in force changes only to the scheduled one or by a *)
(* stale save, and a renewal that answered has its invoice.                *)
THEOREM SubscriptionSound == SubscriptionSpec => SubscriptionIsSound
  <1>1. SubscriptionInv => SubscriptionTypeOK /\ RenewalIsInvoiced
    BY DEF SubscriptionInv
  <1>2. ASSUME SubscriptionInv, SubscriptionNext,
               ~(\E i \in Invoices : /\ invoice[i] = "PENDING"
                                     /\ invoice'[i] \in {"PAID", "FAILED"}),
               ~StaleSave
        PROVE  /\ standing = "CANCELLED" => standing' = "CANCELLED"
               /\ plan' \in {plan, pendingPlan}
    <2>1. SubscriptionTypeOK
      BY <1>2 DEF SubscriptionInv
    <2>2. ASSUME NEW c \in SubCalls, saveSubscription(c)
          PROVE  /\ standing = "CANCELLED" => standing' = "CANCELLED"
                 /\ plan' \in {plan, pendingPlan}
      <3>1. c \in fresh /\ subStep[c] = "save"
        BY <1>2, <2>1, <2>2 DEF saveSubscription, StaleSave,
                                SubscriptionTypeOK
      <3> QED
        BY <1>2, <2>2, <3>1 DEF SubscriptionInv, SavesWell, saveSubscription,
                                WriteRow
    <2>3. ASSUME NEW c \in SubCalls,
                 LoadAggregate(c) \/ AggregateThrows(c) \/ SubDies(c)
          PROVE  UNCHANGED <<standing, plan>>
      BY <2>3 DEF LoadAggregate, Loads, AggregateThrows, SubDies,
                  lifecycleVars
    <2>4. ASSUME NEW c \in SubCalls, changeTenantPlan(c)
          PROVE  UNCHANGED <<standing, plan>>
      BY <2>4, RowFields DEF changeTenantPlan, WriteRow, rowVars, Row
    <2>5. ASSUME NEW c \in SubCalls, createInvoiceForBillingPeriod(c)
          PROVE  UNCHANGED <<standing, plan>>
      BY <2>5 DEF createInvoiceForBillingPeriod, Issue, lifecycleVars
    <2>6. ASSUME NEW i \in Invoices, settleInvoice(i) PROVE FALSE
      BY <1>2, <2>1, <2>6 DEF settleInvoice, Settle, SubscriptionTypeOK
    <2>7. ASSUME NEW i \in Invoices, cancelInvoice(i)
          PROVE  UNCHANGED <<standing, plan>>
      BY <2>7 DEF cancelInvoice, Cancel
    <2>8. CASE MonthEnds
      BY <2>8 DEF MonthEnds, lifecycleVars
    <2> QED
      BY <1>2, <2>2, <2>3, <2>4, <2>5, <2>6, <2>7, <2>8 DEF SubscriptionNext
  <1>3. ASSUME SubscriptionInv, SubscriptionNext, plan' # plan
        PROVE  plan' = pendingPlan \/ StaleSave
    <2>1. CASE \E i \in Invoices : /\ invoice[i] = "PENDING"
                                   /\ invoice'[i] \in {"PAID", "FAILED"}
      <3>1. \E i \in Invoices : settleInvoice(i)
        <4>1. SubscriptionTypeOK
          BY <1>3 DEF SubscriptionInv
        <4> QED
          BY <1>3, <2>1, <4>1 DEF SubscriptionNext, LoadAggregate, Loads,
               AggregateThrows, saveSubscription, changeTenantPlan,
               createInvoiceForBillingPeriod, SubDies, cancelInvoice, Cancel,
               Issue, MonthEnds, lifecycleVars, SubscriptionTypeOK
      <3> QED
        BY <1>3, <3>1 DEF settleInvoice
    <2>2. CASE ~ \E i \in Invoices : /\ invoice[i] = "PENDING"
                                     /\ invoice'[i] \in {"PAID", "FAILED"}
      BY <1>2, <1>3, <2>2
    <2> QED
      BY <2>1, <2>2
  <1>4. SubscriptionInv /\ [SubscriptionNext]_subscriptionVars =>
          /\ [standing = "CANCELLED" /\ standing' # "CANCELLED" =>
                \/ StaleSave
                \/ \E i \in Invoices :
                     /\ invoice[i] = "PENDING"
                     /\ invoice'[i] \in {"PAID", "FAILED"}]_subscriptionVars
          /\ [plan' # plan => plan' = pendingPlan \/ StaleSave]_subscriptionVars
    BY <1>2, <1>3
  <1> QED
    BY <1>1, <1>4, SubscriptionInvInit, SubscriptionInvNext, PTL
       DEF SubscriptionSpec, SubscriptionIsSound, CancelledLeftBy,
           PlanFollowsSchedule
=============================================================================
