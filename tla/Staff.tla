-------------------------------- MODULE Staff --------------------------------
(***************************************************************************)
(* Users, roles and invitations of one tenant: UsersService,               *)
(* UserRolesService, RolesService and UsersInvitationsService.             *)
(*                                                                         *)
(* setStatus and setUserRoles lock the tenant's row and are serializable,  *)
(* so each is one step.  Editing and deleting a role check first and write *)
(* in a later transaction, and so does the acceptance of an invitation;    *)
(* none of them takes that lock.                                           *)
(*                                                                         *)
(* All invitations go to one e-mail address, and the account an invitation *)
(* creates is named by the invitation.                                     *)
(***************************************************************************)
EXTENDS Naturals, FiniteSets

CONSTANTS
    Users,          \* accounts that exist from the start
    Invitations,    \* invitations of one address
    Roles,          \* roles, those of the system among them
    SystemRoles,
    Permissions,    \* permission codes a tenant can assign
    Manage          \* those that make a user administrator

People == Users \cup Invitations

ASSUME StaffConstants ==
    /\ IsFiniteSet(People)
    /\ Users # {}
    /\ Users \cap Invitations = {}
    /\ SystemRoles \subseteq Roles
    /\ SystemRoles # {}
    /\ Manage \subseteq Permissions
    /\ Manage # {}

VARIABLES
    account,        \* User.isActive, "absent" without a row
    holds,          \* roles of each user: UserRole rows that are not deleted
    roles,          \* Role rows
    grants,         \* RolePermission rows of each role
    roleEdit,       \* checked and not yet written: change of a role
    wanted,         \* the permissions an update of the role will write
    invitation,     \* UserInvitation, "NONE" without a row
    invited,        \* UserInvitationRole rows
    accepting,      \* invitations a call of accept has read as pending
    offered,        \* the roles it read with them
    admitted        \* administrators with a request past the guards

staffVars ==
    <<account, holds, roles, grants, roleEdit, wanted, invitation, invited,
      accepting, offered, admitted>>

InvitationStatus == {"NONE", "DRAFT", "PENDING", "ACCEPTED", "REVOKED"}

(* A user only ever holds roles that exist.                                *)
StaffTypeOK ==
    /\ account \in [People -> {"absent", "active", "inactive"}]
    /\ roles \in SUBSET Roles
    /\ holds \in [People -> SUBSET roles]
    /\ grants \in [Roles -> SUBSET Permissions]
    /\ roleEdit \in [Roles -> {"none", "update", "remove"}]
    /\ wanted \in [Roles -> SUBSET Permissions]
    /\ invitation \in [Invitations -> InvitationStatus]
    /\ invited \in [Invitations -> SUBSET Roles]
    /\ accepting \in SUBSET Invitations
    /\ offered \in [Invitations -> SUBSET Roles]
    /\ admitted \in SUBSET People

(* A new tenant: its users hold a system role with every permission.       *)
StaffInit ==
    /\ account = [p \in People |-> IF p \in Users THEN "active" ELSE "absent"]
    /\ holds = [p \in People |-> IF p \in Users THEN SystemRoles ELSE {}]
    /\ roles = SystemRoles
    /\ grants = [r \in Roles |-> IF r \in SystemRoles THEN Permissions ELSE {}]
    /\ roleEdit = [r \in Roles |-> "none"]
    /\ wanted = [r \in Roles |-> {}]
    /\ invitation = [v \in Invitations |-> "NONE"]
    /\ invited = [v \in Invitations |-> {}]
    /\ accepting = {}
    /\ offered = [v \in Invitations |-> {}]
    /\ admitted = {}
-----------------------------------------------------------------------------
GrantedBy(rs) == UNION {grants[r] : r \in rs}
PermissionsOf(u) == GrantedBy(holds[u])

(* Active users with a role that grants USER_MANAGE or USER_ROLE_MANAGE,   *)
(* when each user holds the roles that held says.                          *)
AdminsWith(held) ==
    {u \in People : account[u] = "active" /\ GrantedBy(held[u]) \cap Manage # {}}
Admins == AdminsWith(holds)

(* JwtAuthGuard and PermissionGuard read the actor and its permissions     *)
(* before the service begins: by then others may have taken them away.     *)
admit(a) ==
    /\ a \in Admins \ admitted
    /\ admitted' = admitted \cup {a}
    /\ UNCHANGED <<account, holds, roles, grants, roleEdit, wanted, invitation,
                   invited, accepting, offered>>

Handled(a) == a \in admitted /\ admitted' = admitted \ {a}

(* The request ends in an error of the service.                            *)
refuse(a) ==
    /\ Handled(a)
    /\ UNCHANGED <<account, holds, roles, grants, roleEdit, wanted, invitation,
                   invited, accepting, offered>>

(* Mutant: the user to be deactivated is counted too.                      *)
setStatus_self(a, u) ==
    /\ Handled(a) /\ a # u
    /\ account[u] = "active"
    /\ Admins # {}
    /\ account' = [account EXCEPT ![u] = "inactive"]
    /\ UNCHANGED <<holds, roles, grants, roleEdit, wanted, invitation, invited,
                   accepting, offered>>

deactivate(a, u) ==
    /\ Handled(a) /\ a # u
    /\ account[u] = "active"
    /\ Admins \ {u} # {}
    /\ account' = [account EXCEPT ![u] = "inactive"]
    /\ UNCHANGED <<holds, roles, grants, roleEdit, wanted, invitation, invited,
                   accepting, offered>>

activate(a, u) ==
    /\ Handled(a)
    /\ account[u] = "inactive"
    /\ account' = [account EXCEPT ![u] = "active"]
    /\ UNCHANGED <<holds, roles, grants, roleEdit, wanted, invitation, invited,
                   accepting, offered>>

(* assertCanAssignRoles: the roles exist and grant nothing the actor does  *)
(* not have.                                                               *)
MayAssign(a, rs) == rs \subseteq roles /\ GrantedBy(rs) \subseteq PermissionsOf(a)

setUserRoles(a, u, rs) ==
    /\ Handled(a)
    /\ account[u] # "absent"
    /\ rs # {} /\ MayAssign(a, rs)
    /\ AdminsWith([holds EXCEPT ![u] = rs]) # {}
    /\ holds' = [holds EXCEPT ![u] = rs]
    /\ UNCHANGED <<account, roles, grants, roleEdit, wanted, invitation, invited,
                   accepting, offered>>
-----------------------------------------------------------------------------
createRole(a, r, ps) ==
    /\ Handled(a)
    /\ r \notin roles /\ r \notin SystemRoles
    /\ ps \subseteq PermissionsOf(a)
    /\ roles' = roles \cup {r}
    /\ grants' = [grants EXCEPT ![r] = ps]
    /\ UNCHANGED <<account, holds, roleEdit, wanted, invitation, invited, accepting,
                   offered>>

Editable(r) == r \in roles \ SystemRoles

(* RolesService.update and RolePermissionsService.setRolePermissions check *)
(* what the actor may grant ...                                            *)
checkUpdate(a, r, ps) ==
    /\ Handled(a)
    /\ roleEdit[r] = "none" /\ Editable(r)
    /\ ps \subseteq PermissionsOf(a)
    /\ roleEdit' = [roleEdit EXCEPT ![r] = "update"]
    /\ wanted' = [wanted EXCEPT ![r] = ps]
    /\ UNCHANGED <<account, holds, roles, grants, invitation, invited, accepting,
                   offered>>

(* ... and then replace the role's permissions.                            *)
updateRole(r) ==
    /\ roleEdit[r] = "update"
    /\ roleEdit' = [roleEdit EXCEPT ![r] = "none"]
    /\ wanted' = [wanted EXCEPT ![r] = {}]
    /\ grants' = IF r \in roles THEN [grants EXCEPT ![r] = wanted[r]] ELSE grants
    /\ UNCHANGED <<account, holds, roles, invitation, invited, accepting, offered,
                   admitted>>

(* RolesService.remove: nobody holds the role or is invited to it ...      *)
checkRemove(a, r) ==
    /\ Handled(a)
    /\ roleEdit[r] = "none" /\ Editable(r)
    /\ \A u \in People : r \notin holds[u]
    /\ \A v \in Invitations : invitation[v] = "PENDING" => r \notin invited[v]
    /\ roleEdit' = [roleEdit EXCEPT ![r] = "remove"]
    /\ UNCHANGED <<account, holds, roles, grants, wanted, invitation, invited,
                   accepting, offered>>

(* ... and then deletes it; rows that refer to it are deleted with it.     *)
removeRole(r) ==
    /\ roleEdit[r] = "remove"
    /\ roleEdit' = [roleEdit EXCEPT ![r] = "none"]
    /\ roles' = roles \ {r}
    /\ grants' = [grants EXCEPT ![r] = {}]
    /\ holds' = [u \in People |-> holds[u] \ {r}]
    /\ invited' = [v \in Invitations |->
                    IF invitation[v] = "DRAFT" THEN invited[v] ELSE invited[v] \ {r}]
    /\ UNCHANGED <<account, wanted, invitation, accepting, offered, admitted>>
-----------------------------------------------------------------------------
(* UsersInvitationsService.create: one transaction revokes the earlier     *)
(* invitations of the address it can see and inserts the new one; two of   *)
(* them can run side by side.                                              *)
revokeEarlier(a, v, rs) ==
    /\ Handled(a)
    /\ invitation[v] = "NONE"
    /\ \A w \in Invitations : account[w] = "absent"
    /\ MayAssign(a, rs)
    /\ invitation' = [w \in Invitations |->
                        IF w = v THEN "DRAFT"
                        ELSE IF invitation[w] = "PENDING" THEN "REVOKED"
                        ELSE invitation[w]]
    /\ invited' = [invited EXCEPT ![v] = rs]
    /\ UNCHANGED <<account, holds, roles, grants, roleEdit, wanted, accepting,
                   offered>>

(* A role that was deleted meanwhile makes the transaction fail.           *)
insertInvitation(v) ==
    /\ invitation[v] = "DRAFT"
    /\ invitation' = [invitation EXCEPT ![v] =
                        IF invited[v] \subseteq roles THEN "PENDING" ELSE "REVOKED"]
    /\ UNCHANGED <<account, holds, roles, grants, roleEdit, wanted, invited, accepting,
                   offered, admitted>>

(* An administrator revokes it, or the mail could not be sent.             *)
revokeInvitation(v) ==
    /\ invitation[v] = "PENDING"
    /\ invitation' = [invitation EXCEPT ![v] = "REVOKED"]
    /\ UNCHANGED <<account, holds, roles, grants, roleEdit, wanted, invited, accepting,
                   offered, admitted>>

(* accept reads the invitation and hashes the password ...                 *)
readInvitation(v) ==
    /\ invitation[v] = "PENDING"
    /\ v \notin accepting
    /\ accepting' = accepting \cup {v}
    /\ offered' = [offered EXCEPT ![v] = invited[v]]
    /\ UNCHANGED <<account, holds, roles, grants, roleEdit, wanted, invitation,
                   invited, admitted>>

(* ... and then claims it and creates the account, if the invitation is    *)
(* still pending and the address has none.  Roles that were deleted since  *)
(* the read make the transaction fail.                                     *)
acceptInvitation(v) ==
    /\ v \in accepting
    /\ accepting' = accepting \ {v}
    /\ offered' = [offered EXCEPT ![v] = {}]
    /\ IF /\ invitation[v] = "PENDING"
          /\ \A w \in Invitations : account[w] = "absent"
          /\ offered[v] \subseteq roles
       THEN /\ invitation' = [invitation EXCEPT ![v] = "ACCEPTED"]
            /\ account' = [account EXCEPT ![v] = "active"]
            /\ holds' = [holds EXCEPT ![v] = offered[v]]
       ELSE UNCHANGED <<invitation, account, holds>>
    /\ UNCHANGED <<roles, grants, roleEdit, wanted, invited, admitted>>

StaffNext ==
    \/ \E a \in People : admit(a) \/ refuse(a)
    \/ \E a, u \in People :
            \/ deactivate(a, u) \/ activate(a, u)
            \/ \E rs \in SUBSET Roles : setUserRoles(a, u, rs)
    \/ \E a \in People, r \in Roles :
            \/ \E ps \in SUBSET Permissions :
                    createRole(a, r, ps) \/ checkUpdate(a, r, ps)
            \/ checkRemove(a, r)
    \/ \E r \in Roles : updateRole(r) \/ removeRole(r)
    \/ \E a \in People, v \in Invitations, rs \in SUBSET Roles \ {{}} :
            revokeEarlier(a, v, rs)
    \/ \E v \in Invitations :
            \/ insertInvitation(v) \/ revokeInvitation(v)
            \/ readInvitation(v) \/ acceptInvitation(v)

StaffSpec == StaffInit /\ [][StaffNext]_staffVars
-----------------------------------------------------------------------------
(* Deactivations and role assignments of several administrators at once    *)
(* never leave the tenant without one: only a role that is edited or       *)
(* deleted can.                                                            *)
AdminLostByEdit ==
    [][Admins # {} /\ Admins' = {} =>
            \E r \in Roles : roleEdit[r] # "none" /\ roleEdit'[r] = "none"]_staffVars

(* One address gets one account, although it may hold several invitations  *)
(* and accept them at the same time.                                       *)
OneAccountPerAddress ==
    \A v, w \in Invitations :
        account[v] # "absent" /\ account[w] # "absent" => v = w

(* What an invitation became it stays: one that was revoked while its      *)
(* password was being hashed creates no account.                           *)
InvitationFinal ==
    [][\A v \in Invitations : invitation[v] \in {"ACCEPTED", "REVOKED"} =>
            /\ invitation'[v] = invitation[v]
            /\ account[v] = "absent" => account'[v] = "absent"]_staffVars

(* setUserRoles says that a user must retain at least one role.  Whatever  *)
(* runs at the same time, a user without a role has lost the last one to   *)
(* the deletion of a role that was assigned after the deletion's check.    *)
RoleLostByRemoval ==
    [][\A u \in People :
        holds'[u] = {} /\ holds[u] # {}
        => \E r \in holds[u] : roleEdit[r] = "remove" /\ roleEdit'[r] = "none"]_staffVars

(* What concurrent administration may not do: lose the last administrator  *)
(* or a user's last role other than by an edit or a removal of the role,   *)
(* revive an invitation, or make a second account for an address.          *)
StaffIsKept ==
    /\ [](StaffTypeOK /\ OneAccountPerAddress)
    /\ AdminLostByEdit /\ RoleLostByRemoval /\ InvitationFinal

=============================================================================
