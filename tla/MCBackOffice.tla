---------------------------- MODULE MCBackOffice ----------------------------
(***************************************************************************)
(* What administrators edit and users work in: the tenant, its             *)
(* subscription, the staff and their roles, the sessions, a form that is   *)
(* sent again, and the pages of the web application.  A behaviour is one   *)
(* of one component, the component in focus, while the others rest in one  *)
(* of their initial states.                                                *)
(***************************************************************************)
EXTENDS TenantLifecycle, Staff, Sessions, Subscription, RetryClient,
        WebCache

CONSTANTS a1, a2, b1, b2, i1, i2, t1, t2

(* Pairs of interchangeable values: users and calls of the platform's      *)
(* administrators, sales, outlets and what is filled in a form.            *)
PairA == {a1, a2}
PairB == {b1, b2}
Pairs == Permutations(PairA) \cup Permutations(PairB)

(* A plan that is free and one that is not.                                *)
TwoPrices == i1 :> 0 @@ i2 :> 2
Months == 1..MaxMonth

(* Two currencies, and two roles of which one is the system's; the one     *)
(* permission is the one that makes an administrator.                      *)
Two == {i1, i2}
SystemRole == {i1}
UserManage == {"user.manage"}
OneInvitation == {t1}

(* Three flows in two tabs: a refresh in each and a change of outlet; and  *)
(* three calls that change the subscription.                               *)
ThreeFlows == {a1, a2, i1}
TwoTabs == {t1, t2}
-----------------------------------------------------------------------------
VARIABLE focus

Resting(f) ==
    /\ f # "tenant" => UNCHANGED tenantVars
    /\ f # "staff" => UNCHANGED staffVars
    /\ f # "session" => UNCHANGED sessionVars
    /\ f # "subscription" => UNCHANGED subscriptionVars
    /\ f # "retry" => UNCHANGED retryVars
    /\ f # "web" => UNCHANGED webVars
officeVars ==
    <<focus, tenantVars, staffVars, sessionVars, subscriptionVars, retryVars,
      webVars>>

(* What a component chooses at the start is fixed while it rests.          *)
OfficeInit ==
    /\ focus \in {"tenant", "staff", "session", "subscription", "retry",
                  "web"}
    /\ TenantInit /\ StaffInit /\ SessionInit /\ SubscriptionInit /\ RetryInit
    /\ focus # "tenant" =>
         /\ currencyCode = NoCurrency
         /\ \A c \in RegistryCalls : registryCall[c].op = "update"
         /\ \A c \in SettingsCalls : settingsCall[c].to = i1
    /\ focus # "subscription" =>
         plan = i1 /\ \A c \in SubCalls : subOp[c].op = "cancel"
    /\ focus # "retry" => page = "order"
    /\ IF focus = "web"
       THEN WebInit
       ELSE WebStart /\ follows = Following(NoQuery, NoMutation, {})

(* Calls are named in the order in which they start, i1 being the last:    *)
(* any other behaviour is a renaming of one of these.                      *)
InOrderOfStart(step) ==
    step'[i1] # "new" => \A c \in PairA : step[c] # "new"

In(f, A) == focus = f /\ A /\ Resting(f) /\ UNCHANGED focus

OfficeNext ==
    \/ In("tenant", TenantNext) \/ In("staff", StaffNext)
    \/ In("session", SessionNext /\ InOrderOfStart(flowStep))
    \/ In("subscription", SubscriptionNext /\ InOrderOfStart(subStep))
    \/ In("retry", RetryNext) \/ In("web", WebNext)

OfficeSpec == OfficeInit /\ [][OfficeNext]_officeVars
=============================================================================
