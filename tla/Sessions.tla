------------------------------- MODULE Sessions -------------------------------
(***************************************************************************)
(* The sessions and refresh tokens of one user: AuthService, the rotation  *)
(* of refresh tokens, and the tabs of one browser.                         *)
(*                                                                         *)
(* A tab holds an access token in memory, and all tabs share the cookie    *)
(* with the refresh token.  A page that is loaded has no access token and  *)
(* refreshes to get one; a request that is answered 401 refreshes too.  A  *)
(* refresh or a change of outlet reads the token's row, then the session   *)
(* or the assignment, and only then consumes the token, writes the session *)
(* and inserts the next token in one transaction.  Meanwhile the page is   *)
(* loaded again, other tabs refresh, the user logs out, an administrator   *)
(* deactivates the user or takes outlets away, and the tenant is           *)
(* suspended.                                                              *)
(*                                                                         *)
(* A session is named by the login that created it and a token by the call *)
(* that inserted it.                                                       *)
(***************************************************************************)
EXTENDS Naturals, FiniteSets

CONSTANTS
    Flows,          \* calls of login, refresh, switchOutlet and logout
    Tabs,           \* tabs of the browser
    Outlets,        \* outlets of the tenant
    NoFlow, NoOutlet,
    MaxChanges,     \* bound: changes made by administrators
    MaxCut          \* bound: calls whose page is left while they run

ASSUME SessionConstants ==
    /\ NoFlow \notin Flows
    /\ Tabs # {}
    /\ NoOutlet \notin Outlets
    /\ MaxChanges \in Nat /\ MaxCut \in Nat

VARIABLES
    tenantActive,   \* Tenant.status is ACTIVE
    userActive,     \* User.isActive
    assigned,       \* outlets with a live UserOutlet row
    changes,        \* changes made so far
    session,        \* Session rows, by login
    sessionOutlet,  \* Session.outletId
    token,          \* RefreshToken rows, by the call that inserted them
    tokenSession,   \* RefreshToken.sessionId
    cookie,         \* the refresh token the browser holds
    access,         \* the session of each tab's access token
    flowStep, flowKind, flowTab,    \* what each call is and where it stands
    sent,           \* the refresh token it was sent with
    chosen,         \* the outlet it read or was asked for
    cut,            \* calls whose page was left before they were answered
    overtaken       \* logins that read the user before it was deactivated

identityVars == <<tenantActive, userActive, assigned, changes>>
tokenVars == <<session, sessionOutlet, token, tokenSession>>
browserVars == <<cookie, access>>
flowVars == <<flowStep, flowKind, flowTab, sent, chosen, cut>>
sessionVars == <<identityVars, tokenVars, browserVars, flowVars, overtaken>>

FlowKind == {"login", "refresh", "switch", "logout"}
Finished == {"done", "refused", "lost"}
FlowStep ==
    {"new", "create", "issue", "load", "rotate", "revoke", "reply"} \cup Finished

SessionTypeOK ==
    /\ tenantActive \in BOOLEAN
    /\ userActive \in BOOLEAN
    /\ assigned \subseteq Outlets
    /\ changes \in 0..MaxChanges
    /\ session \in [Flows -> {"NONE", "LIVE", "DELETED"}]
    /\ sessionOutlet \in [Flows -> Outlets \cup {NoOutlet}]
    /\ token \in [Flows -> {"NONE", "LIVE", "REVOKED"}]
    /\ tokenSession \in [Flows -> Flows \cup {NoFlow}]
    /\ cookie \in Flows \cup {NoFlow}
    /\ access \in [Tabs -> Flows \cup {NoFlow}]
    /\ flowStep \in [Flows -> FlowStep]
    /\ flowKind \in [Flows -> FlowKind]
    /\ flowTab \in [Flows -> Tabs]
    /\ sent \in [Flows -> Flows \cup {NoFlow}]
    /\ chosen \in [Flows -> Outlets \cup {NoOutlet}]
    /\ cut \subseteq Flows
    /\ overtaken \subseteq Flows

SessionInit ==
    /\ tenantActive = TRUE
    /\ userActive = TRUE
    /\ assigned = Outlets
    /\ changes = 0
    /\ session = [f \in Flows |-> "NONE"]
    /\ sessionOutlet = [f \in Flows |-> NoOutlet]
    /\ token = [f \in Flows |-> "NONE"]
    /\ tokenSession = [f \in Flows |-> NoFlow]
    /\ cookie = NoFlow
    /\ access = [t \in Tabs |-> NoFlow]
    /\ flowStep = [f \in Flows |-> "new"]
    /\ flowKind = [f \in Flows |-> "login"]
    /\ flowTab = [f \in Flows |-> CHOOSE t \in Tabs : TRUE]
    /\ sent = [f \in Flows |-> NoFlow]
    /\ chosen = [f \in Flows |-> NoOutlet]
    /\ cut = {}
    /\ overtaken = {}
-----------------------------------------------------------------------------
FlowGoto(f, s) == flowStep' = [flowStep EXCEPT ![f] = s]

(* Tab t sends call f, with the cookie the browser has now; login does not *)
(* read it.                                                                *)
Starts(f, t, kind, step, outlet) ==
    /\ flowStep[f] = "new"
    /\ FlowGoto(f, step)
    /\ flowKind' = [flowKind EXCEPT ![f] = kind]
    /\ flowTab' = [flowTab EXCEPT ![f] = t]
    /\ sent' = [sent EXCEPT ![f] = IF kind = "login" THEN NoFlow ELSE cookie]
    /\ chosen' = [chosen EXCEPT ![f] = outlet]
    /\ UNCHANGED cut

(* The outlet a call chose has been written, or never will be.             *)
Chose(f) == chosen' = [chosen EXCEPT ![f] = NoOutlet]

(* login checks the user and reads its first outlet, then creates the      *)
(* session and the token in transactions of their own.                     *)
login(f, t) ==
    /\ userActive /\ tenantActive
    /\ access[t] = NoFlow
    /\ \E o \in IF assigned = {} THEN {NoOutlet} ELSE assigned :
            Starts(f, t, "login", "create", o)
    /\ UNCHANGED <<identityVars, tokenVars, browserVars, overtaken>>

createSession(f) ==
    /\ flowStep[f] = "create"
    /\ session' = [session EXCEPT ![f] = "LIVE"]
    /\ sessionOutlet' = [sessionOutlet EXCEPT ![f] = chosen[f]]
    /\ Chose(f)
    /\ FlowGoto(f, "issue")
    /\ UNCHANGED <<identityVars, token, tokenSession, browserVars, flowKind,
                   flowTab, sent, cut, overtaken>>

createToken(f) ==
    /\ flowStep[f] = "issue"
    /\ token' = [token EXCEPT ![f] = "LIVE"]
    /\ tokenSession' = [tokenSession EXCEPT ![f] = f]
    /\ FlowGoto(f, "reply")
    /\ UNCHANGED <<identityVars, session, sessionOutlet, browserVars, flowKind,
                   flowTab, sent, chosen, cut, overtaken>>

(* The page of tab t is loaded, first or again: what the last page had in  *)
(* memory is gone, its access token, its promise of a refresh and whoever  *)
(* waited for an answer.                                                   *)
loadPage(t) ==
    /\ access' = [access EXCEPT ![t] = NoFlow]
    /\ cut' = cut \cup
         {f \in Flows : flowTab[f] = t /\ flowStep[f] \notin Finished \cup {"new"}}
    /\ Cardinality(cut') <= MaxCut
    /\ UNCHANGED <<identityVars, tokenVars, cookie, flowStep, flowKind, flowTab,
                   sent, chosen, overtaken>>

(* Without the promise the requests of a page share.                       *)
refreshAccessToken_each(f, t) ==
    /\ Starts(f, t, "refresh", "load", NoOutlet)
    /\ UNCHANGED <<identityVars, tokenVars, browserVars, overtaken>>

(* hydrate finds no access token in a page that was loaded, or a request   *)
(* of the tab was answered 401.  The page has one refresh in flight at a   *)
(* time: requests that come later wait for the same promise.               *)
refreshAccessToken(f, t) ==
    /\ \A g \in Flows : flowKind[g] = "refresh" /\ flowTab[g] = t
                            => g \in cut \/ flowStep[g] \in Finished
    /\ Starts(f, t, "refresh", "load", NoOutlet)
    /\ UNCHANGED <<identityVars, tokenVars, browserVars, overtaken>>

(* AuthService.refresh: the token, the tenant, the user and the session    *)
(* are read; the session's outlet is carried into the rotation.            *)
Refreshable(x) ==
    /\ x # NoFlow
    /\ token[x] = "LIVE" /\ tenantActive /\ userActive
    /\ session[tokenSession[x]] = "LIVE"
refresh(f) ==
    /\ flowStep[f] = "load"
    /\ Refreshable(sent[f])
    /\ chosen' = [chosen EXCEPT ![f] = sessionOutlet[tokenSession[sent[f]]]]
    /\ FlowGoto(f, "rotate")
    /\ UNCHANGED <<identityVars, tokenVars, browserVars, flowKind, flowTab,
                   sent, cut, overtaken>>

(* A refresh that fails clears the store of its page, if it is still there;*)
(* the cookie stays.                                                       *)
FailsRefresh(f) ==
    access' = IF flowKind[f] = "refresh" /\ f \notin cut
              THEN [access EXCEPT ![flowTab[f]] = NoFlow] ELSE access
refreshRefused(f) ==
    /\ flowStep[f] = "load"
    /\ ~Refreshable(sent[f])
    /\ FlowGoto(f, "refused")
    /\ FailsRefresh(f)
    /\ UNCHANGED <<identityVars, tokenVars, cookie, flowKind, flowTab, sent,
                   chosen, cut, overtaken>>

(* An authorised request of tab t: JwtStrategy.validate.                   *)
Authorised(t) ==
    LET s == access[t] IN
    /\ s # NoFlow
    /\ tenantActive /\ userActive
    /\ session[s] = "LIVE"
    /\ sessionOutlet[s] \in assigned \cup {NoOutlet}

switchOutlet(f, t, o) ==
    /\ Authorised(t)
    /\ cookie # NoFlow
    /\ token[cookie] = "LIVE" /\ tokenSession[cookie] = access[t]
    /\ o \in assigned
    /\ Starts(f, t, "switch", "rotate", o)
    /\ UNCHANGED <<identityVars, tokenVars, browserVars, overtaken>>
-----------------------------------------------------------------------------
(* Mutant: the token is revoked without asking whether it still was live.  *)
rotate_twice(f) ==
    LET s == tokenSession[sent[f]] IN
    /\ flowStep[f] = "rotate"
    /\ session[s] = "LIVE"
    /\ token' = [token EXCEPT ![sent[f]] = "REVOKED", ![f] = "LIVE"]
    /\ tokenSession' = [tokenSession EXCEPT ![f] = s]
    /\ sessionOutlet' = [sessionOutlet EXCEPT ![s] = chosen[f]]
    /\ Chose(f)
    /\ FlowGoto(f, "reply")
    /\ UNCHANGED <<identityVars, session, browserVars, flowKind, flowTab, sent,
                   cut, overtaken>>

(* RefreshRotationService.rotate: one transaction that consumes the token  *)
(* if nobody has, points the live session to the outlet and inserts the    *)
(* next token.                                                             *)
rotate(f) ==
    LET s == tokenSession[sent[f]] IN
    /\ flowStep[f] = "rotate"
    /\ token[sent[f]] = "LIVE"
    /\ session[s] = "LIVE"
    /\ token' = [token EXCEPT ![sent[f]] = "REVOKED", ![f] = "LIVE"]
    /\ tokenSession' = [tokenSession EXCEPT ![f] = s]
    /\ sessionOutlet' = [sessionOutlet EXCEPT ![s] = chosen[f]]
    /\ Chose(f)
    /\ FlowGoto(f, "reply")
    /\ UNCHANGED <<identityVars, session, browserVars, flowKind, flowTab, sent,
                   cut, overtaken>>

rotateRefused(f) ==
    /\ flowStep[f] = "rotate"
    /\ token[sent[f]] # "LIVE" \/ session[tokenSession[sent[f]]] # "LIVE"
    /\ Chose(f)
    /\ FlowGoto(f, "refused")
    /\ FailsRefresh(f)
    /\ UNCHANGED <<identityVars, tokenVars, cookie, flowKind, flowTab, sent,
                   cut, overtaken>>

(* The response sets the cookie, and the access token of the page if it is *)
(* still there to read it.                                                 *)
Answered(f) ==
    /\ flowStep[f] = "reply"
    /\ cookie' = f
    /\ access' = IF f \in cut THEN access
                 ELSE [access EXCEPT ![flowTab[f]] = tokenSession[f]]
    /\ FlowGoto(f, "done")
    /\ UNCHANGED <<identityVars, tokenVars, flowKind, flowTab, sent, chosen,
                   cut, overtaken>>

(* The response is lost, the page was left before it came, or the process  *)
(* dies before it is sent: the browser keeps the token that was consumed,  *)
(* and the next page that is loaded sends it again.                        *)
AnswerLost(f) ==
    /\ flowStep[f] = "reply"
    /\ FlowGoto(f, "lost")
    /\ FailsRefresh(f)
    /\ UNCHANGED <<identityVars, tokenVars, cookie, flowKind, flowTab, sent,
                   chosen, cut, overtaken>>

(* logout reads the token's row, and revokes it with its session only if   *)
(* it was live then.                                                       *)
logout(f, t) ==
    /\ access[t] # NoFlow
    /\ Starts(f, t, "logout",
              IF cookie # NoFlow /\ token[cookie] = "LIVE" THEN "revoke"
              ELSE "done", NoOutlet)
    /\ IF cookie # NoFlow /\ token[cookie] = "LIVE" THEN UNCHANGED browserVars
       ELSE /\ cookie' = NoFlow
            /\ access' = [access EXCEPT ![t] = NoFlow]
    /\ UNCHANGED <<identityVars, tokenVars, overtaken>>

(* Its answer clears the cookie and the store; without it both stay.       *)
logoutRevokes(f) ==
    /\ flowStep[f] = "revoke"
    /\ token' = [token EXCEPT ![sent[f]] = "REVOKED"]
    /\ session' = [session EXCEPT ![tokenSession[sent[f]]] = "DELETED"]
    /\ \/ /\ cookie' = NoFlow
          /\ access' = IF f \in cut THEN access
                       ELSE [access EXCEPT ![flowTab[f]] = NoFlow]
          /\ FlowGoto(f, "done")
       \/ UNCHANGED browserVars /\ FlowGoto(f, "lost")
    /\ UNCHANGED <<identityVars, sessionOutlet, tokenSession, flowKind, flowTab,
                   sent, chosen, cut, overtaken>>
-----------------------------------------------------------------------------
Changed == changes < MaxChanges /\ changes' = changes + 1

(* UsersService.setStatus; who is allowed to is in Staff.                  *)
setStatus ==
    /\ Changed
    /\ userActive' = ~userActive
    /\ IF userActive
       THEN /\ token' = [f \in Flows |-> IF token[f] = "LIVE" THEN "REVOKED"
                                         ELSE token[f]]
            /\ session' = [f \in Flows |-> IF session[f] = "LIVE" THEN "DELETED"
                                           ELSE session[f]]
            /\ overtaken' = overtaken \cup
                    {f \in Flows : flowStep[f] \in {"create", "issue"}}
       ELSE UNCHANGED <<token, session, overtaken>>
    /\ UNCHANGED <<tenantActive, assigned, sessionOutlet, tokenSession,
                   browserVars, flowVars>>

(* UserOutletsService.setUserOutlets and, for one outlet less,             *)
(* OutletsRepository.softDelete.                                           *)
setUserOutlets(outlets) ==
    /\ Changed
    /\ assigned' = outlets
    /\ sessionOutlet' = [f \in Flows |->
            IF session[f] = "LIVE" /\ sessionOutlet[f] \notin outlets
            THEN NoOutlet ELSE sessionOutlet[f]]
    /\ UNCHANGED <<tenantActive, userActive, session, token, tokenSession,
                   browserVars, flowVars, overtaken>>

(* The platform suspends or activates the tenant; see TenantLifecycle.     *)
TenantSwitched ==
    /\ Changed
    /\ tenantActive' = ~tenantActive
    /\ UNCHANGED <<userActive, assigned, tokenVars, browserVars, flowVars,
                   overtaken>>

SessionNext ==
    \/ \E f \in Flows, t \in Tabs :
            \/ login(f, t) \/ refreshAccessToken(f, t) \/ logout(f, t)
            \/ \E o \in Outlets : switchOutlet(f, t, o)
    \/ \E f \in Flows :
            \/ createSession(f) \/ createToken(f) \/ refresh(f)
            \/ refreshRefused(f) \/ rotate(f) \/ rotateRefused(f)
            \/ Answered(f) \/ AnswerLost(f) \/ logoutRevokes(f)
    \/ \E t \in Tabs : loadPage(t)
    \/ setStatus
    \/ \E outlets \in SUBSET Outlets : setUserOutlets(outlets)
    \/ TenantSwitched

SessionSpec == SessionInit /\ [][SessionNext]_sessionVars
-----------------------------------------------------------------------------
(* Refreshes and outlet switches of several tabs, started with the same    *)
(* cookie, leave a session with one usable refresh token at most.          *)
OneLiveToken ==
    \A f, g \in Flows :
        /\ token[f] = "LIVE" /\ token[g] = "LIVE"
        /\ tokenSession[f] = tokenSession[g]
        => f = g

(* A session that logout or a deactivation ended stays ended, and a call   *)
(* that had passed all its checks before cannot get another token for it.  *)
EndedForGood ==
    [][\A s \in Flows : session[s] = "DELETED" =>
            /\ session'[s] = "DELETED"
            /\ \A f \in Flows :
                    tokenSession'[f] = s /\ token[f] = "NONE"
                        => token'[f] = "NONE" \/ flowKind[f] = "login"]_sessionVars

(* A refresh never takes back a switch of outlet, however the two overlap: *)
(* it changes the session's outlet only to put back one that an            *)
(* administrator cleared while the refresh was running.                    *)
RefreshKeepsOutlet ==
    [][\A s \in Flows :
        /\ sessionOutlet'[s] # sessionOutlet[s]
        /\ \E f \in Flows : /\ flowStep[f] = "rotate" /\ flowStep'[f] = "reply"
                            /\ flowKind[f] = "refresh"
        => sessionOutlet[s] = NoOutlet /\ changes > 0]_sessionVars

(* A page is refused a refresh of a live session only because another call *)
(* has used up the token it was sent with: one of another tab, a change of *)
(* outlet, or one of the same tab whose answer was lost or came after the  *)
(* page was loaded again.  Refreshes of one page never cost it its session.*)
UsedUpBy(f, g) ==
    /\ g # f /\ sent[g] = sent[f]
    /\ flowKind[g] \in {"refresh", "switch"}
    /\ flowStep[g] \in {"reply", "done", "lost"}
    /\ \/ flowTab[g] # flowTab[f] \/ flowKind[g] = "switch"
       \/ flowStep[g] = "lost" \/ g \in cut
RefusedFor(f) ==
    /\ flowKind[f] = "refresh" /\ f \notin cut
    /\ sent[f] # NoFlow /\ tenantActive /\ userActive
    /\ session[tokenSession[sent[f]]] = "LIVE"
TabKeepsSession ==
    [][\A f \in Flows :
        /\ flowStep[f] \in {"load", "rotate"} /\ flowStep'[f] = "refused"
        /\ RefusedFor(f)
        => \E g \in Flows : UsedUpBy(f, g)]_sessionVars

(* Deactivating a user ends every session.  The one exception is a login   *)
(* that had checked the user before and creates its session afterwards.    *)
DeactivationEndsSessions ==
    ~userActive => \A s \in Flows : session[s] = "LIVE" => s \in overtaken

(* One usable token per session, nobody left in after a deactivation, no   *)
(* overlapping refresh that revives an ended session or undoes a switch of *)
(* outlet, and no page that ends its session by its own refreshes.         *)
SessionsAreSound ==
    /\ [](SessionTypeOK /\ OneLiveToken /\ DeactivationEndsSessions)
    /\ EndedForGood /\ RefreshKeepsOutlet /\ TabKeepsSession
=============================================================================
