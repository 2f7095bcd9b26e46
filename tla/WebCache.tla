------------------------------ MODULE WebCache ------------------------------
(***************************************************************************)
(* A tab of the web application at work: the cache of query results        *)
(* (providers/query-provider.tsx), a page that mounts queries and offers   *)
(* mutations, the store of the session (stores/auth.store.ts), and the     *)
(* shell that signs out and changes the outlet.                            *)
(*                                                                         *)
(* A behaviour follows one query of a page and one mutation the page       *)
(* offers, by what of the two the cache and the guards tell apart; two     *)
(* that touch the cache in one way are one.  Rows are told apart           *)
(* by the number of followed changes in them and by the scope, session and *)
(* outlet, the server read them for: JwtStrategy takes the outlet from the *)
(* row of the session, so a request is served for the outlet of the moment *)
(* whatever token it carries.                                              *)
(*                                                                         *)
(* External: the query client (react-query 5).  An invalidated query with  *)
(* rows that is mounted is fetched anew, its fetch in flight cancelled; a  *)
(* fetch that is in flight before there are rows, or of a page that is     *)
(* closed, is kept, and its success makes the query valid.                 *)
(***************************************************************************)
EXTENDS WebWorkPages, SequencesExt

CONSTANTS
    MaxChangesSeen, \* bound: changes the followed mutation makes
    MaxScopes       \* bound: sessions and outlets one after the other

ASSUME WebBounds == MaxChangesSeen \in Nat \ {0} /\ MaxScopes \in Nat \ {0}

VARIABLES
    follows,   \* the query and the mutation: see Following
    open,      \* the page is mounted
    cached,    \* the query in the cache: rows, invalid, aged, failed
    fetch,     \* "idle", "sent", "refused" or "back" with rows
    mutation,  \* "idle", "sent", "refused", "done" or "saved" (see onSuccess)
    made,      \* changes committed
    heard,     \* changes the page was told of
    actedIn,   \* the scope in which the last change was made
    scope,     \* the session and outlet the server serves
    signed,    \* "in", "switching" (the outlet) or "out"
    raced,     \* the fetch was in flight when the query was invalidated
    carried    \* rows of an earlier scope may be in the cache

webVars == <<follows, open, cached, fetch, mutation, made, heard, actedIn,
             scope, signed, raced, carried>>
queryVars == <<cached, fetch, raced>>
mutationVars == <<mutation, made, heard, actedIn>>
sessionStore == <<scope, signed, carried>>
-----------------------------------------------------------------------------
NoQuery == Query(<<>>, Reads({}, {}), {})
NoMutation == Mutation(Writes({}, {}), {}, {})
NoRows == [change |-> 0, scope |-> 0]
NotCached == [rows |-> NoRows, invalid |-> FALSE, aged |-> FALSE,
              failed |-> FALSE]

(* Changes a page does not show by itself: a recipe in the list below the  *)
(* form (recipe-form.tsx:33 names the product's recipe only), an unused    *)
(* ingredient that was removed (ingredient-edit-form.tsx:94), and the      *)
(* outlets the shell offers.                                               *)
NotRefreshed(q, m) ==
    \/ q.key \in {recipeKeys.list, <<"auth", "accessible-outlets">>}
    \/ m.leaves /\ m.refreshes = {}

(* Pages whose gate is weaker than the guard of the handler.               *)
WeakGates ==
    {q \in OrderWorkspace.queries : q.key = orderKeys.all}
      \cup OrderDetailWorkspace.queries \cup {orderFormCreate}
      \cup {m \in orderDetailMutations : m.gate = {}}
      \cup purchaseEditQueries \cup inventoryFormQueries
      \cup {q \in transferQueries : q.key = warehouseKeys.all}
      \cup {q \in roleDetailQueries : q.key = roleKeys.permissions}
      \cup PlatformTenantsPage.queries \cup PlatformTenantPage.queries
      \cup PlatformTenantPage.mutations
      \cup {q \in PlatformSubscriptionPage.queries :
              q.key = <<"platform-plans">>}

Names(keys, q) == \E key \in keys : IsPrefix(key, q.key)
Shows(q, m) == q.api.shows \cap m.api.changes # {} /\ ~NotRefreshed(q, m)
Pages == TenantPages \cup PlatformPages
Mounted(page) ==
    page.queries \cup (IF page \in TenantPages THEN appShellQueries ELSE {})

(* What the tables of pages and handlers say, and TLC evaluates: the gate  *)
(* of a page covers what the handler demands, and a mutation names, one    *)
(* way or another, the keys of the queries beside it that show its change. *)
ASSUME GatesCoverGuards ==
    \A page \in Pages : \A r \in Mounted(page) \cup page.mutations :
        r \in WeakGates \/ PermissionGuard(r.api, r.gate)
ASSUME MutationsNameQueries ==
    \A page \in Pages : \A q \in Mounted(page), m \in page.mutations :
        Shows(q, m) => \/ Names(m.refreshes, q) \/ Names(m.removes, q)
                       \/ Names(m.sets, q) \/ Names(m.patches, q)

(* What query q and mutation m are to a session with the permissions may:  *)
(* whether the page fetches and offers them and the guards admit them,     *)
(* what onSuccess does to q, and whether q shows what m changes.           *)
Following(q, m, may) ==
    [enabled   |-> q # NoQuery /\ q.gate \subseteq may,
     admitted  |-> PermissionGuard(q.api, may),
     weakFetch |-> q \in WeakGates,
     offered   |-> m # NoMutation /\ m.gate \subseteq may,
     permitted |-> PermissionGuard(m.api, may),
     weakOffer |-> m \in WeakGates,
     refreshed |-> Names(m.refreshes, q),
     awaits    |-> m.refreshes # {},
     removed   |-> Names(m.removes, q),
     set       |-> Names(m.sets, q),
     patched   |-> Names(m.patches, q),
     leaves    |-> m.leaves,
     shown     |-> Shows(q, m)]

(* A session has what the query asks, what the mutation asks, or both.     *)
Followings ==
    UNION {UNION {{Following(q, m, may) :
                     may \in {q.gate, m.gate, q.gate \cup m.gate}} :
                    q \in Mounted(page) \cup {NoQuery},
                    m \in page.mutations \cup {NoMutation}} :
             page \in Pages}

Fetch(at) == [at |-> at, rows |-> NoRows]
Cleared == cached' = NotCached /\ raced' = FALSE

WebStart ==
    /\ open = FALSE /\ cached = NotCached /\ fetch = Fetch("idle")
    /\ mutation = "idle" /\ made = 0 /\ heard = 0 /\ actedIn = 1
    /\ scope = 1 /\ signed = "in" /\ raced = FALSE /\ carried = FALSE
WebInit == WebStart /\ follows \in Followings
-----------------------------------------------------------------------------
(* Queries.  A fetch is sent when a page is mounted and the query has no   *)
(* fresh rows.                                                             *)
Sent == fetch' = Fetch("sent") /\ raced' = FALSE
NotFresh == cached.rows = NoRows \/ cached.invalid \/ cached.aged
               \/ cached.failed

openPage ==
    /\ ~open /\ signed # "out"
    /\ open' = TRUE
    /\ IF follows.enabled /\ NotFresh /\ fetch.at = "idle"
       THEN Sent
       ELSE UNCHANGED <<fetch, raced>>
    /\ UNCHANGED <<follows, cached, mutationVars, sessionStore>>
closePage ==
    /\ open /\ open' = FALSE
    /\ UNCHANGED <<follows, queryVars, mutationVars, sessionStore>>

(* The server reads the rows, or PermissionGuard refuses.                  *)
serve ==
    /\ fetch.at = "sent" /\ signed # "out"
    /\ fetch' = IF follows.admitted
                THEN [at |-> "back",
                      rows |-> [change |-> made, scope |-> scope]]
                ELSE Fetch("refused")
    /\ UNCHANGED <<follows, open, cached, raced, mutationVars, sessionStore>>
receive ==
    /\ fetch.at = "back"
    /\ cached' = [NotCached EXCEPT !.rows = fetch.rows]
    /\ fetch' = Fetch("idle")
    /\ UNCHANGED <<follows, open, raced, mutationVars, sessionStore>>
(* After the retries; a 4xx is not retried.                                *)
fetchFails ==
    /\ fetch.at # "idle"
    /\ fetch' = Fetch("idle") /\ cached' = [cached EXCEPT !.failed = TRUE]
    /\ UNCHANGED <<follows, open, raced, mutationVars, sessionStore>>

(* staleTime and gcTime pass; a stale query is fetched on reconnection and *)
(* where the page polls.                                                   *)
age ==
    /\ cached.rows # NoRows /\ ~cached.aged
    /\ cached' = [cached EXCEPT !.aged = TRUE]
    /\ UNCHANGED <<follows, open, fetch, raced, mutationVars, sessionStore>>
refetchStale ==
    /\ open /\ follows.enabled /\ fetch.at = "idle" /\ NotFresh
    /\ Sent
    /\ UNCHANGED <<follows, open, cached, mutationVars, sessionStore>>
collect ==
    /\ ~open /\ fetch.at = "idle" /\ cached # NotCached
    /\ Cleared
    /\ UNCHANGED <<follows, open, fetch, mutationVars, sessionStore>>
-----------------------------------------------------------------------------
(* Mutations.  None is retried.                                            *)
submitPage ==
    /\ open /\ mutation = "idle" /\ made < MaxChangesSeen
    /\ follows.offered
    /\ mutation' = "sent"
    /\ UNCHANGED <<follows, open, queryVars, made, heard, actedIn,
                   sessionStore>>
apply ==
    /\ mutation = "sent" /\ signed # "out"
    /\ IF follows.permitted
       THEN mutation' = "done" /\ made' = made + 1 /\ actedIn' = scope
       ELSE mutation' = "refused" /\ UNCHANGED <<made, actedIn>>
    /\ UNCHANGED <<follows, open, queryVars, heard, sessionStore>>
(* Refused, or no answer arrives: onError touches no query.                *)
mutationFails ==
    /\ mutation \in {"sent", "refused", "done"}
    /\ mutation' = "idle"
    /\ UNCHANGED <<follows, open, queryVars, made, heard, actedIn,
                   sessionStore>>

invalidateQueries ==
    IF ~follows.refreshed
         \/ (cached = NotCached /\ fetch.at = "idle" /\ ~open)
    THEN UNCHANGED queryVars
    ELSE /\ cached' = [cached EXCEPT !.invalid = TRUE]
         /\ IF /\ open /\ follows.enabled
               /\ cached.rows # NoRows \/ fetch.at = "idle"
            THEN Sent
            ELSE raced' = (raced \/ fetch.at # "idle") /\ UNCHANGED fetch
setsData == follows.set \/ follows.patched

(* Mutant: onSuccess is given to mutate, which does not call it once the   *)
(* page is closed.                                                         *)
SuccessOfOpenPage ==
    /\ mutation = "done"
    /\ IF ~open THEN UNCHANGED queryVars
       ELSE IF follows.removed THEN Cleared /\ fetch' = Fetch("idle")
       ELSE invalidateQueries
    /\ mutation' = IF setsData THEN "saved" ELSE "idle"
    /\ heard' = IF setsData THEN heard ELSE made
    /\ open' = (open /\ ~follows.leaves)
    /\ UNCHANGED <<follows, made, actedIn, sessionStore>>

(* The answer arrives.  The page may be closed by then, or another         *)
(* session's.  What onSuccess sets it sets when the queries it invalidated *)
(* have been fetched.                                                      *)
onSuccess ==
    /\ mutation = "done"
    /\ IF follows.removed
       THEN Cleared /\ fetch' = Fetch("idle")
       ELSE invalidateQueries
    /\ mutation' = IF setsData THEN "saved" ELSE "idle"
    /\ heard' = IF setsData THEN heard ELSE made
    /\ open' = (open /\ ~follows.leaves)
    /\ UNCHANGED <<follows, made, actedIn, sessionStore>>
setQueryData ==
    /\ mutation = "saved"
    /\ follows.awaits => fetch.at = "idle"
    /\ mutation' = "idle" /\ heard' = made
    /\ raced' = (raced \/ fetch.at # "idle")
    /\ IF follows.patched /\ cached.rows = NoRows
       THEN UNCHANGED <<cached, carried>>
       ELSE /\ cached' = [NotCached EXCEPT !.rows =
                 [change |-> made,
                  scope |-> IF follows.patched THEN cached.rows.scope
                                               ELSE actedIn]]
            /\ carried' = (carried \/ actedIn # scope \/ signed = "out")
    /\ UNCHANGED <<follows, open, fetch, made, actedIn, scope, signed>>
-----------------------------------------------------------------------------
(* The session.                                                            *)
handleSignOut ==
    /\ signed # "out"
    /\ signed' = "out" /\ open' = FALSE /\ carried' = FALSE
    /\ Cleared /\ fetch' = Fetch("idle")
    /\ UNCHANGED <<follows, mutationVars, scope>>

(* A 401 whose refresh fails clears the store, and AuthGuard then renders  *)
(* nothing; the cache is left as it is.                                    *)
sessionLost ==
    /\ signed # "out" /\ (fetch.at = "sent" \/ mutation = "sent")
    /\ signed' = "out" /\ open' = FALSE /\ carried' = TRUE
    /\ UNCHANGED <<follows, queryVars, mutationVars, scope>>
signIn ==
    /\ signed = "out" /\ scope < MaxScopes
    /\ signed' = "in" /\ scope' = scope + 1
    /\ UNCHANGED <<follows, open, queryVars, mutationVars, carried>>

(* The outlet is changed at the server first.                              *)
switchActiveOutlet ==
    /\ signed = "in" /\ scope < MaxScopes
    /\ signed' = "switching" /\ scope' = scope + 1
    /\ UNCHANGED <<follows, open, queryVars, mutationVars, carried>>
(* Mutant: the rows of the outlet that was left stay.                      *)
OutletChangeKeepsRows ==
    /\ signed = "switching"
    /\ signed' = "in" /\ carried' = FALSE
    /\ UNCHANGED <<follows, open, queryVars, mutationVars, scope>>
(* Mutant: every query of the page is fetched, enabled or not.             *)
OutletChangeFetchesAll ==
    /\ signed = "switching"
    /\ signed' = "in" /\ carried' = FALSE
    /\ Cleared
    /\ fetch' = Fetch(IF open THEN "sent" ELSE "idle")
    /\ UNCHANGED <<follows, open, mutationVars, scope>>
handleOutletChange ==
    /\ signed = "switching"
    /\ signed' = "in" /\ carried' = FALSE
    /\ Cleared
    /\ fetch' = Fetch(IF open /\ follows.enabled THEN "sent" ELSE "idle")
    /\ UNCHANGED <<follows, open, mutationVars, scope>>
outletChangeFails ==
    /\ signed = "switching"
    /\ signed' = "in" /\ carried' = TRUE
    /\ UNCHANGED <<follows, open, queryVars, mutationVars, scope>>
-----------------------------------------------------------------------------
WebNext ==
    \/ openPage \/ closePage \/ serve \/ receive \/ fetchFails \/ age
    \/ refetchStale \/ collect
    \/ submitPage \/ apply \/ mutationFails \/ onSuccess \/ setQueryData
    \/ handleSignOut \/ sessionLost \/ signIn
    \/ switchActiveOutlet \/ handleOutletChange \/ outletChangeFails

WebSpec == WebInit /\ [][WebNext]_webVars
-----------------------------------------------------------------------------
Displayed == open /\ signed = "in" /\ cached.rows # NoRows /\ ~cached.failed

(* What a page's own mutation changed the page shows once it was told of   *)
(* it and nothing is in flight, whatever was fetched, cancelled, closed,   *)
(* reopened or collected in between: every mutation names the keys of the  *)
(* queries beside it.  Two things excuse it: a fetch that was in flight    *)
(* when the query was invalidated, and the queries in NotRefreshed.        *)
OwnChangeShown ==
    Displayed /\ follows.shown /\ fetch.at = "idle" /\ mutation = "idle"
      /\ ~raced
    => cached.rows.change >= heard

(* The rows on a page are those of the session and the outlet the server   *)
(* now serves: signing out and changing the outlet empty the cache and     *)
(* drop what is in flight.  Excused are a session that was lost and an     *)
(* outlet that was changed only at the server, which leave the cache, and  *)
(* a saved outlet whose answer arrives after its session.                  *)
RowsOfSession == Displayed /\ ~carried => cached.rows.scope = scope

(* A page sends no request, and offers none, that PermissionGuard refuses: *)
(* what the page asks of the session covers what the handler demands.  The *)
(* exceptions are WeakGates.                                               *)
OfferedIsAllowed ==
    /\ fetch.at = "refused" => follows.weakFetch
    /\ mutation = "refused" => follows.weakOffer
=============================================================================
