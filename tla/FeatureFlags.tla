---------------------------- MODULE FeatureFlags ----------------------------
(***************************************************************************)
(* One feature flag of a tenant, its row and its cached evaluation.        *)
(*                                                                         *)
(* A change reads the row into a FeatureFlagAggregate, saves all of its    *)
(* columns, publishes an event, and then deletes the cached result; an     *)
(* evaluation that misses the cache reads the row and stores the result    *)
(* for five minutes.  Nothing ties these steps together, so an evaluation  *)
(* can store what it read before a change, and a change can save what it   *)
(* read before another.                                                    *)
(***************************************************************************)
EXTENDS Naturals

CONSTANTS
    FlagCalls,      \* calls of the endpoints that change the flag
    Evaluators,     \* requests that evaluate it, again and again
    NoFlag,         \* there is no row
    FirstFlag,      \* id of the row there is at first
    MaxFlagFaults   \* bound: failures of handlers and of Redis

ASSUME FlagConstants ==
    /\ NoFlag \notin FlagCalls /\ FirstFlag \notin FlagCalls
    /\ NoFlag # FirstFlag
    /\ FlagCalls \cap Evaluators = {}
    /\ MaxFlagFaults \in Nat

VARIABLES
    flag,           \* the FeatureFlag row of the key
    cached,         \* the Redis entry
    flagStep, flagOp, flagCopy,     \* each call: step, endpoint, aggregate
    outdated,       \* calls since whose read the row was saved (not a column)
    evaluating,     \* each evaluation: step and computed result
    raced,          \* an evaluation stored what a save made old
    flagFaults      \* failures so far

flagVars == <<flag, cached, flagStep, flagOp, flagCopy, outdated, evaluating,
              raced, flagFaults>>

FlagRow == [id : FlagCalls \cup {NoFlag, FirstFlag},
            enabled : BOOLEAN, archived : BOOLEAN]
FlagOps == {"create", "enable", "disable", "archive", "restore", "hardDelete"}
FlagSteps == {"new", "loaded", "saved", "published", "done", "error"}
Missing == [id |-> NoFlag, enabled |-> FALSE, archived |-> FALSE]

(* evaluate of the aggregate, as it is stored; a missing flag is off.      *)
Truth == IF flag.enabled /\ ~flag.archived THEN "true" ELSE "false"

(* There is at most one row, and the cache holds a Boolean or nothing.     *)
FlagTypeOK ==
    /\ flag \in FlagRow
    /\ flag.id = NoFlag => flag = Missing
    /\ cached \in {"none", "true", "false"}
    /\ flagStep \in [FlagCalls -> FlagSteps]
    /\ flagOp \in [FlagCalls -> FlagOps]
    /\ flagCopy \in [FlagCalls -> FlagRow]
    /\ outdated \subseteq FlagCalls \cup Evaluators
    /\ evaluating \in [Evaluators -> {"idle", "true", "false"}]
    /\ raced \in BOOLEAN
    /\ flagFaults \in 0..MaxFlagFaults

FlagInit ==
    /\ flag \in {Missing, [id |-> FirstFlag, enabled |-> TRUE,
                           archived |-> FALSE]}
    /\ cached = "none"
    /\ flagStep = [c \in FlagCalls |-> "new"]
    /\ flagOp \in [FlagCalls -> FlagOps]
    /\ flagCopy = [c \in FlagCalls |-> Missing]
    /\ outdated = {}
    /\ evaluating = [e \in Evaluators |-> "idle"]
    /\ raced = FALSE
    /\ flagFaults = 0
-----------------------------------------------------------------------------
FlagGoto(c, s) == flagStep' = [flagStep EXCEPT ![c] = s]
FlagFault == flagFaults < MaxFlagFaults /\ flagFaults' = flagFaults + 1

(* The methods of the aggregate.                                           *)
aggregateAfter(op, f) ==
    [f EXCEPT !.enabled = IF op = "enable" THEN TRUE
                          ELSE IF op = "disable" THEN FALSE ELSE @,
              !.archived = IF op = "archive" THEN TRUE
                           ELSE IF op = "restore" THEN FALSE ELSE @]

(* restore finds archived flags too; the others only those in use.         *)
flagFound(c) ==
    flag.id # NoFlag /\ (flagOp[c] = "restore" \/ ~flag.archived)

(* Mutant: the archive date is not read from the row.                      *)
loadFlag_undated(c) ==
    /\ flagStep[c] = "new"
    /\ flagOp[c] \notin {"create", "hardDelete"}
    /\ flag.id # NoFlag
    /\ flagCopy' = [flagCopy EXCEPT ![c] =
            aggregateAfter(flagOp[c], [flag EXCEPT !.archived = FALSE])]
    /\ FlagGoto(c, "loaded")
    /\ UNCHANGED <<flag, cached, flagOp, outdated, evaluating, raced,
                   flagFaults>>

loadFlag(c) ==
    /\ flagStep[c] = "new"
    /\ flagOp[c] \notin {"create", "hardDelete"}
    /\ IF flagFound(c)
       THEN /\ flagCopy' = [flagCopy EXCEPT ![c] =
                                aggregateAfter(flagOp[c], flag)]
            /\ FlagGoto(c, "loaded")
       ELSE FlagGoto(c, "error") /\ UNCHANGED flagCopy
    /\ UNCHANGED <<flag, cached, flagOp, outdated, evaluating, raced,
                   flagFaults>>

(* existsByKey does not see an archived flag; the caller may create it on. *)
createFlag(c) ==
    /\ flagStep[c] = "new"
    /\ flagOp[c] = "create"
    /\ IF flag.id # NoFlag /\ ~flag.archived
       THEN FlagGoto(c, "error") /\ UNCHANGED flagCopy
       ELSE /\ \E on \in BOOLEAN :
                    flagCopy' = [flagCopy EXCEPT ![c] =
                                    [id |-> c, enabled |-> on, archived |-> FALSE]]
            /\ FlagGoto(c, "loaded")
    /\ UNCHANGED <<flag, cached, flagOp, outdated, evaluating, raced,
                   flagFaults>>

Readers == {c \in FlagCalls : flagStep[c] = "loaded"}
             \cup {e \in Evaluators : evaluating[e] # "idle"}

(* The row goes, without an event and without a look at the cache.         *)
hardDelete(c) ==
    /\ flagStep[c] = "new"
    /\ flagOp[c] = "hardDelete"
    /\ flag' = Missing
    /\ outdated' = outdated \cup Readers
    /\ FlagGoto(c, "done")
    /\ UNCHANGED <<cached, flagOp, flagCopy, evaluating, raced, flagFaults>>

(* The upsert by id: all columns of the aggregate, unless the key belongs  *)
(* to another row by now.                                                  *)
saveFlag(c) ==
    /\ flagStep[c] = "loaded"
    /\ IF flag.id \in {NoFlag, flagCopy[c].id}
       THEN /\ flag' = flagCopy[c]
            /\ outdated' = outdated \cup Readers
            /\ FlagGoto(c, "saved")
       ELSE FlagGoto(c, "error") /\ UNCHANGED <<flag, outdated>>
    /\ UNCHANGED <<cached, flagOp, flagCopy, evaluating, raced, flagFaults>>

(* A subscriber's exception leaves the cache as it was.                    *)
publishFlagEvent(c) ==
    /\ flagStep[c] = "saved"
    /\ \/ FlagGoto(c, "published") /\ UNCHANGED flagFaults
       \/ FlagGoto(c, "error") /\ FlagFault
    /\ UNCHANGED <<flag, cached, flagOp, flagCopy, outdated, evaluating, raced>>

(* A failing Redis is logged and ignored.                                  *)
invalidateCache(c) ==
    /\ flagStep[c] = "published"
    /\ \/ cached' = "none" /\ UNCHANGED flagFaults
       \/ UNCHANGED cached /\ FlagFault
    /\ FlagGoto(c, "done")
    /\ UNCHANGED <<flag, flagOp, flagCopy, outdated, evaluating, raced>>

(* evaluate: a hit is answered from the cache and changes nothing; a miss  *)
(* (or a failing Redis) reads the row, and a missing flag is not cached.   *)
evaluate(e) ==
    /\ evaluating[e] = "idle"
    /\ flag.id # NoFlag /\ ~flag.archived
    /\ \/ cached = "none" /\ UNCHANGED flagFaults
       \/ cached # "none" /\ FlagFault
    /\ evaluating' = [evaluating EXCEPT ![e] = Truth]
    /\ outdated' = outdated \ {e}
    /\ UNCHANGED <<flag, cached, flagStep, flagOp, flagCopy, raced>>

cacheResult(e) ==
    /\ evaluating[e] # "idle"
    /\ evaluating' = [evaluating EXCEPT ![e] = "idle"]
    /\ cached' = evaluating[e]
    /\ raced' = (raced \/ e \in outdated)
    /\ UNCHANGED <<flag, flagStep, flagOp, flagCopy, outdated, flagFaults>>

(* Mutant: the result is stored without an expiry.                         *)
cacheExpires_never ==
    /\ cached = "expired"
    /\ cached' = "none"
    /\ UNCHANGED <<flag, flagStep, flagOp, flagCopy, outdated, evaluating,
                   raced, flagFaults>>

(* The entry was stored with setex for 300 seconds.                        *)
cacheExpires ==
    /\ cached # "none"
    /\ cached' = "none"
    /\ UNCHANGED <<flag, flagStep, flagOp, flagCopy, outdated, evaluating,
                   raced, flagFaults>>

FlagCallStep(c) ==
    \/ loadFlag(c) \/ createFlag(c) \/ hardDelete(c) \/ saveFlag(c)
    \/ publishFlagEvent(c) \/ invalidateCache(c)
FlagNext ==
    \/ \E c \in FlagCalls : FlagCallStep(c)
    \/ \E e \in Evaluators : evaluate(e) \/ cacheResult(e)
    \/ cacheExpires

FlagSpec == FlagInit /\ [][FlagNext]_flagVars

-----------------------------------------------------------------------------
Uninvalidated ==
    {c \in FlagCalls : \/ flagStep[c] \in {"saved", "published"}
                       \/ flagStep[c] = "done" /\ flagOp[c] = "hardDelete"}
InUse(f) == f.id # NoFlag /\ ~f.archived

(* The cache differs from the row only while a change has yet to delete    *)
(* it, after a failure or a hard delete, or when an evaluation stored what *)
(* it had read before a change: no other order of steps serves an old      *)
(* value.                                                                  *)
CacheIsFresh ==
    cached \in {"none", Truth}
        \/ Uninvalidated # {} \/ flagFaults > 0 \/ raced

(* An archived or deleted flag is in use again only through restore or     *)
(* create, or through the save of a change that had read it before.        *)
BackInUseBy ==
    [][~InUse(flag) /\ InUse(flag') =>
        \E c \in FlagCalls :
            /\ flagStep[c] = "loaded" /\ flagStep'[c] = "saved"
            /\ flagOp[c] \in {"restore", "create"} \/ c \in outdated]_flag

(* The row of a key leaves only by a hard delete: no call puts its own row *)
(* in its place.                                                           *)
RowKept == [][flag'.id \in {flag.id, NoFlag} \/ flag.id = NoFlag]_flag

(* Whatever raced or failed, the cache agrees with the row in the end.     *)
CacheSettles == <>[](cached \in {"none", Truth})

(* No change of a flag undoes another one that it could have seen: a flag  *)
(* out of use stays so, a row keeps its place, and a cached value is old   *)
(* only in the cases named above.                                          *)
FlagIsKept == [](FlagTypeOK /\ CacheIsFresh) /\ BackInUseBy /\ RowKept

=============================================================================
