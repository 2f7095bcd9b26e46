----------------------------- MODULE JobHistory -----------------------------
(***************************************************************************)
(* What JobExecutionHistoryService records of one queued job.              *)
(*                                                                         *)
(* Every worker process follows the events of the queue from the moment it *)
(* starts and upserts one JobExecution row per attempt.  The number of the *)
(* attempt is counted by the process in memory, so two processes, or one   *)
(* that restarts, need not agree on it; the events of a job are handled    *)
(* one after the other, with the handler's awaits in between.              *)
(***************************************************************************)
EXTENDS Naturals, Sequences

CONSTANTS
    Listeners,      \* worker processes
    MaxAttempts,    \* the job's attempts option
    MaxRestarts,    \* bound: processes that die or start late
    MaxDbFaults     \* bound: failures of the database

ASSUME JobConstants ==
    /\ Listeners # {}
    /\ MaxAttempts \in Nat \ {0} /\ MaxRestarts \in Nat /\ MaxDbFaults \in Nat

VARIABLES
    jobState,       \* the job in Redis
    made,           \* attempts that were made
    jobEvents,      \* the queue's event stream
    position,       \* the next event of each process, 0 while it is down
    attemptNumbers, \* the counter of each process
    jobSnapshot,    \* attempt of the snapshot, 0 for none
    recording,      \* processes inside handleActive
    rows,           \* JobExecution.status of each attempt
    unread,         \* ghost: processes that found the job gone
    restarts, dbFaults

queueVars == <<jobState, made, jobEvents>>
memoryVars == <<position, attemptNumbers, jobSnapshot, recording>>
jobVars == <<queueVars, memoryVars, rows, unread, restarts, dbFaults>>

Attempts == 1..MaxAttempts
JobRow == {"none", "ACTIVE", "RETRYING", "COMPLETED", "FAILED"}

(* Counters stay within the attempts the job may make.                     *)
JobTypeOK ==
    /\ jobState \in {"waiting", "active", "completed", "failed"}
    /\ made \in 0..MaxAttempts
    /\ jobEvents \in Seq({"active", "completed", "failed"})
    /\ position \in [Listeners -> Nat]
    /\ attemptNumbers \in [Listeners -> 0..MaxAttempts]
    /\ jobSnapshot \in [Listeners -> 0..MaxAttempts]
    /\ recording \subseteq Listeners
    /\ rows \in [Attempts -> JobRow]
    /\ unread \subseteq Listeners
    /\ restarts \in 0..MaxRestarts /\ dbFaults \in 0..MaxDbFaults

JobInit ==
    /\ jobState = "waiting"
    /\ made = 0
    /\ jobEvents = <<>>
    /\ position = [p \in Listeners |-> 1]
    /\ attemptNumbers = [p \in Listeners |-> 0]
    /\ jobSnapshot = [p \in Listeners |-> 0]
    /\ recording = {}
    /\ rows = [k \in Attempts |-> "none"]
    /\ unread = {}
    /\ restarts = 0
    /\ dbFaults = 0
-----------------------------------------------------------------------------
(* BullMQ: a failed attempt that is retried goes back to waiting and only  *)
(* the last one is announced as failed.                                    *)
jobStarts ==
    /\ jobState = "waiting"
    /\ jobState' = "active"
    /\ made' = made + 1
    /\ jobEvents' = Append(jobEvents, "active")
    /\ UNCHANGED <<memoryVars, rows, unread, restarts, dbFaults>>

jobEnds ==
    /\ jobState = "active"
    /\ \/ /\ jobState' = "completed"
          /\ jobEvents' = Append(jobEvents, "completed")
       \/ /\ made < MaxAttempts
          /\ jobState' = "waiting"
          /\ UNCHANGED jobEvents
       \/ /\ made = MaxAttempts
          /\ jobState' = "failed"
          /\ jobEvents' = Append(jobEvents, "failed")
    /\ UNCHANGED <<made, memoryVars, rows, unread, restarts, dbFaults>>
-----------------------------------------------------------------------------
Hears(p, e) ==
    /\ position[p] \in 1..Len(jobEvents)
    /\ jobEvents[position[p]] = e
    /\ p \notin recording
Handled(p) == position' = [position EXCEPT ![p] = @ + 1]

(* persistExecution: the row is written, or the exception is logged.       *)
persistExecution(k, status) ==
    /\ rows' = [rows EXCEPT ![k] = status]
    /\ UNCHANGED dbFaults
persistFails ==
    /\ dbFaults < MaxDbFaults
    /\ dbFaults' = dbFaults + 1
    /\ UNCHANGED rows

(* handleActive counts the attempt and closes the one before, if it was    *)
(* seen; a failure to write that ends the handler.                         *)
handleActive(p) ==
    /\ Hears(p, "active")
    /\ attemptNumbers' = [attemptNumbers EXCEPT ![p] = @ + 1]
    /\ \/ /\ IF jobSnapshot[p] = 0 THEN UNCHANGED <<rows, dbFaults>>
             ELSE persistExecution(jobSnapshot[p], "RETRYING")
          /\ recording' = recording \cup {p}
          /\ UNCHANGED position
       \/ /\ jobSnapshot[p] # 0
          /\ persistFails
          /\ Handled(p)
          /\ UNCHANGED recording
    /\ UNCHANGED <<queueVars, jobSnapshot, unread, restarts>>

persistActive(p) ==
    /\ p \in recording
    /\ recording' = recording \ {p}
    /\ jobSnapshot' = [jobSnapshot EXCEPT ![p] = attemptNumbers[p]]
    /\ persistExecution(attemptNumbers[p], "ACTIVE") \/ persistFails
    /\ Handled(p)
    /\ UNCHANGED <<queueVars, attemptNumbers, unread, restarts>>

(* The job was removed when it completed, before the event was handled.    *)
jobGone(p) ==
    /\ Hears(p, "active")
    /\ jobState = "completed"
    /\ unread' = unread \cup {p}
    /\ Handled(p)
    /\ UNCHANGED <<queueVars, attemptNumbers, jobSnapshot, recording, rows,
                   restarts, dbFaults>>

Forgets(p) ==
    /\ jobSnapshot' = [jobSnapshot EXCEPT ![p] = 0]
    /\ attemptNumbers' = [attemptNumbers EXCEPT ![p] = 0]
Remembers == UNCHANGED <<jobSnapshot, attemptNumbers>>

handleCompleted(p) ==
    /\ Hears(p, "completed")
    /\ \/ jobSnapshot[p] = 0 /\ Remembers /\ UNCHANGED <<rows, dbFaults>>
       \/ /\ jobSnapshot[p] # 0
          /\ persistExecution(jobSnapshot[p], "COMPLETED")
          /\ Forgets(p)
       \/ jobSnapshot[p] # 0 /\ persistFails /\ Remembers
    /\ Handled(p)
    /\ UNCHANGED <<queueVars, recording, unread, restarts>>

(* Mutant: the last attempt still counts as one to be retried.             *)
FailedStatus_last(k) == IF k <= MaxAttempts THEN "RETRYING" ELSE "FAILED"

FailedStatus(k) == IF k < MaxAttempts THEN "RETRYING" ELSE "FAILED"

handleFailed(p) ==
    LET status == FailedStatus(jobSnapshot[p])
    IN  /\ Hears(p, "failed")
        /\ \/ jobSnapshot[p] = 0 /\ Remembers /\ UNCHANGED <<rows, dbFaults>>
           \/ /\ jobSnapshot[p] # 0
              /\ persistExecution(jobSnapshot[p], status)
              /\ IF status = "FAILED" THEN Forgets(p) ELSE Remembers
           \/ jobSnapshot[p] # 0 /\ persistFails /\ Remembers
        /\ Handled(p)
        /\ UNCHANGED <<queueVars, recording, unread, restarts>>

(* A process dies with what it remembers ...                               *)
listenerDies(p) ==
    /\ position[p] # 0
    /\ restarts < MaxRestarts
    /\ restarts' = restarts + 1
    /\ position' = [position EXCEPT ![p] = 0]
    /\ Forgets(p)
    /\ recording' = recording \ {p}
    /\ UNCHANGED <<queueVars, rows, unread, dbFaults>>

(* ... and another takes its place, hearing only what comes after.         *)
attachQueue(p) ==
    /\ position[p] = 0
    /\ position' = [position EXCEPT ![p] = Len(jobEvents) + 1]
    /\ UNCHANGED <<queueVars, attemptNumbers, jobSnapshot, recording, rows,
                   unread, restarts, dbFaults>>

JobNext ==
    \/ jobStarts \/ jobEnds
    \/ \E p \in Listeners :
         \/ handleActive(p) \/ persistActive(p) \/ jobGone(p)
         \/ handleCompleted(p) \/ handleFailed(p)
         \/ listenerDies(p) \/ attachQueue(p)

JobSpec == JobInit /\ [][JobNext]_jobVars
-----------------------------------------------------------------------------
CaughtUp ==
    /\ jobState \in {"completed", "failed"}
    /\ recording = {}
    /\ \A p \in Listeners : position[p] = Len(jobEvents) + 1

(* The rows tell what happened: when every process has heard of the end    *)
(* and none died, lost a write or found the job gone, the retried attempts *)
(* are RETRYING and the last is the outcome of the job, although every     *)
(* process writes all of them, each at its own pace.                       *)
HistoryIsTrue ==
    CaughtUp /\ restarts = 0 /\ dbFaults = 0 /\ unread = {} =>
        \A k \in Attempts :
            rows[k] = CASE k < made -> "RETRYING"
                        [] k = made /\ jobState = "completed" -> "COMPLETED"
                        [] k = made /\ jobState = "failed" -> "FAILED"
                        [] OTHER -> "none"

(* No row tells of an attempt that was not made, even when processes die,  *)
(* start late and count differently.                                       *)
RowsWereMade == \A k \in Attempts : rows[k] # "none" => k <= made

(* A process that misses the start of an attempt, because the job is gone  *)
(* by then, miscounts, yet leaves no row that looks unfinished: only a     *)
(* process that died or a write that failed does.                          *)
NoneLeftActive ==
    CaughtUp /\ restarts = 0 /\ dbFaults = 0 =>
        \A k \in Attempts : rows[k] # "ACTIVE"

(* The history of a retried job, whichever process wrote it.               *)
HistoryIsReliable ==
    JobTypeOK /\ HistoryIsTrue /\ RowsWereMade /\ NoneLeftActive
=============================================================================
