--------------------------- MODULE WorkerRegistry ---------------------------
(***************************************************************************)
(* WorkerInstance rows: a worker process registers under its name, host    *)
(* and process id, renews its row on a timer and marks it when it stops.   *)
(* A container that restarts runs under the host and process id of the one *)
(* before, so processes may share a row.  The platform's page derives the  *)
(* status it shows from the row and its age.                               *)
(***************************************************************************)
EXTENDS Naturals

CONSTANTS
    Processes,      \* worker processes
    WorkerKeys,     \* name:host:pid
    MaxBeatFaults   \* bound: heartbeats that fail

ASSUME WorkerConstants == MaxBeatFaults \in Nat

VARIABLES
    workerKey,      \* the key of each process
    process,        \* where each process is
    beating,        \* processes with a heartbeat on its way
    workerRow,      \* the row of each key
    beatFaults

workerVars == <<workerKey, process, beating, workerRow, beatFaults>>

(* fresh: the last heartbeat is within the threshold.                      *)
WorkerRow == [status : {"none", "ACTIVE", "STALE", "STOPPED"},
              fresh : BOOLEAN, stoppedAt : BOOLEAN]

(* stoppedAt is set on STOPPED rows and on no other.                       *)
WorkerTypeOK ==
    /\ workerKey \in [Processes -> WorkerKeys]
    /\ process \in [Processes -> {"new", "up", "stopping", "gone"}]
    /\ beating \subseteq Processes
    /\ workerRow \in [WorkerKeys -> WorkerRow]
    /\ beatFaults \in 0..MaxBeatFaults
    /\ \A k \in WorkerKeys :
         workerRow[k].stoppedAt <=> workerRow[k].status = "STOPPED"

WorkerInit ==
    /\ workerKey \in [Processes -> WorkerKeys]
    /\ process = [p \in Processes |-> "new"]
    /\ beating = {}
    /\ workerRow = [k \in WorkerKeys |-> [status |-> "none", fresh |-> FALSE,
                                          stoppedAt |-> FALSE]]
    /\ beatFaults = 0
-----------------------------------------------------------------------------
(* markStaleWorkers: the rows that claim to be active and are old.         *)
markStaleWorkers(rows) ==
    [k \in WorkerKeys |->
        IF rows[k].status = "ACTIVE" /\ ~rows[k].fresh
        THEN [rows[k] EXCEPT !.status = "STALE"] ELSE rows[k]]

Renewed == [status |-> "ACTIVE", fresh |-> TRUE, stoppedAt |-> FALSE]
Write(k, row) ==
    workerRow' = markStaleWorkers([workerRow EXCEPT ![k] = row])

registerWorker(p) ==
    /\ process[p] = "new"
    /\ process' = [process EXCEPT ![p] = "up"]
    /\ Write(workerKey[p], Renewed)
    /\ UNCHANGED <<workerKey, beating, beatFaults>>

(* onModuleInit's interval fires and the update is sent ...                *)
timerFires(p) ==
    /\ process[p] = "up"
    /\ p \notin beating
    /\ beating' = beating \cup {p}
    /\ UNCHANGED <<workerKey, process, workerRow, beatFaults>>

(* ... and arrives, also after the process began to stop.                  *)
heartbeat(p) ==
    /\ p \in beating
    /\ beating' = beating \ {p}
    /\ Write(workerKey[p], Renewed)
    /\ UNCHANGED <<workerKey, process, beatFaults>>

heartbeatFails(p) ==
    /\ p \in beating
    /\ beatFaults < MaxBeatFaults
    /\ beatFaults' = beatFaults + 1
    /\ beating' = beating \ {p}
    /\ UNCHANGED <<workerKey, process, workerRow>>

(* onModuleDestroy stops the timer and marks the row; an update that is on *)
(* its way is not waited for.                                              *)
onModuleDestroy(p) ==
    /\ process[p] = "up"
    /\ process' = [process EXCEPT ![p] = "stopping"]
    /\ UNCHANGED <<workerKey, beating, workerRow, beatFaults>>

markStopped(p) ==
    /\ process[p] = "stopping"
    /\ process' = [process EXCEPT ![p] = "gone"]
    /\ workerRow' = [workerRow EXCEPT ![workerKey[p]] =
                        [status |-> "STOPPED", fresh |-> TRUE,
                         stoppedAt |-> TRUE]]
    /\ UNCHANGED <<workerKey, beating, beatFaults>>

crash(p) ==
    /\ process[p] \in {"up", "stopping"}
    /\ process' = [process EXCEPT ![p] = "gone"]
    /\ UNCHANGED <<workerKey, beating, workerRow, beatFaults>>

(* The threshold passes without a heartbeat.                               *)
ages(k) ==
    /\ workerRow[k].fresh
    /\ workerRow' = [workerRow EXCEPT ![k].fresh = FALSE]
    /\ UNCHANGED <<workerKey, process, beating, beatFaults>>

WorkerNext ==
    \/ \E p \in Processes :
         \/ registerWorker(p) \/ timerFires(p) \/ heartbeat(p)
         \/ heartbeatFails(p) \/ onModuleDestroy(p) \/ markStopped(p)
         \/ crash(p)
    \/ \E k \in WorkerKeys : ages(k)

WorkerSpec == WorkerInit /\ [][WorkerNext]_workerVars
-----------------------------------------------------------------------------
(* Mutant: the page shows the status on the row, whatever its age.         *)
listed_row(k) ==
    IF workerRow[k].stoppedAt THEN "STOPPED" ELSE workerRow[k].status

(* SuperAdminService.listWorkers                                           *)
listed(k) ==
    CASE workerRow[k].stoppedAt -> "STOPPED"
      [] ~workerRow[k].stoppedAt /\ ~workerRow[k].fresh -> "STALE"
      [] OTHER -> workerRow[k].status

Serving(k) == {p \in Processes : workerKey[p] = k /\ process[p] = "up"}
Nobody(k) == \A p \in Processes : workerKey[p] = k => process[p] = "gone"

(* A key whose processes are all gone, crashed, stopped or stopped with a  *)
(* heartbeat on its way that revives the row, is in the end not listed as  *)
(* active any more.                                                        *)
GoneIsNotActive ==
    \A k \in WorkerKeys : Nobody(k) ~> [](listed(k) # "ACTIVE")

(* A process that runs is listed as active again and again, also when its  *)
(* row was marked stale, or stopped by another process of the same key.    *)
ServingIsListed ==
    \A k \in WorkerKeys :
        Serving(k) # {} ~> (listed(k) = "ACTIVE" \/ Serving(k) = {})

(* Nobody runs under the key and no heartbeat for it is on its way.        *)
Silent(k) == Nobody(k) /\ \A p \in beating : workerKey[p] # k

(* From then on no step lists the key as active again, whatever other      *)
(* workers do to their own rows and to the stale ones.                     *)
GoneStaysGone ==
    [][\A k \in WorkerKeys :
         Silent(k) => /\ Silent(k)'
                      /\ listed(k) # "ACTIVE" => listed(k)' # "ACTIVE"]_workerVars

(* Rows have their types, a worker that is gone does not come back, and    *)
(* the list of workers settles on the truth in both directions.            *)
ListIsTruthful ==
    []WorkerTypeOK /\ GoneStaysGone /\ GoneIsNotActive /\ ServingIsListed
=============================================================================
