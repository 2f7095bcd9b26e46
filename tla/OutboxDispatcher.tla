-------------------------- MODULE OutboxDispatcher --------------------------
(***************************************************************************)
(* The transactional outbox.  Requests write rows with OutboxPublisher;    *)
(* a cron job runs OutboxDispatcherService.dispatchBatch every minute in   *)
(* every API process, and a run that takes longer than a minute overlaps   *)
(* the next.  A run reads up to Limit pending rows without claiming them,  *)
(* hands each to the in-process bus and marks it PROCESSED, or FAILED when *)
(* anything throws.  What the subscribers do is left open: they succeed or *)
(* one of them throws.                                                     *)
(***************************************************************************)
EXTENDS Naturals, FiniteSets

CONSTANTS
    Events,         \* ids of the outbox rows
    Dispatchers,    \* runs of dispatchBatch that can overlap
    Limit,          \* rows read by one run
    NoEvent,        \* "this run handles no row"
    MaxFaults       \* bound: faults of one dispatcher (crash, database error)

ASSUME OutboxConstants ==
    /\ Limit \in Nat \ {0}
    /\ MaxFaults \in Nat
    /\ NoEvent \notin Events
    /\ IsFiniteSet(Events)

VARIABLES
    row,        \* status of each row, "ABSENT" before it is written
    batch,      \* rows a run has read and not yet taken
    current,    \* row a run is handling
    phase,      \* where the run stands with it
    tries,      \* tries[d][e]: how often d handed e to the bus
    handled,    \* rows whose subscribers all returned at least once
    faults      \* faults[d]: how often d was interrupted

outboxVars == <<row, batch, current, phase, tries, handled, faults>>

Settled == {"PROCESSED", "FAILED"}

OutboxTypeOK ==
    /\ row \in [Events -> {"ABSENT", "PENDING"} \cup Settled]
    /\ batch \in [Dispatchers -> SUBSET Events]
    /\ current \in [Dispatchers -> Events \cup {NoEvent}]
    /\ phase \in [Dispatchers -> {"idle", "handlers", "ack", "fail"}]
    /\ tries \in [Dispatchers -> [Events -> Nat]]
    /\ handled \in SUBSET Events
    /\ faults \in [Dispatchers -> 0..MaxFaults]

OutboxInit ==
    /\ row = [e \in Events |-> "ABSENT"]
    /\ batch = [d \in Dispatchers |-> {}]
    /\ current = [d \in Dispatchers |-> NoEvent]
    /\ phase = [d \in Dispatchers |-> "idle"]
    /\ tries = [d \in Dispatchers |-> [e \in Events |-> 0]]
    /\ handled = {}
    /\ faults = [d \in Dispatchers |-> 0]
-----------------------------------------------------------------------------
publish(e) ==
    /\ row[e] = "ABSENT"
    /\ row' = [row EXCEPT ![e] = "PENDING"]
    /\ UNCHANGED <<batch, current, phase, tries, handled, faults>>

(* Mutant: the status of the rows is not part of the query.                *)
Pending_any == {e \in Events : row[e] # "ABSENT"}

Pending == {e \in Events : row[e] = "PENDING"}

(* Mutant: off by one in the number of rows read.                          *)
Batches_short == {b \in SUBSET Pending : b # {} /\ Cardinality(b) < Limit}

(* The query returns the oldest rows; which ones these are is left open,   *)
(* because rows of concurrent transactions become visible in any order.    *)
Batches ==
    {b \in SUBSET Pending :
        /\ b # {}
        /\ Cardinality(b) <= Limit
        /\ b = Pending \/ Cardinality(b) = Limit}

Fetch(d) ==
    /\ phase[d] = "idle"
    /\ batch[d] = {}
    /\ \E b \in Batches : batch' = [batch EXCEPT ![d] = b]
    /\ UNCHANGED <<row, current, phase, tries, handled, faults>>

Take(d, e) ==
    /\ phase[d] = "idle"
    /\ e \in batch[d]
    /\ batch' = [batch EXCEPT ![d] = @ \ {e}]
    /\ current' = [current EXCEPT ![d] = e]
    /\ phase' = [phase EXCEPT ![d] = "handlers"]
    /\ tries' = [tries EXCEPT ![d][e] = @ + 1]
    /\ UNCHANGED <<row, handled, faults>>

(* eventBus.publish awaits the subscribers one after the other.            *)
HandlersReturn(d) ==
    /\ phase[d] = "handlers"
    /\ handled' = handled \cup {current[d]}
    /\ phase' = [phase EXCEPT ![d] = "ack"]
    /\ UNCHANGED <<row, batch, current, tries, faults>>

HandlersThrow(d) ==
    /\ phase[d] = "handlers"
    /\ phase' = [phase EXCEPT ![d] = "fail"]
    /\ UNCHANGED <<row, batch, current, tries, handled, faults>>

Mark(d, mark) ==
    /\ row' = [row EXCEPT ![current[d]] = mark]
    /\ current' = [current EXCEPT ![d] = NoEvent]
    /\ phase' = [phase EXCEPT ![d] = "idle"]
    /\ UNCHANGED <<batch, tries, handled, faults>>

MarkProcessed(d) == phase[d] = "ack" /\ Mark(d, "PROCESSED")

MarkFailed(d) == phase[d] = "fail" /\ Mark(d, "FAILED")

Faulty(d) ==
    /\ faults[d] < MaxFaults
    /\ faults' = [faults EXCEPT ![d] = @ + 1]

(* The update to PROCESSED throws: caught like any other error.            *)
MarkProcessedThrows(d) ==
    /\ Faulty(d)
    /\ phase[d] = "ack"
    /\ phase' = [phase EXCEPT ![d] = "fail"]
    /\ UNCHANGED <<row, batch, current, tries, handled>>

(* The process dies, or the update to FAILED throws out of dispatchBatch:  *)
(* the run ends and its rows keep the status they have.                    *)
Abort(d) ==
    /\ Faulty(d)
    /\ phase[d] # "idle" \/ batch[d] # {}
    /\ batch' = [batch EXCEPT ![d] = {}]
    /\ current' = [current EXCEPT ![d] = NoEvent]
    /\ phase' = [phase EXCEPT ![d] = "idle"]
    /\ UNCHANGED <<row, tries, handled>>
-----------------------------------------------------------------------------
Run(d) ==
    \/ Fetch(d)
    \/ \E e \in Events : Take(d, e)
    \/ HandlersReturn(d)
    \/ HandlersThrow(d)
    \/ MarkProcessed(d)
    \/ MarkFailed(d)

OutboxNext ==
    \/ \E e \in Events : publish(e)
    \/ \E d \in Dispatchers : Run(d) \/ MarkProcessedThrows(d) \/ Abort(d)

OutboxSpec == OutboxInit /\ [][OutboxNext]_outboxVars

-----------------------------------------------------------------------------
(***************************************************************************)
(* A row is marked PROCESSED only after all its subscribers returned, in   *)
(* some run: no event is dropped silently.                                 *)
(***************************************************************************)
ProcessedWasHandled ==
    \A e \in Events : row[e] = "PROCESSED" => e \in handled

(***************************************************************************)
(* Redelivery is bounded although rows are not claimed: one dispatcher     *)
(* hands a row to the bus again only after a fault of its own.             *)
(***************************************************************************)
RedeliveryNeedsFault ==
    \A d \in Dispatchers, e \in Events : tries[d][e] <= 1 + faults[d]

(***************************************************************************)
(* Both of them: nothing is dropped and redelivery is bounded.             *)
(***************************************************************************)
DeliveryIsSound == ProcessedWasHandled /\ RedeliveryNeedsFault

(***************************************************************************)
(* A settled row is never picked up as new work again, in particular by a  *)
(* run that read it before it was settled.                                 *)
(***************************************************************************)
SettledForGood ==
    [][\A e \in Events : row[e] \in Settled => row'[e] \in Settled]_outboxVars

(***************************************************************************)
(* Every row that is written is eventually marked.                         *)
(***************************************************************************)
EventuallySettled ==
    \A e \in Events : row[e] = "PENDING" ~> row[e] \in Settled
=============================================================================
