----------------------------- MODULE MCServices -----------------------------
(***************************************************************************)
(* The services whose requests and jobs have to come to an end, checked    *)
(* with liveness.  They share no state here: a behaviour is one of one     *)
(* component, the component in focus, while the others rest in one of      *)
(* their initial states.                                                   *)
(***************************************************************************)
EXTENDS OutboxDispatcher, PaymentRequests, FeatureFlags,
        WorkerRegistry, TLC

CONSTANTS c1, c2, c3, d1, d2, e1, e2, i1, k1, k2

(* More rows than a batch of the dispatcher holds.                         *)
TwoEvents == {e1, e2}
TwoDispatchers == {d1, d2}

(* Three calls, so that two can race and a third comes late.               *)
ThreeCalls == {c1, c2, c3}
TwoCalls == {c1, c2}
TwoKeys == {k1, k2}
OneInvoice == {i1}
-----------------------------------------------------------------------------
VARIABLE focus

Resting(f) ==
    /\ f # "outbox" => UNCHANGED outboxVars
    /\ f # "payment" => UNCHANGED paymentVars
    /\ f # "flag" => UNCHANGED flagVars
    /\ f # "worker" => UNCHANGED workerVars
serviceVars ==
    <<focus, outboxVars, paymentVars, flagVars, workerVars>>

(* What a component chooses at the start is fixed while it rests.          *)
ServicesInit ==
    /\ focus \in {"outbox", "payment", "flag", "worker"}
    /\ OutboxInit /\ PaymentInit /\ FlagInit /\ WorkerInit
    /\ focus # "flag" =>
         flag = Missing /\ \A c \in FlagCalls : flagOp[c] = "create"
    /\ focus # "worker" => \A p \in Processes : workerKey[p] = k1

In(f, A) == focus = f /\ A /\ Resting(f) /\ UNCHANGED focus

ServicesNext ==
    \/ In("outbox", OutboxNext) \/ In("payment", PaymentNext)
    \/ In("flag", FlagNext) \/ In("worker", WorkerNext)

(* The fairness of each component, of the steps it takes in focus.         *)
ServicesFairness ==
    /\ \A d \in Dispatchers : WF_serviceVars(In("outbox", Run(d)))
    /\ \A c \in PayCalls : WF_serviceVars(In("payment", webhook(c)))
    /\ \A c \in FlagCalls : WF_serviceVars(In("flag", FlagCallStep(c)))
    /\ \A e \in Evaluators : WF_serviceVars(In("flag", cacheResult(e)))
    /\ WF_serviceVars(In("flag", cacheExpires))
    /\ \A p \in Processes : /\ WF_serviceVars(In("worker", timerFires(p)))
                            /\ WF_serviceVars(In("worker", heartbeat(p)))
    /\ \A k \in WorkerKeys : WF_serviceVars(In("worker", ages(k)))

ServicesSpec ==
    ServicesInit /\ [][ServicesNext]_serviceVars /\ ServicesFairness
=============================================================================
