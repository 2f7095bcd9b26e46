SPECIFICATION ServicesSpec
CONSTANTS
    c1 = c1
    c2 = c2
    c3 = c3
    d1 = d1
    d2 = d2
    e1 = e1
    e2 = e2
    i1 = i1
    k1 = k1
    k2 = k2
    NoEvent = NoEvent
    Events <- TwoEvents
    Dispatchers <- TwoDispatchers
    Limit = 1
    MaxFaults = 1
    NoRequest = NoRequest
    PayCalls <- ThreeCalls
    Invoices <- OneInvoice
    NoFlag = NoFlag
    FirstFlag = FirstFlag
    FlagCalls <- TwoCalls
    Evaluators = {v1}
    MaxFlagFaults = 1
    Processes <- TwoDispatchers
    WorkerKeys <- TwoKeys
    MaxBeatFaults = 1
CHECK_DEADLOCK FALSE
INVARIANTS
    DeliveryIsSound
    PaymentsAreSound
PROPERTIES
    EventuallySettled
    LifecycleSpec
    CapturedIsPaid
    CacheSettles
    FlagIsKept
    ListIsTruthful
