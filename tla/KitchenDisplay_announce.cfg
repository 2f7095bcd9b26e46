SPECIFICATION KitchenSpec
CONSTANTS
    c1 = c1
    c2 = c2
    c3 = c3
    t1 = t1
    KitchenCalls <- ThreeCalls
    Tickets <- OneTicket
CHECK_DEADLOCK FALSE
INVARIANT
    MovedIsAnnounced
