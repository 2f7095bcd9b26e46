SPECIFICATION Spec
CONSTANTS
    o1 = o1
    o2 = o2
    d1 = d1
    d2 = d2
    NoPayment = NoPayment
    BusinessType = "CAFE"
    Orders <- TwoOrders
    Need <- NeedTwoOne
    Dispatchers <- OneDispatcher
    Total = 1
    InitialStock = 2
    MaxCrashes = 1
    MaxExpiries = 1
CHECK_DEADLOCK FALSE
INVARIANTS
    PaidIsFulfilled
