SPECIFICATION FairSpec
CONSTANTS
    o1 = o1
    o2 = o2
    d1 = d1
    d2 = d2
    NoPayment = NoPayment
    BusinessType = "RETAIL"
    Orders <- TwoOrders
    Need <- NeedTwoOne
    Dispatchers <- TwoDispatchers
    Total = 1
    InitialStock = 3
    MaxCrashes = 0
    MaxExpiries = 0
CHECK_DEADLOCK FALSE
PROPERTY
    PaidOrderProceeds
