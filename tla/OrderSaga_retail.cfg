SPECIFICATION Spec
CONSTANTS
    o1 = o1
    o2 = o2
    d1 = d1
    d2 = d2
    NoPayment = NoPayment
    BusinessType = "RETAIL"
    Orders <- OneOrder
    Need <- NeedTwo
    Dispatchers <- TwoDispatchers
    Total = 2
    InitialStock = 4
    MaxCrashes = 2
    MaxExpiries = 1
CHECK_DEADLOCK FALSE
INVARIANTS
    TypeOK
    StockConserved
    OneLiveReservation
    FulfilledOnlyWhenPaid
    PaidIsFulfilled
    DeductedOnceUnlessExpired
PROPERTY
    FollowsLifecycle
