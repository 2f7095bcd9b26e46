SPECIFICATION Spec
CONSTANTS
    o1 = o1
    o2 = o2
    d1 = d1
    d2 = d2
    NoPayment = NoPayment
    BusinessType = "RETAIL"
    Orders <- OneOrder
    Need <- NeedTwo
    Dispatchers <- OneDispatcher
    Total = 1
    InitialStock = 4
    MaxCrashes = 0
    MaxExpiries = 0
CHECK_DEADLOCK FALSE
INVARIANT
    CancelledHoldsNoStock
