SPECIFICATION LedgersSpec
CONSTANTS
    a1 = a1
    a2 = a2
    b1 = b1
    b2 = b2
    i1 = i1
    i2 = i2
    x = x
    NoTransfer = NoTransfer
    NoReceipt = NoReceipt
    Calls <- ThreeCalls
    Keys <- Two
    Requests <- TwoRequests
    ReceiptKeys <- ThreeKeys
    Items <- Two
    InitialStock <- Stock
    MaxUnits = 3
    KitchenCalls <- ThreeCalls
    Tickets <- One
    Listeners <- PairA
    MaxAttempts = 3
    MaxRestarts = 1
    MaxDbFaults = 1
    Admins <- ThreeCalls
    SettingValues <- PairB
    defaultValue = defaultValue
    MaxVersion = 3
    Writers <- ThreeCalls
    Stored <- PairB
    Name = Name
    Sockets <- TwoSockets
    Tenant = i1
    NoOutlet = NoOutlet
    MaxDeliveries = 2
    Buyers <- One
    Costs = {1, 3}
    Opening <- OneUnit
    Amounts = {1, 2}
    Lots = {1}
    Deltas <- UpOrDown
    MaxAdjustments = 2
    UnitCosts <- PairB
    UnknownCost = UnknownCost
    UnitsBefore = {0, 1}
    UnitsMoved = {1, 2}
    UnitsEdited <- UpOrDown
    MaxMovements = 4
    MaxUnwritten = 1
SYMMETRY Pairs
CHECK_DEADLOCK FALSE
INVARIANTS
    CreateIsIdempotent
    StockConserved
    TransferBooksAgree
    HistoryIsReliable
    CatalogueIsKept
    FanoutIsSound
    CostingIsSound
    ValueConserved
    ReplayIsFaithful
PROPERTIES
    MovesAreLegal
    SettingIsKept
