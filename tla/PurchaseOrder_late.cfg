SPECIFICATION PurchaseSpec
CONSTANTS
    c1 = c1
    c2 = c2
    e1 = e1
    e2 = e2
    i1 = i1
    i2 = i2
    w1 = w1
    w2 = w2
    k1 = k1
    k2 = k2
    NoWarehouse = NoWarehouse
    NoReceipt = NoReceipt
    NoOrder = NoOrder
    NoItems = NoItems
    Calls <- TwoCalls
    Edits <- TwoEdits
    Items <- TwoItems
    Bodies <- TwoBodies
    Warehouses <- TwoWarehouses
    ReceiptKeys <- TwoKeys
    MaxUnits = 2
SYMMETRY Symmetries
CHECK_DEADLOCK FALSE
INVARIANTS
    ReceiptsAgree
    StatusMatchesReceipts
PROPERTIES
    ReceivedIsFixed
