SPECIFICATION OfficeSpec
CONSTANTS
    a1 = a1
    a2 = a2
    b1 = b1
    b2 = b2
    i1 = i1
    i2 = i2
    t1 = t1
    t2 = t2
    PlatformCalls <- PairA
    RegistryCalls = {g1}
    SaleCalls <- PairB
    SettingsCalls = {s1}
    Currencies <- Two
    NoCurrency = NoCurrency
    Users <- PairA
    Invitations <- OneInvitation
    Roles <- Two
    SystemRoles <- SystemRole
    Permissions <- UserManage
    Manage <- UserManage
    Flows <- ThreeFlows
    Tabs <- TwoTabs
    Outlets <- PairB
    NoFlow = NoFlow
    NoOutlet = NoOutlet
    MaxChanges = 1
    MaxCut = 1
    SubCalls <- ThreeFlows
    Plans <- Two
    Price <- TwoPrices
    NoPlan = NoPlan
    MaxMonth = 2
    Invoices <- Months
    Bodies <- PairB
    NoBody = NoBody
    NoKey = NoKey
    MaxKeys = 3
    MaxSends = 4
    MaxStorageFaults = 1
    MaxChangesSeen = 2
    MaxScopes = 3
SYMMETRY Pairs
CHECK_DEADLOCK FALSE
INVARIANTS
    TenantRowIsSound
    SaleKeepsCurrency
    RetriesAreSafe
    OwnChangeShown
    RowsOfSession
    OfferedIsAllowed
PROPERTIES
    StaffIsKept
    SessionsAreSound
    SubscriptionIsSound
