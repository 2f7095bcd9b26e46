SPECIFICATION TenantSpec
CONSTANTS
    PlatformCalls = {p1}
    RegistryCalls = {}
    SaleCalls = {s1, s2}
    SettingsCalls = {u1}
    Currencies = {idr, usd}
    NoCurrency = NoCurrency
SYMMETRY Interchangeable
CHECK_DEADLOCK FALSE
INVARIANT CurrencyFixed
