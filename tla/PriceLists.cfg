CONSTANTS
    acme = acme
    ACME = ACME
    beta = beta
    none = none
    vcpu = vcpu
    ssd = ssd
    absent = absent
    Editors = {e1, e2}
    Spellings <- MCSpellings
    NoName = none
    Fold <- MCFold
    Collate <- MCCollate
    Resources = {vcpu, ssd}
    Currencies = {"UZS", "USD"}
    NoRate = absent
    Payloads <- MCPayloads
    SeedPrices <- MCSeedPrices
    SeedCurrency = "UZS"
    InitialLists <- AllTables
SPECIFICATION PriceSpec
CHECK_DEADLOCK FALSE
INVARIANTS PriceTypeOK LastPutDecides OverviewPricesAlike
PROPERTIES EditsStayHome
