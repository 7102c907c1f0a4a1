CONSTANTS
    acme = acme
    ACME = ACME
    nova = nova
    beta = beta
    none = none
    vcpu = vcpu
    ssd = ssd
    absent = absent
    nodoc = nodoc
    domA = domA
    domB = domB
    nodom = nodom
    Editors = {e1}
    NoName = none
    Resources = {vcpu, ssd}
    Currencies = {"UZS", "USD"}
    NoRate = absent
    SeedPrices <- MCSeedPrices
    SeedCurrency = "UZS"
    NoDomain = nodom
    NoDocument = nodoc
    Spellings <- TwoSpellings
    Fold <- FoldOfTwo
    Collate <- CollateTwo
    InitialNames <- NamedOnly
    Payloads <- AnyPrices
    InitialLists <- OneOrTwins
    Requests = {q1}
    Domains = {domA}
    Months <- MCMonths
    YearOf <- MCYearOf
    NamesOf <- RenamedOnly
    HeldShapes <- AnyHeld
    Attempts = 2
    MaxChanges = 2
    InitialUsage <- FirstMonth
    InitialProfiles <- AllComplete
    RequisiteEdits = {"blank", "complete"}
SPECIFICATION Spec
INVARIANTS TypeOK IncompleteOnlyIfDisturbed
CHECK_DEADLOCK FALSE
