CONSTANTS
    acme = acme
    ACME = ACME
    nova = nova
    beta = beta
    none = none
    vcpu = vcpu
    ssd = ssd
    absent = absent
    nodoc = nodoc
    domA = domA
    domB = domB
    nodom = nodom
    Editors = {}
    NoName = none
    Resources = {vcpu, ssd}
    Currencies = {"UZS", "USD"}
    NoRate = absent
    SeedPrices <- MCSeedPrices
    SeedCurrency = "UZS"
    NoDomain = nodom
    NoDocument = nodoc
    Spellings <- MCSpellings
    Fold <- MCFold
    Collate <- MCCollate
    InitialNames <- Named
    Payloads <- NewPrices
    InitialLists <- DefaultList
    Requests = {q1, q2}
    Domains = {domA, domB}
    Months <- MCMonths
    YearOf <- OneYear
    NamesOf <- Respelled
    HeldShapes = {}
    Attempts = 2
    MaxChanges = 1
    InitialUsage <- BothMonths
    InitialProfiles <- AllComplete
    RequisiteEdits = {}
SPECIFICATION FairSpec
PROPERTIES Answered
CHECK_DEADLOCK FALSE
