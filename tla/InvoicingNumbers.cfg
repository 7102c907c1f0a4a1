CONSTANTS
    acme = acme
    ACME = ACME
    nova = nova
    beta = beta
    none = none
    vcpu = vcpu
    ssd = ssd
    absent = absent
    nodoc = nodoc
    domA = domA
    domB = domB
    nodom = nodom
    Editors = {}
    NoName = none
    Resources = {vcpu, ssd}
    Currencies = {"UZS", "USD"}
    NoRate = absent
    SeedPrices <- MCSeedPrices
    SeedCurrency = "UZS"
    NoDomain = nodom
    NoDocument = nodoc
    Spellings <- ThreeSpellings
    Fold <- FoldOfThree
    Collate <- CollateThree
    InitialNames <- Named
    Payloads <- NewPrices
    InitialLists <- DefaultList
    Requests = {q1, q2, q3}
    Domains = {domA, domB}
    Months <- OneMonth
    YearOf <- YearOfOne
    NamesOf <- Respelled
    HeldShapes = {}
    Attempts = 2
    MaxChanges = 1
    InitialUsage <- OnlyMonth
    InitialProfiles <- AllComplete
    RequisiteEdits = {}
SPECIFICATION Spec
INVARIANTS NumbersInOrder ReissueReturnsOriginal ClashMeansCrowd
PROPERTIES KeepsTheRegister
SYMMETRY Interchangeable
CHECK_DEADLOCK FALSE
