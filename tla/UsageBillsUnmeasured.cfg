CONSTANTS
    c1 = c1
    c2 = c2
    acme = acme
    nova = nova
    nodomain = nodomain
    main = main
    lab = lab
    noitem = noitem
    vm = vm
    disk = disk
    copy = copy
    norow = norow
    Passes = {c1, c2}
    Domains = {acme, nova}
    NoDomain = nodomain
    Projects = {main, lab}
    DomainOf <- Owners
    Items = {vm, disk, copy}
    Items0 = {vm, copy}
    ListOf <- Kinds
    Backups = {copy}
    ProjectOf <- Homes
    NoRow = norow
    MaxRefusals = 1
    Fleeting = {disk}
    MaxDay = 2
    SizeOf <- Sizes
    RamOf <- Memory
    Running = {vm}
    MediaOf <- Media
    PriceOf <- Prices
    VatPercent = 12
    PricesInclude = TRUE
    OnItem <- On
    NoItem = noitem
SPECIFICATION Spec
CHECK_DEADLOCK FALSE
INVARIANT UnmeasuredOwesNothing
SYMMETRY Alike
