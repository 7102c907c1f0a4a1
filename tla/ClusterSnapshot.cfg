CONSTANTS
    r1 = r1
    r2 = r2
    acme = acme
    nova = nova
    main = main
    late = late
    m1 = m1
    d1 = d1
    unknown = unknown
    pending = pending
    nothing = nothing
    Workers = {r1, r2}
    Accounts = {acme, nova}
    Projects = {main, late}
    Rows = {m1, d1}
    Sources = {"vms", "volumes"}
    Vital = "vms"
    Place <- Order
    AccountOf <- Owners
    ProjectOf <- Homes
    SourceOf <- Kinds
    Rows0 = {m1}
    Projects0 = {main}
    Installed <- Hardware
    Unknown = unknown
    Pending = pending
    Nothing = nothing
    TTL = 1
    FallbackTTL = 2
    DirectoryTTL = 2
    MaxChanges = 1
    MaxRefusals = 1
    MaxTime = 2
SPECIFICATION Spec
CHECK_DEADLOCK FALSE
INVARIANTS FiguresTell NoGoingBack OutageTells
SYMMETRY Alike
