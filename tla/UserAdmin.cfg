CONSTANTS
    first = first
    second = second
    third = third
    acme = acme
    other = other
    ann = ann
    bob = bob
    cyd = cyd
    nothing = nothing
    never = never
    Requests = {first, second, third}
    Bodies <- BodiesOf
    Accounts = {acme, other}
    Users = {ann, bob, cyd}
    HomeOf <- Homes
    Admin = ann
    Cloud0 <- CloudAtFirst
    Rows0 <- RowsAtFirst
    Nothing = nothing
    Never = never
    TTL = 1
    Lag = 1
    MaxTime = 3
SPECIFICATION Spec
CHECK_DEADLOCK FALSE
INVARIANTS TrailsTell ListTells RowsFollow
