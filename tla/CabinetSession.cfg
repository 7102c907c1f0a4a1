CONSTANTS
    q1 = q1
    q2 = q2
    q3 = q3
    alice = alice
    bob = bob
    nobody = nobody
    main = main
    lab = lab
    noproject = noproject
    k1 = k1
    k2 = k2
    k3 = k3
    nokey = nokey
    absent = absent
    Requests = {q1, q2, q3}
    Users = {alice, bob}
    Nobody = nobody
    Projects = {main, lab}
    NoProject = noproject
    MemberOf <- Members
    RoleIn <- BothRoles
    Keys = {k1, k2, k3}
    NoKey = nokey
    Absent = absent
    TTL = 1
    Lag = 1
    MaxTime = 1
SPECIFICATION Spec
CHECK_DEADLOCK FALSE
INVARIANTS SessionTypeOK OwnToken TokenCoversSession ScopeAgrees RoleAgrees PageUndivided
    SignInLeavesToken
PROPERTIES SignedOutForGood
SYMMETRY Alike
