CONSTANTS
    r1 = r1
    r2 = r2
    w1 = w1
    w2 = w2
    mine = mine
    hers = hers
    Readers = {r1, r2}
    Writers = {w1, w2}
    Tokens = {mine, hers}
    TokenOf <- WithColleague
    TTL = 1
    Lag = 1
    MaxTime = 3
    MaxCrashes = 1
SPECIFICATION Spec
CHECK_DEADLOCK FALSE
INVARIANTS CacheTypeOK StaleWithinTTL FreshUnlessRegressed
SYMMETRY SameTabs
