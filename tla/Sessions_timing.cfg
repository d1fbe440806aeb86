CONSTANTS
    Users = {u1}
    Families = {f1}
    Sids = {s1, s2}
    Reqs = {r1, r2}
    TTL = 6
    AccessTtl = 6
    Grace = 3
    Lag = 1
    MaxTime = 5
    NoToken = NoToken
SPECIFICATION FairSpec
PROPERTIES SimultaneousRefreshIsNotTheft RequestsAreAnswered
CHECK_DEADLOCK FALSE
