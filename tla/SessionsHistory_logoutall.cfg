CONSTANTS
    Users = {u1}
    Families = {f1}
    Sids = {s1, s2, s3}
    Reqs = {r1, r2}
    TTL = 9
    AccessTtl = 2
    Grace = 3
    Lag = 1
    MaxTime = 4
    NoToken = NoToken
SPECIFICATION HistorySpec
INVARIANTS LogoutAllEndsEverySession
CHECK_DEADLOCK FALSE
