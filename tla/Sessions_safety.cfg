CONSTANTS
    Users = {u1, u2}
    Families = {f1, f2}
    Sids = {s1, s2, s3}
    Reqs = {r1, r2}
    TTL = 2
    AccessTtl = 1
    Grace = 1
    Lag = 9
    MaxTime = 2
    NoToken = NoToken
SPECIFICATION Spec
SYMMETRY Symmetry
INVARIANTS TypeOK SingleHolder SessionsHaveUsers
PROPERTIES DeadFamiliesStayDead ExpiredFamiliesStayExpired RevocationIsFinal ImplementsLineage
CHECK_DEADLOCK FALSE
