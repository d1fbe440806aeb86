CONSTANTS
    Users = {u1, u2}
    Registered = {u1}
    Emails = {e1, e2}
    Passwords = {p1, p2}
    Sids = {s1, s2}
    Reqs = {r1, r2}
    MaxFailed = 1
    LockTime = 2
    OldHashes = TRUE
    MaxLost = 0
    MaxTime = 0
SPECIFICATION Spec
SYMMETRY Symmetry
INVARIANTS StaleSessionsAreExplained
PROPERTIES ChangesNeedThePassword
CHECK_DEADLOCK FALSE
