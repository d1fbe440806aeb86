CONSTANTS
    Users = {u1}
    Registered = {u1}
    Emails = {e1}
    Passwords = {p1, p2}
    Sids = {s1}
    Reqs = {r1, r2, r3}
    MaxFailed = 2
    LockTime = 1
    OldHashes = TRUE
    MaxLost = 1
    MaxTime = 1
SPECIFICATION Spec
SYMMETRY Symmetry
INVARIANTS TypeOK FailuresLeadToALock LockAdmitsNoAttempt
PROPERTIES LocksYieldToOlderLogins
CHECK_DEADLOCK FALSE
