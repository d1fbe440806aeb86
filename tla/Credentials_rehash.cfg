CONSTANTS
    Users = {u1}
    Registered = {u1}
    Emails = {e1}
    Passwords = {p1, p2}
    Sids = {s1, s2}
    Reqs = {r1, r2}
    MaxFailed = 2
    LockTime = 2
    OldHashes = TRUE
    MaxLost = 1
    MaxTime = 0
SPECIFICATION Spec
SYMMETRY Symmetry
INVARIANTS PasswordIsTheChosenOne
CHECK_DEADLOCK FALSE
