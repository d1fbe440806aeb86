CONSTANTS
    KeyBytes = {k1, k2}
    NoKey = NoKey
    Precise = 2
    Exponential = 4
    DecryptionError = DecryptionError
    OldKey = k1
    NewKey = k2
    Ids = {1, 2}
    Fields = {email}
    Email = email
    Emails = {e1, e2, e3}
    Names = {n1}
    Reqs = {r1}
    Batch = 2
    Deletions = FALSE
    Drained = TRUE
SPECIFICATION Spec
INVARIANTS EmailMatchesItsIndex
CHECK_DEADLOCK FALSE
