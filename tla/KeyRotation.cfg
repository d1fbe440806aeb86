CONSTANTS
    KeyBytes = {k1, k2, k3}
    NoKey = NoKey
    Precise = 2
    Exponential = 4
    DecryptionError = DecryptionError
    OldKey = k1
    NewKey = k2
    Ids = {1, 2}
    Fields = {email, name}
    Email = email
    Emails = {e1, e2}
    Names = {n1}
    Reqs = {r1}
    Batch = 1
    Deletions = TRUE
    Drained = FALSE
SPECIFICATION FairSpec
INVARIANTS TypeOK DataIsTheOwners ServingRevisionsRead RunReachesEveryRow
INVARIANTS EnvIsReadAsWritten PayloadsOpenWithTheirKey
PROPERTIES ScriptEnds
CHECK_DEADLOCK FALSE
