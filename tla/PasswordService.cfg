CONSTANTS
    Reqs = {r1, r2}
    Params <- Owasp
    MaxMemory = 4
    LaneMemory = 2
    StoredHashes <- Hashes
    NotPhc = NotPhc
    MaxFailures = 2
SPECIFICATION FairSpec
INVARIANTS TypeOK RefusalsCostTheSame ErrorsAreFailures AcceptedHashesAreStrong
PROPERTIES LoginsAreAnswered
