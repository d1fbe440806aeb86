--------------------------- MODULE MCCredentials ---------------------------
EXTENDS Credentials, TLC

\* Accounts registered at the start are told apart from the others.
Symmetry ==
    Permutations(Registered) \cup Permutations(Users \ Registered)
        \cup Permutations(Emails) \cup Permutations(Passwords)
        \cup Permutations(Sids) \cup Permutations(Reqs)
=============================================================================
