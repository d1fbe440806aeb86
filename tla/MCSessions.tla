----------------------------- MODULE MCSessions -----------------------------
EXTENDS Sessions, TLC

\* Ids of requests, users, families and sessions are only compared.
Symmetry ==
    Permutations(Users) \cup Permutations(Families)
        \cup Permutations(Sids) \cup Permutations(Reqs)
=============================================================================
