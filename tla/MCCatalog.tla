----------------------------- MODULE MCCatalog -----------------------------
EXTENDS Catalog, TLC

\* The email of the script is told apart from the others.
Symmetry == Permutations(Users) \cup Permutations(Emails \ {SeedEmail})
                \cup Permutations(Names) \cup Permutations(Reqs)
=============================================================================
