------------------------- MODULE MCPasswordService -------------------------
EXTENDS PasswordService, TLC

Owasp == [memory |-> 3, passes |-> 2, parallelism |-> 1]

\* Each parameter below, at and above its limits, and lanes short of memory.
Hashes == [memory : {0, 2, 3, 4, 5}, passes : 0 .. 3, parallelism : 0 .. 2, whole : BOOLEAN]
=============================================================================
