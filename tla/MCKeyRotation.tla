--------------------------- MODULE MCKeyRotation ---------------------------
EXTENDS KeyRotation

\* Texts of ENCRYPTION_KEYS and the keyrings they come to.  With Precise = 2 and
\* Exponential = 4 the digits of 3 are a second text of the Number 2, and 4 is
\* the version that prints with an exponent.
Entries == [version : {NoVersion} \cup 1 .. 4, key : KeyBytes \cup {NoKey}]
Texts == BoundedSeq(Entries, 3) \ {<<>>}
Rings == {VersionedKeys(t).keys : t \in {u \in Texts : VersionedKeys(u).ok}}

\* What env.ts makes of every text.  The operators have no state: both of these
\* are evaluated once, in the initial one.
EnvIsReadAsWritten == Init => KeysAreReadAsWritten(Texts)

\* What any two deployments make of each other's values.
PayloadsOpenWithTheirKey == Init => ValuesOpenWithTheirKey(Rings, Fields, Emails)
=============================================================================
