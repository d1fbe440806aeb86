------------------------------ MODULE Keyring ------------------------------
(***************************************************************************)
(* The keys the process reads from its environment (config/env.ts) and     *)
(* what EncryptionService does with them, as operators.                    *)
(*                                                                         *)
(* A key is a value.  AES-GCM is ideal: a payload opens with the key and   *)
(* under the context it was made with, and with no other.  The HMAC of the *)
(* blind index is ideal too, so the index of a value is the value.         *)
(***************************************************************************)
EXTENDS Naturals, SequencesExt

CONSTANTS
    KeyBytes,     \* keys of 32 bytes
    NoKey,        \* what decodeKey makes of anything else: undefined
    Precise,      \* up to here every whole number is a Number (2^53)
    Exponential,  \* the first Number that prints with an exponent (10^21)
    DecryptionError

ASSUME KeyringAssumption ==
    /\ NoKey \notin KeyBytes
    /\ Precise \in Nat \ {0, 1}
    /\ Exponential \in Nat
    /\ Precise < Exponential

-----------------------------------------------------------------------------
(* config/env.ts *)

\* An entry of the text: `version` is the whole number that its digits write,
\* of any length, or this when the entry does not match ^([1-9]\d*):(.+)$
NoVersion == 0

\* Number(digits).  Beyond Precise only some whole numbers are a Number, and
\* those in between become a neighbour: here, the even one below.
Number(n) == IF n <= Precise THEN n ELSE n - (n % 2)

Matches(entry) == entry.version # NoVersion /\ entry.key # NoKey

\* keys.set
Set(keys, version, key) ==
    [v \in DOMAIN keys \cup {version} |-> IF v = version THEN key ELSE keys[v]]

\* Mutant of AddKey: keys.has(match[1]), which a key that is a number never is;
\* a version that comes again replaces the first.
AddKeyAgain(ring, entry) ==
    IF ring.ok /\ Matches(entry)
      THEN [ok |-> TRUE, keys |-> Set(ring.keys, Number(entry.version), entry.key)]
      ELSE [ring EXCEPT !.ok = FALSE]

\* A turn of the loop: an entry that does not match, or whose version is there
\* already once it is a Number, spoils the whole value.
AddKey(ring, entry) ==
    IF ring.ok /\ Matches(entry) /\ Number(entry.version) \notin DOMAIN ring.keys
      THEN [ok |-> TRUE, keys |-> Set(ring.keys, Number(entry.version), entry.key)]
      ELSE [ring EXCEPT !.ok = FALSE]

VersionedKeys(entries) ==
    FoldLeft(AddKey, [ok |-> TRUE, keys |-> [v \in {} |-> NoKey]], entries)

\* The refinement of the schema: as many different keys as there are keys.
Distinct(keys, blindIndexKey, jwtSecret) ==
    Cardinality({keys[v] : v \in DOMAIN keys} \cup {blindIndexKey, jwtSecret})
        = Cardinality(DOMAIN keys) + 2

IsValidEnv(entries, blindIndexKey, jwtSecret) ==
    LET ring == VersionedKeys(entries) IN
    /\ ring.ok
    /\ blindIndexKey # NoKey
    /\ jwtSecret # NoKey
    /\ Distinct(ring.keys, blindIndexKey, jwtSecret)

-----------------------------------------------------------------------------
(* EncryptionService, over the keys the environment gave it. *)

\* Mutant of CurrentVersion: Math.min.
OldestVersion(keys) == CHOOSE v \in DOMAIN keys : \A w \in DOMAIN keys : v <= w
CurrentVersion(keys) == CHOOSE v \in DOMAIN keys : \A w \in DOMAIN keys : v >= w

\* `v${version}`, as parse reads it: a number with an exponent is none.
Printed(version) == IF version < Exponential THEN version ELSE NoVersion

Encrypt(keys, plain, context) ==
    [version |-> Printed(CurrentVersion(keys)),
     key |-> keys[CurrentVersion(keys)], context |-> context, plain |-> plain]

\* Mutant of Decrypt: the context is not authenticated.
DecryptAnywhere(keys, payload, context) ==
    IF payload.version \in DOMAIN keys /\ payload.key = keys[payload.version]
      THEN payload.plain
      ELSE DecryptionError
Decrypt(keys, payload, context) ==
    IF /\ payload.version \in DOMAIN keys
       /\ payload.key = keys[payload.version]
       /\ payload.context = context
      THEN payload.plain
      ELSE DecryptionError

\* Asked of what Encrypt has made with a version that prints as digits: of
\* anything else parse throws, here as in Decrypt.
NeedsReencryption(keys, payload) == payload.version # CurrentVersion(keys)

Reencrypt(keys, payload, context) ==
    Encrypt(keys, Decrypt(keys, payload, context), context)

-----------------------------------------------------------------------------
(* Properties *)

\* The process starts exactly with entries that are all well formed, whose
\* versions all differ as Numbers, and whose keys differ from one another and
\* from the two other keys; and it then has each key under its own version, none
\* lost to a version that another text rounds to.  `Texts` are values of
\* ENCRYPTION_KEYS, as sequences of entries.
KeysAreReadAsWritten(Texts) ==
    \A entries \in Texts, blind, jwt \in KeyBytes \cup {NoKey} :
        LET ring == VersionedKeys(entries) IN
        /\ IsValidEnv(entries, blind, jwt) <=>
              /\ NoKey \notin {blind, jwt}
              /\ blind # jwt
              /\ \A i \in DOMAIN entries :
                    /\ entries[i].version # NoVersion
                    /\ entries[i].key \notin {NoKey, blind, jwt}
                    /\ \A j \in DOMAIN entries \ {i} :
                          /\ Number(entries[j].version) # Number(entries[i].version)
                          /\ entries[j].key # entries[i].key
        /\ ring.ok =>
              /\ DOMAIN ring.keys = {Number(entries[i].version) : i \in DOMAIN entries}
              /\ \A i \in DOMAIN entries :
                    ring.keys[Number(entries[i].version)] = entries[i].key

\* A value opens exactly under the keyrings that still have the key it was
\* made with under its version, and in the column it was made for; and what
\* needs to be re-encrypted opens afterwards with the newest key alone, and
\* needs it no more.  Versions from Exponential on are the exception: what is
\* made with them never opens.
ValuesOpenWithTheirKey(Rings, Contexts, Plains) ==
    \A made, read \in Rings, in, as \in Contexts, plain \in Plains :
        LET version == CurrentVersion(made)
            payload == Encrypt(made, plain, in)
            opened == Decrypt(read, payload, as)
            again == Reencrypt(read, payload, as)
            newest == CurrentVersion(read) IN
        /\ opened \in {plain, DecryptionError}
        /\ opened = plain <=> /\ version \in DOMAIN read
                              /\ read[version] = made[version]
                              /\ in = as
                              /\ version < Exponential
        /\ opened = plain /\ newest < Exponential =>
              /\ Decrypt([v \in {newest} |-> read[v]], again, as) = plain
              /\ ~ NeedsReencryption(read, again)
=====
