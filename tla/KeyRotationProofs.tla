------------------------- MODULE KeyRotationProofs -------------------------
(***************************************************************************)
(* Proofs about KeyRotation: what the rotation of the key does to the data *)
(* of the accounts, for any number of rows, columns, requests and rows per *)
(* page.                                                                   *)
(***************************************************************************)
EXTENDS MCKeyRotation, SumProofs, FiniteSetTheorems, SequenceTheorems, WellFoundedInduction, TLAPS

\* A set of natural numbers has a least one.
LEMMA Least ==
    ASSUME NEW S \in SUBSET Nat, S # {}
    PROVE  \E m \in S : \A n \in S : m <= n
<1> DEFINE R == {ss \in Nat \X Nat : ss[1] < ss[2]}
<1>1. IsWellFoundedOn(R, Nat)
  BY NatLessThanWellFounded DEF OpToRel
<1> HIDE DEF R
<1>2. PICK m \in S : \A n \in S : <<n, m>> \notin R
  BY <1>1, WFMin
<1>3. \A n \in S : ~ (n < m)
  <2> SUFFICES ASSUME NEW n \in S, n < m PROVE <<n, m>> \in R
    BY <1>2
  <2>1. <<n, m>> \in Nat \X Nat
    OBVIOUS
  <2> QED
    BY <2>1 DEF R
<1> QED
  BY <1>3

\* And a finite one a greatest.
LEMMA Greatest ==
    ASSUME NEW S \in SUBSET Nat, S # {}, IsFiniteSet(S)
    PROVE  \E m \in S : \A n \in S : m >= n
<1> DEFINE Without(n) == \E T \in SUBSET Nat :
                            /\ T # {} /\ IsFiniteSet(T) /\ Cardinality(T) = n
                            /\ ~ \E m \in T : \A k \in T : m >= k
           Sizes == {n \in Nat : Without(n)}
<1> SUFFICES ASSUME Sizes # {} PROVE FALSE
  BY FS_CardinalityType
<1>1. PICK n \in Sizes : \A k \in Sizes : n <= k
  <2> HIDE DEF Sizes
  <2>1. Sizes \in SUBSET Nat
    BY DEF Sizes
  <2> QED
    BY <2>1, Least
<1>2. PICK T \in SUBSET Nat :
         /\ T # {} /\ IsFiniteSet(T) /\ Cardinality(T) = n
         /\ ~ \E m \in T : \A k \in T : m >= k
  BY <1>1
<1>3. PICK x \in T : TRUE
  BY <1>2
<1>4. T \ {x} # {}
  BY <1>2, <1>3
<1>5. IsFiniteSet(T \ {x}) /\ Cardinality(T \ {x}) = n - 1 /\ n \in Nat
  BY <1>2, <1>3, FS_RemoveElement, FS_CardinalityType
<1>6. n - 1 \in Nat
  BY <1>5, FS_CardinalityType
<1>7. n - 1 \notin Sizes
  BY <1>1, <1>5, <1>6
<1>8. PICK m \in T \ {x} : \A k \in T \ {x} : m >= k
  BY <1>4, <1>5, <1>6, <1>7
<1> QED
  BY <1>2, <1>3, <1>8

-----------------------------------------------------------------------------
(* The keyrings of the revisions *)

EmptyRing == [ok |-> TRUE, keys |-> [v \in {} |-> NoKey]]

\* What env.ts makes of a text of one entry.
LEMMA ReadOne ==
  ASSUME NEW a
  PROVE  VersionedKeys(<<a>>) = AddKey(EmptyRing, a)
<1> DEFINE S == {1}
           Turn(f) == [s \in SUBSET S |-> IF s = {} THEN EmptyRing
                                          ELSE AddKey(f[s \ {Max(s)}], <<a>>[Max(s)])]
           fold == CHOOSE f : f = Turn(f)
           one == AddKey(EmptyRing, a)
<1>1. VersionedKeys(<<a>>) = fold[S]
  BY DEF VersionedKeys, FoldLeft, MapThenFoldSet, EmptyRing
<1>2. Max({1}) = 1
  BY DEF Max
<1> HIDE DEF one
<1>3. \E f : f = Turn(f)
  <2> DEFINE w == [s \in SUBSET S |-> IF s = {} THEN EmptyRing ELSE one]
  <2>1. \A s \in SUBSET S : w[s] = Turn(w)[s]
    <3> SUFFICES ASSUME NEW s \in SUBSET S PROVE w[s] = Turn(w)[s]
      OBVIOUS
    <3>1. CASE s = {}
      BY <3>1
    <3>2. CASE s = {1}
      BY <1>2, <3>2 DEF one
    <3> QED
      BY <3>1, <3>2
  <2>2. w = Turn(w)
    BY <2>1
  <2> QED
    BY <2>2
<1>4. fold = Turn(fold)
  BY <1>3
<1> HIDE DEF fold
<1>5. fold[{}] = EmptyRing
  BY <1>4
<1>6. fold[S] = AddKey(fold[{}], a)
  BY <1>2, <1>4
<1> QED
  BY <1>1, <1>5, <1>6

\* And of a text of two.
LEMMA ReadTwo ==
  ASSUME NEW a, NEW b
  PROVE  VersionedKeys(<<a, b>>) = AddKey(AddKey(EmptyRing, a), b)
<1> DEFINE S == {1, 2}
           Turn(f) == [s \in SUBSET S |-> IF s = {} THEN EmptyRing
                                          ELSE AddKey(f[s \ {Max(s)}], <<a, b>>[Max(s)])]
           fold == CHOOSE f : f = Turn(f)
           one == AddKey(EmptyRing, a)
           two == AddKey(EmptyRing, b)
           both == AddKey(one, b)
<1>1. VersionedKeys(<<a, b>>) = fold[S]
  BY DEF VersionedKeys, FoldLeft, MapThenFoldSet, EmptyRing
<1>2. Max({1}) = 1 /\ Max({2}) = 2 /\ Max({1, 2}) = 2
  BY DEF Max
<1> HIDE DEF one, two, both
<1>3. \E f : f = Turn(f)
  <2> DEFINE w == [s \in SUBSET S |->
                      CASE s = {} -> EmptyRing
                        [] s = {1} -> one
                        [] s = {2} -> two
                        [] s = {1, 2} -> both]
  <2>1. w[{}] = EmptyRing /\ w[{1}] = one /\ w[{2}] = two /\ w[{1, 2}] = both
    OBVIOUS
  <2>2. \A s \in SUBSET S : w[s] = Turn(w)[s]
    <3> SUFFICES ASSUME NEW s \in SUBSET S PROVE w[s] = Turn(w)[s]
      OBVIOUS
    <3> HIDE DEF w
    <3>1. CASE s = {}
      BY <2>1, <3>1
    <3>2. CASE s = {1}
      BY <1>2, <2>1, <3>2 DEF one
    <3>3. CASE s = {2}
      BY <1>2, <2>1, <3>3 DEF two
    <3>4. CASE s = {1, 2}
      <4>1. {1, 2} \ {2} = {1} /\ {1, 2} # {}
        OBVIOUS
      <4> QED
        BY <1>2, <2>1, <3>4, <4>1 DEF both
    <3> QED
      BY <3>1, <3>2, <3>3, <3>4
  <2>3. w = Turn(w)
    BY <2>2
  <2> QED
    BY <2>3
<1>4. fold = Turn(fold)
  BY <1>3
<1> HIDE DEF fold
<1>5. fold[{}] = EmptyRing
  BY <1>4
<1>6. fold[{1}] = one
  <2>1. {1} \ {1} = {} /\ {1} # {} /\ {1} \in SUBSET S
    OBVIOUS
  <2>2. fold[{1}] = AddKey(fold[{1} \ {Max({1})}], <<a, b>>[Max({1})])
    BY <1>4, <2>1
  <2>3. fold[{1}] = AddKey(EmptyRing, a)
    BY <1>2, <1>5, <2>1, <2>2
  <2> QED
    BY <2>3 DEF one
<1>7. fold[S] = AddKey(fold[{1}], b)
  <2>1. {1, 2} \ {2} = {1} /\ {1, 2} # {}
    OBVIOUS
  <2> QED
    BY <1>2, <1>4, <2>1
<1> QED
  BY <1>1, <1>6, <1>7 DEF one

\* Each revision has the keys that its text of ENCRYPTION_KEYS names.
LEMMA KeysOfRevisions ==
  /\ DOMAIN Keys = {1, 2, 3}
  /\ DOMAIN Keys[1] = {1} /\ Keys[1][1] = OldKey
  /\ DOMAIN Keys[2] = {1, 2} /\ Keys[2][1] = OldKey /\ Keys[2][2] = NewKey
  /\ DOMAIN Keys[3] = {2} /\ Keys[3][2] = NewKey
<1> DEFINE a == [version |-> 1, key |-> OldKey]
           b == [version |-> 2, key |-> NewKey]
           one == Set(EmptyRing.keys, 1, OldKey)
           new == Set(EmptyRing.keys, 2, NewKey)
           both == Set(one, 2, NewKey)
<1>0. Matches(a) /\ Matches(b)
  BY KeyRotationAssumption, KeyringAssumption DEF Matches, NoVersion
<1>n. Number(a.version) = 1 /\ Number(b.version) = 2
  BY KeyringAssumption DEF Number
<1>1. AddKey(EmptyRing, a) = [ok |-> TRUE, keys |-> one]
  BY <1>0, <1>n DEF AddKey, EmptyRing
<1>2. AddKey(EmptyRing, b) = [ok |-> TRUE, keys |-> new]
  BY <1>0, <1>n DEF AddKey, EmptyRing
<1>3. DOMAIN one = {1} /\ one[1] = OldKey /\ DOMAIN new = {2} /\ new[2] = NewKey
  BY DEF EmptyRing, Set
<1> HIDE DEF one, new
<1>4. AddKey([ok |-> TRUE, keys |-> one], b) = [ok |-> TRUE, keys |-> both]
  <2>1. Number(2) = 2
    BY <1>n
  <2>2. Number(2) \notin DOMAIN one
    BY <1>3, <2>1
  <2> QED
    BY <1>0, <2>1, <2>2 DEF AddKey
<1>5. DOMAIN both = {1, 2} /\ both[1] = OldKey /\ both[2] = NewKey
  BY <1>3 DEF Set
<1>6. /\ Keys[1] = VersionedKeys(<<a>>).keys
      /\ Keys[2] = VersionedKeys(<<a, b>>).keys
      /\ Keys[3] = VersionedKeys(<<b>>).keys
  BY DEF Keys, EncryptionKeys, Revisions, Before, Both, After, Old, New
<1>7. DOMAIN Keys = {1, 2, 3}
  BY DEF Keys, Revisions, Before, Both, After
<1> HIDE DEF a, b, both
<1>8. /\ VersionedKeys(<<a>>) = [ok |-> TRUE, keys |-> one]
      /\ VersionedKeys(<<b>>) = [ok |-> TRUE, keys |-> new]
      /\ VersionedKeys(<<a, b>>) = [ok |-> TRUE, keys |-> both]
  <2>1. VersionedKeys(<<a>>) = AddKey(EmptyRing, a)
    BY ReadOne
  <2>2. VersionedKeys(<<b>>) = AddKey(EmptyRing, b)
    BY ReadOne
  <2>3. VersionedKeys(<<a, b>>) = AddKey(AddKey(EmptyRing, a), b)
    BY ReadTwo
  <2> QED
    BY <1>1, <1>2, <1>4, <2>1, <2>2, <2>3
<1>9. Keys[1] = one /\ Keys[2] = both /\ Keys[3] = new
  BY <1>6, <1>8
<1> QED
  BY <1>3, <1>5, <1>7, <1>9

\* The newest key of a revision.
LEMMA Newer ==
    ASSUME NEW v \in Revisions
    PROVE  CurrentVersion(Keys[v]) = IF v = Before THEN Old ELSE New
<1>1. CASE v = 1
  BY <1>1, KeysOfRevisions DEF CurrentVersion, Before, Old
<1>2. CASE v = 2
  BY <1>2, KeysOfRevisions DEF CurrentVersion, Before, New
<1>3. CASE v = 3
  BY <1>3, KeysOfRevisions DEF CurrentVersion, Before, New
<1> QED
  BY <1>1, <1>2, <1>3 DEF Revisions, Before, Both, After

\* A value that was made with one of the two keys, under its version and for the
\* column f.
Genuine(x, f) ==
    /\ x \in Value
    /\ x.context = f
    /\ x.key = IF x.version = Old THEN OldKey ELSE NewKey

\* What encryption under a revision's keys makes.
LEMMA EncryptMakes ==
    ASSUME NEW v \in Revisions, NEW f \in Fields, NEW p \in Plains
    PROVE  LET x == Encrypt(Keys[v], p, f) IN
           /\ Genuine(x, f)
           /\ x.plain = p
           /\ x.version = IF v = Before THEN Old ELSE New
<1> DEFINE x == Encrypt(Keys[v], p, f)
<1>0. PICK c : c = CurrentVersion(Keys[v]) /\ c = IF v = Before THEN Old ELSE New
  BY Newer
<1>a. Printed(c) = c
  <2>1. c \in {1, 2}
    BY <1>0 DEF Old, New
  <2>2. Exponential \in Nat /\ Exponential > 2
    BY KeyRotationAssumption, KeyringAssumption
  <2> QED
    BY <2>1, <2>2 DEF Printed
<1>b. x = [version |-> c, key |-> Keys[v][c], context |-> f, plain |-> p]
  BY <1>0, <1>a DEF Encrypt
<1>1. /\ x.version = IF v = Before THEN Old ELSE New
      /\ x.key = Keys[v][IF v = Before THEN Old ELSE New]
      /\ x.context = f /\ x.plain = p
      /\ x = [version |-> x.version, key |-> x.key, context |-> x.context, plain |-> x.plain]
  BY <1>0, <1>b
<1>2. x.key = IF x.version = Old THEN OldKey ELSE NewKey
  BY <1>1, KeysOfRevisions DEF Revisions, Before, Both, After, Old, New
<1> HIDE DEF x
<1>3. x \in Value
  BY <1>1, <1>2 DEF Value
<1> QED
  BY <1>1, <1>2, <1>3 DEF Genuine, x

\* What a revision reads: all values but those of a key it does not have.
LEMMA DecryptReads ==
    ASSUME NEW v \in Revisions, NEW f \in Fields, NEW x, Genuine(x, f)
    PROVE  /\ Decrypt(Keys[v], x, f) =
                 IF \/ v = Before /\ x.version = New
                    \/ v = After /\ x.version = Old
                   THEN DecryptionError ELSE x.plain
           /\ x.plain # DecryptionError
<1>1. x.version \in {Old, New} /\ x.plain \in Plains
  BY DEF Genuine, Value
<1>2. x.context = f /\ x.key = IF x.version = Old THEN OldKey ELSE NewKey
  BY DEF Genuine
<1>3. x.plain # DecryptionError
  BY <1>1, KeyRotationAssumption DEF Plains
<1>4. v \in {1, 2, 3} /\ x.version \in {1, 2}
  BY <1>1 DEF Revisions, Before, Both, After, Old, New
<1> SUFFICES Decrypt(Keys[v], x, f) = IF \/ v = 1 /\ x.version = 2
                                         \/ v = 3 /\ x.version = 1
                                        THEN DecryptionError ELSE x.plain
  BY <1>3 DEF Before, After, Old, New
<1>5. CASE v = 1
  BY <1>2, <1>4, <1>5, KeysOfRevisions DEF Decrypt, Old
<1>6. CASE v = 2
  BY <1>2, <1>4, <1>6, KeysOfRevisions DEF Decrypt, Old
<1>7. CASE v = 3
  BY <1>2, <1>4, <1>7, KeysOfRevisions DEF Decrypt, Old
<1> QED
  BY <1>4, <1>5, <1>6, <1>7

\* Re-encryption keeps the text and brings the value to the new key.
LEMMA ReencryptMakes ==
    ASSUME NEW f \in Fields, NEW x, Genuine(x, f)
    PROVE  LET y == Reencrypt(Keys[Both], x, f) IN
           /\ Genuine(y, f)
           /\ y.plain = x.plain
           /\ y.version = New
<1>1. Both \in Revisions /\ Both # Before /\ Both # After
  BY DEF Revisions, Before, Both, After
<1>2. Decrypt(Keys[Both], x, f) = x.plain
  BY <1>1, DecryptReads
<1>3. x.plain \in Plains
  BY DEF Genuine, Value
<1> QED
  BY <1>1, <1>2, <1>3, EncryptMakes DEF Reencrypt

\* Exactly the values of another key than the new one need re-encryption.
LEMMA NeedsIt ==
    ASSUME NEW x
    PROVE  NeedsReencryption(Keys[Both], x) <=> x.version # New
BY Newer DEF NeedsReencryption, Revisions, Before, Both

-----------------------------------------------------------------------------
(* What the helpers of the actions make *)

\* What is encrypted or about to be written belongs to its column and can be
\* read; the script has rows to write exactly when it is about to write one.
Shaped ==
    /\ \A i \in DOMAIN rows, f \in Fields : Genuine(rows[i].value[f], f)
    /\ \A r \in Reqs : req[r] # Idle =>
          \A f \in DOMAIN req[r].data :
              /\ Genuine(req[r].data[f], f)
              /\ f = Email => req[r].data[f].plain \in Emails
    /\ \A r \in Reqs : At(r, "create") => DOMAIN req[r].data = Fields
    /\ \A i \in DOMAIN script.todo, f \in Fields : Genuine(script.todo[i][f], f)
    /\ script.pc = "update" => DOMAIN script.todo # {}
    /\ script.pc = "find" => DOMAIN script.todo = {}

Typed == TypeOK /\ Shaped

\* The parts of a request on its way.
LEMMA BusyRecord ==
    ASSUME NEW b \in Busy
    PROVE  /\ b.pc \in {"create", "update"} /\ b.id \in Ids
           /\ DOMAIN b.data \in SUBSET Fields
           /\ b.data \in [DOMAIN b.data -> Value]
           /\ b # Idle
<1>1. b.data \in UNION {[F -> Value] : F \in SUBSET Fields}
  BY DEF Busy
<1>2. PICK F \in SUBSET Fields : b.data \in [F -> Value]
  BY <1>1
<1> QED
  BY <1>2 DEF Busy, Idle

\* The parts of the script's state.
LEMMA ScriptRecord ==
    ASSUME NEW x \in Script
    PROVE  /\ x.pc \in {"off", "find", "update", "done", "failed"}
           /\ x.cursor \in Ids \cup {0}
           /\ DOMAIN x.todo \in SUBSET Ids
           /\ x.todo \in [DOMAIN x.todo -> [Fields -> Value]]
<1>1. x.todo \in UNION {[I -> [Fields -> Value]] : I \in SUBSET Ids}
  BY DEF Script
<1>2. PICK I \in SUBSET Ids : x.todo \in [I -> [Fields -> Value]]
  BY <1>1
<1> QED
  BY <1>2 DEF Script

\* A body encrypted column by column.
LEMMA EncryptedMakes ==
    ASSUME NEW v \in Revisions, NEW F \in SUBSET Fields, NEW data \in [F -> Plains]
    PROVE  LET d == Encrypted(data, Keys[v]) IN
           /\ d \in [F -> Value]
           /\ \A f \in F :
                 /\ Genuine(d[f], f)
                 /\ d[f].plain = data[f]
                 /\ d[f].version = IF v = Before THEN Old ELSE New
<1> DEFINE d == Encrypted(data, Keys[v])
<1>1. d = [f \in F |-> Encrypt(Keys[v], data[f], f)]
  BY DEF Encrypted
<1>2. \A f \in F : d[f] = Encrypt(Keys[v], data[f], f) /\ data[f] \in Plains
  BY <1>1
<1>3. \A f \in F :
         /\ Genuine(d[f], f)
         /\ d[f].plain = data[f]
         /\ d[f].version = IF v = Before THEN Old ELSE New
  BY <1>2, EncryptMakes
<1> HIDE DEF d
<1>4. \A f \in F : d[f] \in Value
  BY <1>3 DEF Genuine
<1>5. d \in [F -> Value]
  BY <1>1, <1>4
<1> QED
  BY <1>3, <1>5 DEF d

\* The row that an update leaves: the columns given, and the blind index
\* with the email.
LEMMA UpdatedRowMakes ==
    ASSUME NEW row \in Row, NEW F \in SUBSET Fields, NEW data \in [F -> Value],
           Email \in F => data[Email].plain \in Emails
    PROVE  LET new == UpdatedRow(row, data) IN
           /\ new \in Row
           /\ new.emailHash = IF Email \in F THEN data[Email].plain ELSE row.emailHash
           /\ \A f \in Fields :
                 /\ new.value[f] = IF f \in F THEN data[f] ELSE row.value[f]
                 /\ new.chosen[f] = IF f \in F THEN data[f].plain ELSE row.chosen[f]
<1> DEFINE value == Merged(row.value, data)
           hash == IF Email \in F THEN data[Email].plain ELSE row.emailHash
           chosen == Merged(row.chosen, Plain(data))
<1>1. /\ row.value \in [Fields -> Value] /\ row.emailHash \in Emails
      /\ row.chosen \in [Fields -> Plains]
  BY DEF Row
<1>2. Plain(data) \in [F -> Plains] /\ \A f \in F : Plain(data)[f] = data[f].plain
  <2>1. Plain(data) = [f \in F |-> data[f].plain]
    BY DEF Plain
  <2>2. \A f \in F : data[f].plain \in Plains
    BY DEF Value
  <2> QED
    BY <2>1, <2>2
<1>3. /\ value \in [Fields -> Value]
      /\ \A f \in Fields : value[f] = IF f \in F THEN data[f] ELSE row.value[f]
  BY <1>1 DEF Merged
<1>4. /\ chosen \in [Fields -> Plains]
      /\ \A f \in Fields : chosen[f] = IF f \in F THEN data[f].plain ELSE row.chosen[f]
  BY <1>1, <1>2 DEF Merged
<1>5. hash \in Emails
  BY <1>1
<1>6. UpdatedRow(row, data) = [[[row EXCEPT !.value = value]
                                   EXCEPT !.emailHash = hash] EXCEPT !.chosen = chosen]
  BY DEF UpdatedRow, Row
<1> HIDE DEF value, hash, chosen
<1>7. /\ UpdatedRow(row, data) \in Row
      /\ UpdatedRow(row, data).value = value
      /\ UpdatedRow(row, data).emailHash = hash
      /\ UpdatedRow(row, data).chosen = chosen
  BY <1>3, <1>4, <1>5, <1>6 DEF Row
<1> QED
  BY <1>3, <1>4, <1>7 DEF hash

\* The row that a registration makes.
LEMMA NewRowMakes ==
    ASSUME NEW data \in [Fields -> Value], data[Email].plain \in Emails
    PROVE  /\ NewRow(data) \in Row
           /\ NewRow(data).value = data
           /\ NewRow(data).emailHash = data[Email].plain
           /\ \A f \in Fields : NewRow(data).chosen[f] = data[f].plain
<1>1. Plain(data) \in [Fields -> Plains] /\ \A f \in Fields : Plain(data)[f] = data[f].plain
  <2>1. Plain(data) = [f \in Fields |-> data[f].plain]
    BY DEF Plain
  <2>2. \A f \in Fields : data[f].plain \in Plains
    BY DEF Value
  <2> QED
    BY <2>1, <2>2
<1>2. NewRow(data) \in Row
  BY <1>1 DEF NewRow, Row
<1> QED
  BY <1>1, <1>2 DEF NewRow

\* The newest revision that serves.
LEMMA NewestIs ==
    ASSUME TypeOK
    PROVE  /\ Newest \in revisions /\ Newest \in {1, 2, 3}
           /\ \A w \in revisions : w \in {1, 2, 3} /\ Newest >= w
<1>1. revisions # {} /\ revisions \subseteq {1, 2, 3}
  <2>1. revisions \in SUBSET Revisions /\ revisions # {}
    BY DEF TypeOK
  <2> QED
    BY <2>1 DEF Revisions, Before, Both, After
<1>2. \E v \in revisions : \A w \in revisions : v >= w
  <2>1. CASE 3 \in revisions
    BY <1>1, <2>1
  <2>2. CASE 3 \notin revisions /\ 2 \in revisions
    BY <1>1, <2>2
  <2>3. CASE 3 \notin revisions /\ 2 \notin revisions
    <3>1. PICK v \in revisions : v = 1
      BY <1>1, <2>3
    <3> QED
      BY <1>1, <2>3, <3>1
  <2> QED
    BY <2>1, <2>2, <2>3
<1> QED
  BY <1>1, <1>2 DEF Newest

-----------------------------------------------------------------------------
(* What each action does *)

\* Request r is answered.
Answered(r) ==
    /\ req' \in [Reqs -> {Idle} \cup Busy]
    /\ req'[r] = Idle
    /\ \A q \in Reqs \ {r} : req'[q] = req[q]

\* Answering a request leaves every other one as it was.
LEMMA AnswerAnswered ==
    ASSUME TypeOK, NEW r \in Reqs, Answer(r)
    PROVE  Answered(r)
BY DEF TypeOK, Answer, Answered

\* A request comes with `data`, encrypted by one of the revisions.
LEMMA BeginEffect ==
    ASSUME TypeOK, NEW r \in Reqs, NEW pc \in {"create", "update"}, NEW id \in Ids,
           NEW F \in SUBSET Fields, NEW data \in Inputs(F), Begin(r, pc, id, data)
    PROVE  /\ req' \in [Reqs -> {Idle} \cup Busy]
           /\ \A q \in Reqs \ {r} : req'[q] = req[q]
           /\ req'[r] # Idle /\ req'[r].pc = pc /\ req'[r].id = id
           /\ DOMAIN req'[r].data = F
           /\ \A f \in F :
                 /\ Genuine(req'[r].data[f], f)
                 /\ f = Email => req'[r].data[f].plain \in Emails
           /\ \E v \in revisions : \A f \in F :
                 req'[r].data[f].version = IF v = Before THEN Old ELSE New
<1>1. PICK v \in revisions :
         req' = [req EXCEPT ![r] = [pc |-> pc, id |-> id, data |-> Encrypted(data, Keys[v])]]
  BY DEF Begin
<1>2. v \in Revisions
  BY DEF TypeOK
<1>3. /\ data \in [F -> Plains]
      /\ \A f \in F : f = Email => data[f] \in Emails
  BY DEF Inputs, Plains
<1> DEFINE d == Encrypted(data, Keys[v])
           b == [pc |-> pc, id |-> id, data |-> d]
<1>4. /\ d \in [F -> Value]
      /\ \A f \in F :
            /\ Genuine(d[f], f)
            /\ d[f].plain = data[f]
            /\ d[f].version = IF v = Before THEN Old ELSE New
  BY <1>2, <1>3, EncryptedMakes
<1> HIDE DEF d
<1>5. b \in Busy
  BY <1>4 DEF Busy
<1>6. b # Idle
  BY <1>5, BusyRecord
<1>7. req' \in [Reqs -> {Idle} \cup Busy] /\ req'[r] = b /\ \A q \in Reqs \ {r} : req'[q] = req[q]
  BY <1>1, <1>5 DEF TypeOK, d
<1> QED
  BY <1>3, <1>4, <1>6, <1>7

\* register inserts its row or is refused.
LEMMA CreateEffect ==
    ASSUME TypeOK, Shaped, NEW r \in Reqs, Create(r)
    PROVE  LET id == req[r].id
               data == req[r].data IN
           /\ Answered(r)
           /\ \/ UNCHANGED <<rows, born, overtaken, late>>
              \/ /\ id \in Ids \ born
                 /\ data \in [Fields -> Value]
                 /\ DOMAIN rows' = DOMAIN rows \cup {id}
                 /\ rows' \in [DOMAIN rows' -> Row]
                 /\ \A i \in DOMAIN rows \ {id} : rows'[i] = rows[i]
                 /\ rows'[id].emailHash = data[Email].plain
                 /\ \A f \in Fields : /\ rows'[id].value[f] = data[f]
                                      /\ Genuine(data[f], f)
                                      /\ rows'[id].chosen[f] = data[f].plain
                 /\ born' = born \cup {id}
                 /\ Written(id, r)
<1> DEFINE id == req[r].id
           data == req[r].data
<1>0. Answered(r)
  BY AnswerAnswered DEF Create
<1>1. req[r] \in Busy /\ req[r] # Idle /\ At(r, "create")
  BY DEF Create, At, TypeOK
<1>2. id \in Ids /\ data \in [Fields -> Value] /\ data[Email].plain \in Emails
  BY <1>1, BusyRecord, KeyRotationAssumption DEF Shaped
<1>3. CASE id \notin born /\ Free(data, id)
  <2>1. /\ rows' = [i \in DOMAIN rows \cup {id} |-> IF i = id THEN NewRow(data) ELSE rows[i]]
        /\ born' = born \cup {id} /\ Written(id, r)
    BY <1>3 DEF Create
  <2>2. /\ NewRow(data) \in Row /\ NewRow(data).value = data
        /\ NewRow(data).emailHash = data[Email].plain
        /\ \A f \in Fields : NewRow(data).chosen[f] = data[f].plain
    BY <1>2, NewRowMakes
  <2>3. rows' \in [DOMAIN rows \cup {id} -> Row] /\ rows'[id] = NewRow(data)
    BY <2>1, <2>2 DEF TypeOK
  <2>4. \A f \in Fields : Genuine(data[f], f)
    BY <1>1, <1>2 DEF Shaped
  <2>5. DOMAIN rows' = DOMAIN rows \cup {id} /\ \A i \in DOMAIN rows \ {id} : rows'[i] = rows[i]
    BY <2>1
  <2>6. \A f \in Fields : rows'[id].value[f] = data[f] /\ rows'[id].chosen[f] = data[f].plain
    BY <2>2, <2>3
  <2> HIDE DEF id, data
  <2> QED
    BY <1>0, <1>2, <1>3, <2>1, <2>2, <2>3, <2>4, <2>5, <2>6 DEF id, data
<1>4. CASE ~ (id \notin born /\ Free(data, id))
  BY <1>0, <1>4 DEF Create
<1> QED
  BY <1>3, <1>4

\* A change of names or of the email writes the columns it is given.
LEMMA UpdateEffect ==
    ASSUME TypeOK, Shaped, NEW r \in Reqs, Update(r)
    PROVE  LET id == req[r].id
               data == req[r].data IN
           /\ Answered(r)
           /\ \/ UNCHANGED <<rows, overtaken, late>>
              \/ /\ id \in DOMAIN rows
                 /\ DOMAIN rows' = DOMAIN rows
                 /\ rows' \in [DOMAIN rows' -> Row]
                 /\ \A i \in DOMAIN rows \ {id} : rows'[i] = rows[i]
                 /\ rows'[id].emailHash = IF Email \in DOMAIN data THEN data[Email].plain
                                                                   ELSE rows[id].emailHash
                 /\ \A f \in Fields :
                       /\ rows'[id].value[f] = IF f \in DOMAIN data THEN data[f]
                                                                    ELSE rows[id].value[f]
                       /\ rows'[id].chosen[f] = IF f \in DOMAIN data THEN data[f].plain
                                                                     ELSE rows[id].chosen[f]
                       /\ f \in DOMAIN data => Genuine(data[f], f)
                 /\ Written(id, r)
<1> DEFINE id == req[r].id
           data == req[r].data
<1>0. Answered(r)
  BY AnswerAnswered DEF Update
<1>1. req[r] \in Busy /\ req[r] # Idle
  BY DEF Update, At, TypeOK
<1>2. /\ id \in Ids /\ DOMAIN data \in SUBSET Fields /\ data \in [DOMAIN data -> Value]
      /\ Email \in DOMAIN data => data[Email].plain \in Emails
      /\ \A f \in DOMAIN data : Genuine(data[f], f)
  BY <1>1, BusyRecord DEF Shaped
<1>3. CASE id \in DOMAIN rows /\ Free(data, id)
  <2> DEFINE new == UpdatedRow(rows[id], data)
  <2>1. rows' = [rows EXCEPT ![id] = new] /\ Written(id, r)
    BY <1>3 DEF Update
  <2>2. rows[id] \in Row
    BY <1>3 DEF TypeOK
  <2>3. /\ new \in Row
        /\ new.emailHash = IF Email \in DOMAIN data THEN data[Email].plain ELSE rows[id].emailHash
        /\ \A f \in Fields :
              /\ new.value[f] = IF f \in DOMAIN data THEN data[f] ELSE rows[id].value[f]
              /\ new.chosen[f] = IF f \in DOMAIN data THEN data[f].plain ELSE rows[id].chosen[f]
    BY <1>2, <2>2, UpdatedRowMakes
  <2> HIDE DEF new, id, data
  <2>4. /\ DOMAIN rows' = DOMAIN rows /\ rows' \in [DOMAIN rows' -> Row] /\ rows'[id] = new
        /\ \A i \in DOMAIN rows \ {id} : rows'[i] = rows[i]
    BY <1>3, <2>1, <2>3 DEF TypeOK
  <2> QED
    BY <1>0, <1>2, <1>3, <2>1, <2>3, <2>4 DEF id, data
<1>4. CASE ~ (id \in DOMAIN rows /\ Free(data, id))
  BY <1>0, <1>4 DEF Update
<1> QED
  BY <1>3, <1>4

\* The next row of the page.
NextId == CHOOSE i \in DOMAIN script.todo : \A j \in DOMAIN script.todo : i <= j

\* The row the script takes next is one of its page.
LEMMA NextIdIs ==
    ASSUME TypeOK, DOMAIN script.todo # {}
    PROVE  NextId \in DOMAIN script.todo
<1>1. DOMAIN script.todo \in SUBSET Nat
  BY ScriptRecord, KeyRotationAssumption DEF TypeOK
<1> QED
  BY <1>1, Least DEF NextId

\* The script writes the columns it read with the old key, or dies of a row that is
\* gone.
LEMMA UpdateRowEffect ==
    ASSUME TypeOK, Shaped, UpdateRow
    PROVE  /\ script.pc = "update"
           /\ NextId \in DOMAIN script.todo
           /\ script' \in Script /\ script'.cursor = script.cursor
           /\ \/ /\ script'.pc = "failed" /\ script'.todo = script.todo
                 /\ UNCHANGED <<rows, overtaken>>
              \/ /\ NextId \in DOMAIN rows
                 /\ DOMAIN rows' = DOMAIN rows
                 /\ rows' \in [DOMAIN rows' -> Row]
                 /\ \A i \in DOMAIN rows \ {NextId} : rows'[i] = rows[i]
                 /\ rows'[NextId].emailHash = rows[NextId].emailHash
                 /\ rows'[NextId].chosen = rows[NextId].chosen
                 /\ \A f \in Fields :
                       IF script.todo[NextId][f].version = New
                         THEN rows'[NextId].value[f] = rows[NextId].value[f]
                         ELSE /\ Genuine(rows'[NextId].value[f], f)
                              /\ rows'[NextId].value[f].version = New
                              /\ rows'[NextId].value[f].plain = script.todo[NextId][f].plain
                              /\ \/ rows[NextId].value[f] = script.todo[NextId][f]
                                 \/ <<NextId, f>> \in overtaken'
                 /\ overtaken \subseteq overtaken'
                 /\ overtaken' \subseteq Ids \X Fields
                 /\ DOMAIN script'.todo = DOMAIN script.todo \ {NextId}
                 /\ \A i \in DOMAIN script'.todo : script'.todo[i] = script.todo[i]
                 /\ script'.pc = IF DOMAIN script'.todo = {} THEN "find" ELSE "update"
<1> DEFINE todo == script.todo
           stale == {f \in Fields : NeedsReencryption(Keys[Both], todo[NextId][f])}
           rest == DOMAIN todo \ {NextId}
           new == [f \in stale |-> Reencrypt(Keys[Both], todo[NextId][f], f)]
<1>1. script.pc = "update"
  BY DEF UpdateRow
<1>2. NextId \in DOMAIN todo
  BY <1>1, NextIdIs DEF Shaped
<1>3. /\ script \in Script
      /\ DOMAIN todo \in SUBSET Ids /\ todo \in [DOMAIN todo -> [Fields -> Value]]
  BY ScriptRecord DEF TypeOK
<1>4. CASE NextId \notin DOMAIN rows
  <2>1. script' = [script EXCEPT !.pc = "failed"] /\ UNCHANGED <<rows, overtaken>>
    BY <1>4 DEF UpdateRow, NextId
  <2>2. /\ script' \in Script /\ script'.pc = "failed"
        /\ script'.todo = script.todo /\ script'.cursor = script.cursor
    BY <1>3, <2>1 DEF Script
  <2> QED
    BY <1>1, <1>2, <2>1, <2>2
<1>5. CASE NextId \in DOMAIN rows
  <2>1. /\ rows' = [rows EXCEPT ![NextId].value = Merged(rows[NextId].value, new)]
        /\ overtaken' = overtaken \cup
              {<<NextId, f>> : f \in {g \in stale : rows[NextId].value[g] # todo[NextId][g]}}
        /\ script' = [script EXCEPT !.pc = IF rest = {} THEN "find" ELSE "update",
                                    !.todo = [i \in rest |-> todo[i]]]
    BY <1>5 DEF UpdateRow, NextId, TypeOK
  <2>2. stale \in SUBSET Fields
        /\ \A f \in Fields : f \in stale <=> todo[NextId][f].version # New
    BY NeedsIt
  <2>3. \A f \in Fields : Genuine(todo[NextId][f], f)
    BY <1>2 DEF Shaped
  <2>4. \A f \in stale : /\ Genuine(new[f], f)
                         /\ new[f].version = New
                         /\ new[f].plain = todo[NextId][f].plain
    BY <2>3, ReencryptMakes
  <2>5. new \in [stale -> Value]
    <3> HIDE DEF stale
    <3>1. \A f \in stale : new[f] \in Value
      BY <2>4 DEF Genuine
    <3> QED
      BY <3>1
  <2> HIDE DEF stale, new
  <2>6. rows[NextId] \in Row /\ rows[NextId].value \in [Fields -> Value]
    BY <1>5 DEF TypeOK, Row
  <2> DEFINE value == Merged(rows[NextId].value, new)
  <2>7. /\ value \in [Fields -> Value]
        /\ \A f \in Fields : value[f] = IF f \in stale THEN new[f] ELSE rows[NextId].value[f]
    BY <2>2, <2>5, <2>6 DEF Merged
  <2> HIDE DEF value
  <2> DEFINE row == [rows[NextId] EXCEPT !.value = value]
  <2>8. /\ row \in Row /\ row.value = value
        /\ row.emailHash = rows[NextId].emailHash /\ row.chosen = rows[NextId].chosen
    BY <2>6, <2>7 DEF Row
  <2>9. rows' = [rows EXCEPT ![NextId] = row]
    BY <1>5, <2>1 DEF TypeOK, value
  <2> HIDE DEF row
  <2>10. /\ DOMAIN rows' = DOMAIN rows /\ rows' \in [DOMAIN rows' -> Row]
         /\ rows'[NextId] = row
         /\ \A i \in DOMAIN rows \ {NextId} : rows'[i] = rows[i]
    BY <1>5, <2>8, <2>9 DEF TypeOK
  <2>11. \A f \in Fields :
            IF todo[NextId][f].version = New
              THEN row.value[f] = rows[NextId].value[f]
              ELSE /\ Genuine(row.value[f], f)
                   /\ row.value[f].version = New
                   /\ row.value[f].plain = todo[NextId][f].plain
                   /\ \/ rows[NextId].value[f] = todo[NextId][f]
                      \/ <<NextId, f>> \in overtaken'
    BY <2>1, <2>2, <2>4, <2>7, <2>8
  <2>12. overtaken \subseteq overtaken' /\ overtaken' \subseteq Ids \X Fields
    BY <1>2, <1>3, <2>1, <2>2 DEF TypeOK
  <2>13. /\ script' \in Script /\ script'.cursor = script.cursor
         /\ DOMAIN script'.todo = rest
         /\ \A i \in rest : script'.todo[i] = todo[i]
         /\ script'.pc = IF rest = {} THEN "find" ELSE "update"
    <3> DEFINE left == [i \in rest |-> todo[i]]
               step == IF rest = {} THEN "find" ELSE "update"
    <3>1. script' = [[script EXCEPT !.pc = step] EXCEPT !.todo = left]
      BY <1>3, <2>1 DEF Script
    <3>2. left \in [rest -> [Fields -> Value]] /\ rest \in SUBSET Ids
      BY <1>3
    <3>3. left \in UNION {[I -> [Fields -> Value]] : I \in SUBSET Ids}
      BY <3>2
    <3>4. DOMAIN left = rest /\ \A i \in rest : left[i] = todo[i]
      OBVIOUS
    <3> HIDE DEF left
    <3>5. /\ script' \in Script /\ script'.cursor = script.cursor
          /\ script'.todo = left /\ script'.pc = step
      BY <1>3, <3>1, <3>3 DEF Script
    <3> QED
      BY <3>4, <3>5
  <2> QED
    BY <1>1, <1>2, <1>5, <2>8, <2>10, <2>11, <2>12, <2>13
<1> QED
  BY <1>4, <1>5

\* The script reads a page: it skips the rows it does not find, passes over those
\* that have nothing to re-encrypt and takes note of the others.
LEMMA FindManyEffect ==
    ASSUME TypeOK, Shaped, FindMany
    PROVE  /\ script.pc = "find"
           /\ script' \in Script
           /\ skipped \subseteq skipped' /\ skipped' \subseteq Ids
           /\ script.cursor \in DOMAIN rows \cup {0} => skipped' = skipped
           /\ \/ /\ script'.pc = "done"
                 /\ script'.todo = script.todo
                 /\ \A i \in DOMAIN rows : i > script.cursor => i \in skipped'
              \/ /\ script'.pc = IF DOMAIN script'.todo = {} THEN "find" ELSE "update"
                 /\ script'.cursor \in DOMAIN rows
                 /\ DOMAIN script'.todo \subseteq DOMAIN rows
                 /\ \A i \in DOMAIN script'.todo :
                       /\ script'.todo[i] = rows[i].value
                       /\ i <= script'.cursor
                 /\ script.cursor <= script'.cursor
                 /\ \A i \in DOMAIN rows :
                       script.cursor < i /\ i <= script'.cursor =>
                          \/ i \in skipped' \cup DOMAIN script'.todo
                          \/ \A f \in Fields : rows[i].value[f].version = New
<1>1. /\ script.pc = "find" /\ script \in Script /\ script.cursor \in Nat
      /\ DOMAIN rows \in SUBSET Ids /\ Ids \in SUBSET Nat
  BY ScriptRecord, KeyRotationAssumption DEF FindMany, TypeOK
<1>2. PICK S \in Found : \E B \in Page(S) :
         /\ skipped' = skipped \cup (Beyond(script.cursor) \ S)
         /\ script' =
              IF B = {} THEN [script EXCEPT !.pc = "done"]
              ELSE [pc |-> IF RowsToDo(B) = {} THEN "find" ELSE "update",
                    cursor |-> NextCursor(B),
                    todo |-> [i \in RowsToDo(B) |-> rows[i].value]]
  BY DEF FindMany
<1>3. PICK B \in Page(S) :
         /\ skipped' = skipped \cup (Beyond(script.cursor) \ S)
         /\ script' =
              IF B = {} THEN [script EXCEPT !.pc = "done"]
              ELSE [pc |-> IF RowsToDo(B) = {} THEN "find" ELSE "update",
                    cursor |-> NextCursor(B),
                    todo |-> [i \in RowsToDo(B) |-> rows[i].value]]
  BY <1>2
<1>4. S \in SUBSET Beyond(script.cursor)
  BY DEF Found
<1>5. Beyond(script.cursor) = {i \in DOMAIN rows : i > script.cursor}
  BY DEF Beyond
<1>6. /\ skipped \subseteq skipped' /\ skipped' \subseteq Ids
      /\ script.cursor \in DOMAIN rows \cup {0} => skipped' = skipped
  <2>1. skipped \subseteq skipped' /\ skipped' \subseteq Ids
    BY <1>1, <1>3, <1>5 DEF TypeOK
  <2>2. ASSUME script.cursor \in DOMAIN rows \cup {0}
        PROVE  skipped' = skipped
    <3>1. S = Beyond(script.cursor)
      BY <1>2, <2>2 DEF Found
    <3> QED
      BY <1>3, <3>1
  <2> QED
    BY <2>1, <2>2
<1>7. /\ B \in SUBSET S
      /\ Cardinality(B) = IF Cardinality(S) < Batch THEN Cardinality(S) ELSE Batch
      /\ \A i \in B, j \in S \ B : i < j
  BY DEF Page
<1>8. IsFiniteSet(S) /\ IsFiniteSet(B) /\ S \in SUBSET Nat
  <2>1. S \in SUBSET Ids /\ B \in SUBSET Ids
    BY <1>1, <1>4, <1>5, <1>7
  <2> QED
    BY <1>1, <2>1, FS_Subset, KeyRotationAssumption
<1>9. CASE B = {}
  <2>1. S = {}
    <3>1. Cardinality(B) = 0
      BY <1>9, FS_EmptySet
    <3>2. Cardinality(S) \in Nat /\ Batch \in Nat \ {0}
      BY <1>8, FS_CardinalityType, KeyRotationAssumption
    <3>3. Cardinality(S) = 0
      BY <1>7, <3>1, <3>2
    <3> QED
      BY <1>8, <3>3, FS_EmptySet
  <2>2. script' = [script EXCEPT !.pc = "done"]
    BY <1>3, <1>9
  <2>3. script' \in Script /\ script'.pc = "done" /\ script'.todo = script.todo
    BY <1>1, <2>2 DEF Script
  <2>4. \A i \in DOMAIN rows : i > script.cursor => i \in skipped'
    BY <1>3, <1>5, <2>1
  <2> QED
    BY <1>1, <1>6, <2>3, <2>4
<1>10. CASE B # {}
  <2> DEFINE todo == [i \in RowsToDo(B) |-> rows[i].value]
             cursor == NextCursor(B)
             pc == IF RowsToDo(B) = {} THEN "find" ELSE "update"
  <2>1. script' = [pc |-> pc, cursor |-> cursor, todo |-> todo]
    BY <1>3, <1>10
  <2>2. cursor \in B /\ \A i \in B : cursor >= i
    <3>1. \E m \in B : \A n \in B : m >= n
      <4>1. B \in SUBSET Nat
        BY <1>7, <1>8
      <4> QED
        BY <1>8, <1>10, <4>1, Greatest
    <3> QED
      BY <3>1 DEF NextCursor
  <2>3. RowsToDo(B) \in SUBSET B
        /\ \A i \in B \ RowsToDo(B) : \A f \in Fields : rows[i].value[f].version = New
    BY NeedsIt DEF RowsToDo
  <2> HIDE DEF cursor
  <2>4. RowsToDo(B) \in SUBSET DOMAIN rows /\ RowsToDo(B) \in SUBSET Ids
    BY <1>1, <1>4, <1>5, <1>7, <2>3
  <2>5. todo \in [RowsToDo(B) -> [Fields -> Value]]
    <3>1. \A i \in DOMAIN rows : rows[i].value \in [Fields -> Value]
      BY DEF TypeOK, Row
    <3> QED
      BY <2>4, <3>1
  <2>6. todo \in UNION {[I -> [Fields -> Value]] : I \in SUBSET Ids}
    BY <2>4, <2>5
  <2>7. DOMAIN todo = RowsToDo(B) /\ \A i \in RowsToDo(B) : todo[i] = rows[i].value
    OBVIOUS
  <2>8. cursor \in Ids /\ cursor \in Nat /\ cursor \in DOMAIN rows /\ cursor > script.cursor
    BY <1>1, <1>4, <1>5, <1>7, <2>2
  <2> HIDE DEF todo
  <2>9. script' \in Script /\ script'.pc = pc /\ script'.todo = todo /\ script'.cursor = cursor
    BY <2>1, <2>6, <2>8 DEF Script
  <2>10. \A i \in DOMAIN todo : todo[i] = rows[i].value /\ i <= cursor
    BY <1>1, <2>2, <2>3, <2>4, <2>7, <2>8
  <2>11. ASSUME NEW i \in DOMAIN rows, script.cursor < i, i <= cursor
         PROVE  \/ i \in skipped' \cup DOMAIN todo
                \/ \A f \in Fields : rows[i].value[f].version = New
    <3>1. CASE i \notin S
      BY <1>3, <1>5, <2>11, <3>1
    <3>2. CASE i \in B
      BY <2>3, <2>7, <3>2
    <3>3. CASE i \in S \ B
      <4>1. cursor < i
        BY <1>7, <2>2, <3>3
      <4>2. i \in Nat
        BY <1>1
      <4> QED
        BY <2>8, <2>11, <4>1, <4>2
    <3> QED
      BY <3>1, <3>2, <3>3
  <2>12. script.cursor <= cursor
    BY <1>1, <2>8
  <2> QED
    BY <1>1, <1>6, <2>4, <2>7, <2>8, <2>9, <2>10, <2>11, <2>12
<1> QED
  BY <1>9, <1>10

-----------------------------------------------------------------------------
(* Type correctness *)

\* The shapes hold initially.
LEMMA TypedInit == Init => Typed
<1> SUFFICES ASSUME Init PROVE Typed
  OBVIOUS
<1> DEFINE none == [i \in {} |-> {}]
<1>1. none \in [{} -> [Fields -> Value]] /\ none \in [{} -> Row] /\ DOMAIN none = {}
  OBVIOUS
<1>2. none \in UNION {[I -> [Fields -> Value]] : I \in SUBSET Ids}
  BY <1>1
<1>3. rows = none /\ script = [pc |-> "off", cursor |-> 0, todo |-> none]
  BY DEF Init
<1> HIDE DEF none
<1>4. script \in Script
  BY <1>2, <1>3 DEF Script
<1>5. revisions \in (SUBSET Revisions) \ {{}}
  BY DEF Init, Revisions
<1>6. req \in [Reqs -> {Idle} \cup Busy]
  BY DEF Init
<1>7. TypeOK
  BY <1>1, <1>3, <1>4, <1>5, <1>6 DEF Init, TypeOK
<1>8. Shaped
  BY <1>1, <1>3 DEF Init, Shaped, At
<1> QED
  BY <1>7, <1>8 DEF Typed

\* A step that only answers a request.
LEMMA AnsweredTyped ==
    ASSUME Typed, NEW r \in Reqs, Answered(r)
    PROVE  /\ \A q \in Reqs : req'[q] # Idle =>
                 /\ req'[q] = req[q]
                 /\ \A f \in DOMAIN req'[q].data :
                       /\ Genuine(req'[q].data[f], f)
                       /\ f = Email => req'[q].data[f].plain \in Emails
           /\ \A q \in Reqs : At(q, "create")' => DOMAIN req'[q].data = Fields
BY DEF Typed, Shaped, Answered, At

\* The history of a write stays within ids and columns.
LEMMA WrittenTyped ==
    ASSUME TypeOK, NEW id \in Ids, NEW r, Written(id, r)
    PROVE  overtaken' \subseteq Ids \X Fields /\ late' \subseteq Ids
BY DEF TypeOK, Written

\* Every step keeps the shapes.
LEMMA TypedNext == Typed /\ [Next]_vars => Typed'
<1> SUFFICES ASSUME Typed, [Next]_vars PROVE Typed'
  OBVIOUS
<1>0. TypeOK /\ Shaped
  BY DEF Typed
<1>1. ASSUME NEW r \in Reqs, NEW pc \in {"create", "update"}, NEW id \in Ids,
             NEW F \in SUBSET Fields, NEW data \in Inputs(F), Begin(r, pc, id, data),
             pc = "create" => F = Fields
      PROVE  Typed'
  <2>1. UNCHANGED <<rows, born, revisions, script, overtaken, late, skipped>>
    BY <1>1 DEF Begin
  <2>2. /\ req' \in [Reqs -> {Idle} \cup Busy]
        /\ \A q \in Reqs \ {r} : req'[q] = req[q]
        /\ req'[r] # Idle /\ req'[r].pc = pc
        /\ DOMAIN req'[r].data = F
        /\ \A f \in F :
              /\ Genuine(req'[r].data[f], f)
              /\ f = Email => req'[r].data[f].plain \in Emails
    BY <1>0, <1>1, BeginEffect
  <2>3. TypeOK'
    BY <1>0, <2>1, <2>2 DEF TypeOK
  <2>4. Shaped'
    BY <1>0, <1>1, <2>1, <2>2 DEF Shaped, At
  <2> QED
    BY <2>3, <2>4 DEF Typed
<1>2. ASSUME NEW r \in Reqs, Create(r)
      PROVE  Typed'
  <2>1. UNCHANGED <<revisions, script, skipped>> /\ Answered(r)
    BY <1>0, <1>2, CreateEffect DEF Create
  <2>2. CASE UNCHANGED <<rows, born, overtaken, late>>
    <3>1. TypeOK'
      BY <1>0, <2>1, <2>2 DEF TypeOK, Answered
    <3>2. Shaped'
      BY <1>0, <2>1, <2>2, AnsweredTyped DEF Shaped
    <3> QED
      BY <3>1, <3>2 DEF Typed
  <2>3. CASE ~ UNCHANGED <<rows, born, overtaken, late>>
    <3>0. PICK id, data : id = req[r].id /\ data = req[r].data
      OBVIOUS
    <3>1. /\ id \in Ids
          /\ DOMAIN rows' = DOMAIN rows \cup {id}
          /\ rows' \in [DOMAIN rows' -> Row]
          /\ \A i \in DOMAIN rows \ {id} : rows'[i] = rows[i]
          /\ \A f \in Fields : rows'[id].value[f] = data[f] /\ Genuine(data[f], f)
          /\ born' = born \cup {id}
          /\ Written(id, r)
      BY <1>0, <1>2, <2>3, <3>0, CreateEffect
    <3>2. TypeOK'
      BY <1>0, <2>1, <3>1, WrittenTyped DEF TypeOK, Answered
    <3>3. Shaped'
      BY <1>0, <2>1, <3>1, AnsweredTyped DEF Shaped
    <3> QED
      BY <3>2, <3>3 DEF Typed
  <2> QED
    BY <2>2, <2>3
<1>3. ASSUME NEW r \in Reqs, Update(r)
      PROVE  Typed'
  <2>1. UNCHANGED <<born, revisions, script, skipped>> /\ Answered(r)
    BY <1>0, <1>3, UpdateEffect DEF Update
  <2>2. CASE UNCHANGED <<rows, overtaken, late>>
    <3>1. TypeOK'
      BY <1>0, <2>1, <2>2 DEF TypeOK, Answered
    <3>2. Shaped'
      BY <1>0, <2>1, <2>2, AnsweredTyped DEF Shaped
    <3> QED
      BY <3>1, <3>2 DEF Typed
  <2>3. CASE ~ UNCHANGED <<rows, overtaken, late>>
    <3>0. PICK id, data : id = req[r].id /\ data = req[r].data
      OBVIOUS
    <3>1. /\ id \in DOMAIN rows
          /\ DOMAIN rows' = DOMAIN rows
          /\ rows' \in [DOMAIN rows' -> Row]
          /\ \A i \in DOMAIN rows \ {id} : rows'[i] = rows[i]
          /\ \A f \in Fields :
                /\ rows'[id].value[f] = IF f \in DOMAIN data THEN data[f] ELSE rows[id].value[f]
                /\ f \in DOMAIN data => Genuine(data[f], f)
          /\ Written(id, r)
      BY <1>0, <1>3, <2>3, <3>0, UpdateEffect
    <3>2. TypeOK'
      BY <1>0, <2>1, <3>1, WrittenTyped DEF TypeOK, Answered
    <3>3. Shaped'
      BY <1>0, <2>1, <3>1, AnsweredTyped DEF Shaped
    <3> QED
      BY <3>2, <3>3 DEF Typed
  <2> QED
    BY <2>2, <2>3
<1>4. ASSUME NEW r \in Reqs, Fail(r)
      PROVE  Typed'
  <2>1. Answered(r) /\ UNCHANGED <<rows, born, revisions, script, overtaken, late, skipped>>
    BY <1>0, <1>4, AnswerAnswered DEF Fail
  <2>2. TypeOK'
    BY <1>0, <2>1 DEF TypeOK, Answered
  <2>3. Shaped'
    BY <1>0, <2>1, AnsweredTyped DEF Shaped
  <2> QED
    BY <2>2, <2>3 DEF Typed
<1>5. ASSUME NEW id \in Ids, Delete(id)
      PROVE  Typed'
  <2>1. /\ rows' = [i \in DOMAIN rows \ {id} |-> rows[i]]
        /\ overtaken' = overtaken \ ({id} \X Fields)
        /\ UNCHANGED <<born, revisions, req, script, late, skipped>>
    BY <1>5 DEF Delete
  <2>2. TypeOK'
    BY <1>0, <2>1 DEF TypeOK
  <2>3. Shaped'
    BY <1>0, <2>1 DEF Shaped, At
  <2> QED
    BY <2>2, <2>3 DEF Typed
<1>6. ASSUME NEW v \in Revisions, Deploy(v)
      PROVE  Typed'
  <2>1. UNCHANGED <<rows, born, req, script, overtaken, late, skipped>>
        /\ revisions' = revisions \cup {v}
    BY <1>6 DEF Deploy
  <2>2. TypeOK'
    BY <1>0, <2>1 DEF TypeOK
  <2>3. Shaped'
    BY <1>0, <2>1 DEF Shaped, At
  <2> QED
    BY <2>2, <2>3 DEF Typed
<1>7. ASSUME NEW v \in Revisions, Retire(v)
      PROVE  Typed'
  <2>1. /\ UNCHANGED <<rows, born, req, script, overtaken, late, skipped>>
        /\ revisions' = revisions \ {v} /\ v # Newest
    BY <1>7 DEF Retire
  <2>2. Newest \in revisions'
    BY <1>0, <2>1, NewestIs
  <2>3. TypeOK'
    BY <1>0, <2>1, <2>2 DEF TypeOK
  <2>4. Shaped'
    BY <1>0, <2>1 DEF Shaped, At
  <2> QED
    BY <2>3, <2>4 DEF Typed
<1>8. CASE StartScript
  <2> DEFINE none == [i \in {} |-> {}]
  <2>1. none \in [{} -> [Fields -> Value]] /\ DOMAIN none = {}
    OBVIOUS
  <2>2. none \in UNION {[I -> [Fields -> Value]] : I \in SUBSET Ids}
    BY <2>1
  <2>3. /\ script' = [pc |-> "find", cursor |-> 0, todo |-> none]
        /\ late' = {} /\ skipped' = {}
        /\ UNCHANGED <<rows, born, revisions, req, overtaken>>
    BY <1>8 DEF StartScript
  <2> HIDE DEF none
  <2>4. script' \in Script
    BY <2>2, <2>3 DEF Script
  <2>5. TypeOK'
    BY <1>0, <2>3, <2>4 DEF TypeOK
  <2>6. Shaped'
    BY <1>0, <2>1, <2>3 DEF Shaped, At
  <2> QED
    BY <2>5, <2>6 DEF Typed
<1>9. CASE FindMany
  <2>1. UNCHANGED <<rows, born, revisions, req, overtaken, late>>
    BY <1>9 DEF FindMany
  <2>2. script' \in Script /\ skipped' \subseteq Ids
    BY <1>0, <1>9, FindManyEffect
  <2>3. TypeOK'
    BY <1>0, <2>1, <2>2 DEF TypeOK
  <2>4. /\ \A i \in DOMAIN script'.todo, f \in Fields : Genuine(script'.todo[i][f], f)
        /\ script'.pc = "update" => DOMAIN script'.todo # {}
        /\ script'.pc = "find" => DOMAIN script'.todo = {}
    BY <1>0, <1>9, FindManyEffect DEF Shaped
  <2>5. Shaped'
    BY <1>0, <2>1, <2>4 DEF Shaped, At
  <2> QED
    BY <2>3, <2>5 DEF Typed
<1>10. CASE UpdateRow
  <2>1. UNCHANGED <<born, revisions, req, late, skipped>>
    BY <1>10 DEF UpdateRow
  <2>2. /\ script' \in Script
        /\ DOMAIN rows' = DOMAIN rows /\ rows' \in [DOMAIN rows' -> Row]
        /\ overtaken' \subseteq Ids \X Fields
    BY <1>0, <1>10, UpdateRowEffect DEF TypeOK
  <2>3. TypeOK'
    BY <1>0, <2>1, <2>2 DEF TypeOK
  <2>4. /\ \A i \in DOMAIN script'.todo, f \in Fields : Genuine(script'.todo[i][f], f)
        /\ script'.pc = "update" => DOMAIN script'.todo # {}
        /\ script'.pc = "find" => DOMAIN script'.todo = {}
    BY <1>0, <1>10, UpdateRowEffect DEF Shaped
  <2>5. \A i \in DOMAIN rows', f \in Fields : Genuine(rows'[i].value[f], f)
    BY <1>0, <1>10, UpdateRowEffect DEF Shaped
  <2>6. Shaped'
    BY <1>0, <2>1, <2>4, <2>5 DEF Shaped, At
  <2> QED
    BY <2>3, <2>6 DEF Typed
<1>11. CASE ScriptFails
  <2>1. /\ script' = [script EXCEPT !.pc = "failed"] /\ script \in Script
        /\ UNCHANGED <<rows, born, revisions, req, overtaken, late, skipped>>
    BY <1>0, <1>11 DEF ScriptFails, TypeOK
  <2>2. script' \in Script /\ script'.pc = "failed" /\ script'.todo = script.todo
    BY <2>1 DEF Script
  <2>3. TypeOK'
    BY <1>0, <2>1, <2>2 DEF TypeOK
  <2>4. Shaped'
    BY <1>0, <2>1, <2>2 DEF Shaped, At
  <2> QED
    BY <2>3, <2>4 DEF Typed
<1>12. CASE UNCHANGED vars
  BY <1>0, <1>12 DEF vars, TypeOK, Shaped, Typed, At
<1>13. {Email} \in SUBSET Fields /\ Fields \in SUBSET Fields
  BY KeyRotationAssumption
<1> QED
  BY <1>1, <1>2, <1>3, <1>4, <1>5, <1>6, <1>7, <1>8,
     <1>9, <1>10, <1>11, <1>12, <1>13 DEF Next, BeginCreate, BeginUpdate

\* Every state of every rotation is well typed.
THEOREM TypeCorrect == Spec => []TypeOK
<1>1. Typed => TypeOK
  BY DEF Typed
<1> QED
  BY <1>1, TypedInit, TypedNext, PTL DEF Spec

-----------------------------------------------------------------------------
(* What the owners wrote *)

\* DataIsTheOwners, in terms of what the values are made of.
OwnersData ==
    \A i \in DOMAIN rows :
        /\ rows[i].emailHash = rows[i].chosen[Email]
        /\ \A f \in Fields : \/ rows[i].value[f].plain = rows[i].chosen[f]
                             \/ <<i, f>> \in overtaken

\* The invariant over values is the property over what they decrypt to.
LEMMA OwnersDataReads ==
    ASSUME Typed
    PROVE  OwnersData <=> DataIsTheOwners
<1>1. ASSUME NEW i \in DOMAIN rows, NEW f \in Fields
      PROVE  Decrypt(Keys[Both], rows[i].value[f], f) = rows[i].value[f].plain
  <2>1. Genuine(rows[i].value[f], f)
    BY DEF Typed, Shaped
  <2>2. Both \in Revisions /\ Both # Before /\ Both # After
    BY DEF Revisions, Before, Both, After
  <2> QED
    BY <2>1, <2>2, DecryptReads
<1> QED
  BY <1>1 DEF OwnersData, DataIsTheOwners

\* Initially: that values are their owners'.
LEMMA OwnersDataInit == Init => OwnersData
BY DEF Init, OwnersData

\* Every step keeps that values are their owners'.
LEMMA OwnersDataNext == Typed /\ OwnersData /\ [Next]_vars => OwnersData'
<1> SUFFICES ASSUME Typed, OwnersData, [Next]_vars PROVE OwnersData'
  OBVIOUS
<1>0. TypeOK /\ Shaped /\ Email \in Fields
  BY KeyRotationAssumption DEF Typed
<1>1. ASSUME NEW r \in Reqs, NEW pc \in {"create", "update"}, NEW id \in Ids,
             NEW F \in SUBSET Fields, NEW data \in Inputs(F), Begin(r, pc, id, data),
             pc = "create" => F = Fields
      PROVE  OwnersData'
  <2>1. UNCHANGED <<rows, overtaken>>
    BY <1>1 DEF Begin
  <2> QED
    BY <2>1 DEF OwnersData
<1>2. ASSUME NEW r \in Reqs, Create(r)
      PROVE  OwnersData'
  <2>1. CASE UNCHANGED <<rows, overtaken>>
    BY <2>1 DEF OwnersData
  <2>2. CASE ~ UNCHANGED <<rows, overtaken>>
    <3>0. PICK id, data : id = req[r].id /\ data = req[r].data
      OBVIOUS
    <3>1. /\ DOMAIN rows' = DOMAIN rows \cup {id}
          /\ \A i \in DOMAIN rows \ {id} : rows'[i] = rows[i]
          /\ rows'[id].emailHash = data[Email].plain
          /\ \A f \in Fields : /\ rows'[id].value[f] = data[f]
                               /\ rows'[id].chosen[f] = data[f].plain
          /\ Written(id, r)
      BY <1>0, <1>2, <2>2, <3>0, CreateEffect
    <3>2. overtaken' = overtaken \ ({id} \X DOMAIN data)
      BY <3>0, <3>1 DEF Written
    <3> QED
      BY <1>0, <3>1, <3>2 DEF OwnersData
  <2> QED
    BY <2>1, <2>2
<1>3. ASSUME NEW r \in Reqs, Update(r)
      PROVE  OwnersData'
  <2>1. CASE UNCHANGED <<rows, overtaken>>
    BY <2>1 DEF OwnersData
  <2>2. CASE ~ UNCHANGED <<rows, overtaken>>
    <3>0. PICK id, data : id = req[r].id /\ data = req[r].data
      OBVIOUS
    <3>1. /\ id \in DOMAIN rows /\ DOMAIN rows' = DOMAIN rows
          /\ \A i \in DOMAIN rows \ {id} : rows'[i] = rows[i]
          /\ rows'[id].emailHash = IF Email \in DOMAIN data THEN data[Email].plain
                                                            ELSE rows[id].emailHash
          /\ \A f \in Fields :
                /\ rows'[id].value[f] = IF f \in DOMAIN data THEN data[f] ELSE rows[id].value[f]
                /\ rows'[id].chosen[f] = IF f \in DOMAIN data THEN data[f].plain
                                                              ELSE rows[id].chosen[f]
          /\ Written(id, r)
      BY <1>0, <1>3, <2>2, <3>0, UpdateEffect
    <3>2. overtaken' = overtaken \ ({id} \X DOMAIN data)
      BY <3>0, <3>1 DEF Written
    <3> QED
      BY <1>0, <3>1, <3>2 DEF OwnersData
  <2> QED
    BY <2>1, <2>2
<1>4. ASSUME NEW r \in Reqs, Fail(r)
      PROVE  OwnersData'
  <2>1. UNCHANGED <<rows, overtaken>>
    BY <1>4 DEF Fail
  <2> QED
    BY <2>1 DEF OwnersData
<1>5. ASSUME NEW id \in Ids, Delete(id)
      PROVE  OwnersData'
  <2>1. /\ rows' = [i \in DOMAIN rows \ {id} |-> rows[i]]
        /\ overtaken' = overtaken \ ({id} \X Fields)
    BY <1>5 DEF Delete
  <2> QED
    BY <2>1 DEF OwnersData
<1>6. ASSUME NEW v \in Revisions, Deploy(v)
      PROVE  OwnersData'
  <2>1. UNCHANGED <<rows, overtaken>>
    BY <1>6 DEF Deploy
  <2> QED
    BY <2>1 DEF OwnersData
<1>7. ASSUME NEW v \in Revisions, Retire(v)
      PROVE  OwnersData'
  <2>1. UNCHANGED <<rows, overtaken>>
    BY <1>7 DEF Retire
  <2> QED
    BY <2>1 DEF OwnersData
<1>8. CASE StartScript
  <2>1. UNCHANGED <<rows, overtaken>>
    BY <1>8 DEF StartScript
  <2> QED
    BY <2>1 DEF OwnersData
<1>9. CASE FindMany
  <2>1. UNCHANGED <<rows, overtaken>>
    BY <1>9 DEF FindMany
  <2> QED
    BY <2>1 DEF OwnersData
<1>10. CASE UpdateRow
  <2>1. CASE UNCHANGED <<rows, overtaken>>
    BY <2>1 DEF OwnersData
  <2>2. CASE ~ UNCHANGED <<rows, overtaken>>
    <3>0. PICK n : n = NextId
      OBVIOUS
    <3>1. /\ n \in DOMAIN rows /\ DOMAIN rows' = DOMAIN rows
          /\ \A i \in DOMAIN rows \ {n} : rows'[i] = rows[i]
          /\ rows'[n].emailHash = rows[n].emailHash
          /\ rows'[n].chosen = rows[n].chosen
          /\ overtaken \subseteq overtaken'
          /\ \A f \in Fields :
                \/ rows'[n].value[f] = rows[n].value[f]
                \/ rows'[n].value[f].plain = rows[n].value[f].plain
                \/ <<n, f>> \in overtaken'
      BY <1>0, <1>10, <2>2, <3>0, UpdateRowEffect
    <3> QED
      BY <1>0, <3>1 DEF OwnersData
  <2> QED
    BY <2>1, <2>2
<1>11. CASE ScriptFails
  <2>1. UNCHANGED <<rows, overtaken>>
    BY <1>11 DEF ScriptFails
  <2> QED
    BY <2>1 DEF OwnersData
<1>12. CASE UNCHANGED vars
  BY <1>12 DEF vars, OwnersData
<1>13. {Email} \in SUBSET Fields /\ Fields \in SUBSET Fields
  BY KeyRotationAssumption
<1> QED
  BY <1>1, <1>2, <1>3, <1>4, <1>5, <1>6, <1>7, <1>8,
     <1>9, <1>10, <1>11, <1>12, <1>13 DEF Next, BeginCreate, BeginUpdate

\* The data of the accounts survives the rotation: a column decrypts to what its
\* owner last wrote, whichever of the script, the two revisions and the requests wrote
\* it, except a column that changed between the script's read of it and its write.
THEOREM DataKept == Spec => []DataIsTheOwners
<1>1. Init => Typed /\ OwnersData
  BY TypedInit, OwnersDataInit
<1>2. Typed /\ OwnersData /\ [Next]_vars => (Typed /\ OwnersData)'
  BY TypedNext, OwnersDataNext
<1>3. Typed /\ OwnersData => DataIsTheOwners
  BY OwnersDataReads
<1> QED
  BY <1>1, <1>2, <1>3, PTL DEF Spec

-----------------------------------------------------------------------------
(* What the script reaches *)

\* Every column of the row i is under the new key.
AllNew(i) == \A f \in Fields : rows[i].value[f].version = New

\* Up to its cursor the script has left behind rows that are under the new key, rows
\* it is about to write, and those that history excepts; and of a row that it is about
\* to write, the columns it will not write are under the new key already.
Reached ==
    /\ Running =>
          /\ DOMAIN script.todo \subseteq born
          /\ \A i \in DOMAIN script.todo : i <= script.cursor
          /\ \A i \in DOMAIN rows \ (late \cup skipped) :
                i <= script.cursor /\ i \notin DOMAIN script.todo => AllNew(i)
          /\ \A i \in (DOMAIN rows \cap DOMAIN script.todo) \ late, f \in Fields :
                script.todo[i][f].version = New => rows[i].value[f].version = New
    /\ script.pc = "done" => \A i \in DOMAIN rows \ (late \cup skipped) : AllNew(i)

\* Initially: what the script has reached.
LEMMA ReachedInit == Init => Reached
BY DEF Init, Reached, Running

\* A write of the API to the row id.
Touched(id, data) ==
    /\ id \in DOMAIN rows'
    /\ DOMAIN rows' = DOMAIN rows \cup {id}
    /\ \A i \in DOMAIN rows \ {id} : rows'[i] = rows[i]
    /\ \A f \in Fields : rows'[id].value[f] = IF f \in DOMAIN data THEN data[f]
                                                                   ELSE rows[id].value[f]
    /\ \A f \in DOMAIN data : Genuine(data[f], f)
    /\ id \in DOMAIN rows \/ (DOMAIN data = Fields /\ id \notin born)

\* A write of the API keeps what the script has reached, or is noted as
\* overtaken or late.
LEMMA TouchedReached ==
    ASSUME Typed, Reached, NEW r \in Reqs, NEW id, NEW data,
           id = req[r].id, data = req[r].data, id \in Ids,
           Touched(id, data), Written(id, r), born \subseteq born',
           UNCHANGED <<script, skipped>>
    PROVE  Reached'
<1>1. CASE \E f \in DOMAIN data : data[f].version = Old
  <2>1. late' = IF script.pc = "done" \/ (Running /\ id <= script.cursor)
                  THEN late \cup {id} ELSE late
    BY <1>1 DEF Written
  <2>2. CASE script.pc = "done"
    BY <2>1, <2>2 DEF Reached, AllNew, Touched, Running
  <2>3. CASE Running /\ id <= script.cursor
    <3>1. late' = late \cup {id} /\ script.pc # "done"
      BY <2>1, <2>3 DEF Running
    <3> QED
      BY <2>3, <3>1 DEF Reached, AllNew, Touched, Running
  <2>4. CASE Running /\ ~ (id <= script.cursor)
    <3>1. late' = late /\ script.pc # "done" /\ id \notin DOMAIN script.todo
      BY <2>1, <2>4 DEF Running, Reached
    <3> QED
      BY <2>4, <3>1 DEF Reached, AllNew, Touched, Running
  <2>5. CASE ~ Running /\ script.pc # "done"
    BY <2>5 DEF Reached, Running
  <2> QED
    BY <2>2, <2>3, <2>4, <2>5
<1>2. CASE \A f \in DOMAIN data : data[f].version # Old
  <2>1. late' = late
    BY <1>2 DEF Written
  <2>2. \A f \in DOMAIN data : data[f].version = New
    BY <1>2 DEF Touched, Genuine, Value
  <2>3. \A f \in Fields : \/ rows'[id].value[f].version = New
                          \/ id \in DOMAIN rows /\ rows'[id].value[f] = rows[id].value[f]
    BY <2>2 DEF Touched
  <2>4. id \notin DOMAIN rows => AllNew(id)' /\ id \notin born
    BY <2>2 DEF Touched, AllNew
  <2>5. id \in DOMAIN rows /\ AllNew(id) => AllNew(id)'
    BY <2>3 DEF AllNew
  <2>6. \A i \in DOMAIN rows \ {id} : AllNew(i) => AllNew(i)'
    BY DEF Touched, AllNew
  <2>7. DOMAIN rows' = DOMAIN rows \cup {id} /\ \A i \in DOMAIN rows \ {id} : rows'[i] = rows[i]
    BY DEF Touched
  <2>8. script.pc = "done" => \A i \in DOMAIN rows' \ (late' \cup skipped') : AllNew(i)'
    BY <2>1, <2>4, <2>5, <2>6, <2>7 DEF Reached
  <2>9. Running =>
          /\ DOMAIN script.todo \subseteq born'
          /\ \A i \in DOMAIN script.todo : i <= script.cursor
          /\ \A i \in DOMAIN rows' \ (late' \cup skipped') :
                i <= script.cursor /\ i \notin DOMAIN script.todo => AllNew(i)'
    BY <2>1, <2>4, <2>5, <2>6, <2>7 DEF Reached
  <2>10. ASSUME Running, NEW i \in (DOMAIN rows' \cap DOMAIN script.todo) \ late', NEW f \in Fields,
                script.todo[i][f].version = New
         PROVE  rows'[i].value[f].version = New
    <3>1. i \in DOMAIN rows
      BY <2>4, <2>7, <2>10 DEF Reached
    <3>2. rows[i].value[f].version = New
      BY <2>1, <2>10, <3>1 DEF Reached
    <3> QED
      BY <2>3, <2>7, <3>1, <3>2
  <2> QED
    BY <2>8, <2>9, <2>10 DEF Reached, Running
<1> QED
  BY <1>1, <1>2

\* Every step keeps what the script has reached.
LEMMA ReachedNext == Typed /\ Reached /\ [Next]_vars => Reached'
<1> SUFFICES ASSUME Typed, Reached, [Next]_vars PROVE Reached'
  OBVIOUS
<1>0. TypeOK /\ Shaped
  BY DEF Typed
<1>1. ASSUME NEW r \in Reqs, NEW pc \in {"create", "update"}, NEW id \in Ids,
             NEW F \in SUBSET Fields, NEW data \in Inputs(F), Begin(r, pc, id, data),
             pc = "create" => F = Fields
      PROVE  Reached'
  <2>1. UNCHANGED <<rows, born, script, late, skipped>>
    BY <1>1 DEF Begin
  <2> QED
    BY <2>1 DEF Reached, Running, AllNew
<1>2. ASSUME NEW r \in Reqs, Create(r)
      PROVE  Reached'
  <2>1. UNCHANGED <<script, skipped>>
    BY <1>2 DEF Create
  <2>2. CASE UNCHANGED <<rows, born, late>>
    BY <2>1, <2>2 DEF Reached, Running, AllNew
  <2>3. CASE ~ UNCHANGED <<rows, born, late>>
    <3>0. PICK id, data : id = req[r].id /\ data = req[r].data
      OBVIOUS
    <3>1. /\ id \in Ids \ born /\ data \in [Fields -> Value]
          /\ DOMAIN rows' = DOMAIN rows \cup {id}
          /\ \A i \in DOMAIN rows \ {id} : rows'[i] = rows[i]
          /\ \A f \in Fields : rows'[id].value[f] = data[f] /\ Genuine(data[f], f)
          /\ born' = born \cup {id}
          /\ Written(id, r)
      BY <1>0, <1>2, <2>3, <3>0, CreateEffect
    <3>2. Touched(id, data) /\ born \subseteq born'
      BY <3>1 DEF Touched
    <3> QED
      BY <2>1, <3>0, <3>1, <3>2, TouchedReached
  <2> QED
    BY <2>2, <2>3
<1>3. ASSUME NEW r \in Reqs, Update(r)
      PROVE  Reached'
  <2>1. UNCHANGED <<born, script, skipped>>
    BY <1>3 DEF Update
  <2>2. CASE UNCHANGED <<rows, late>>
    BY <2>1, <2>2 DEF Reached, Running, AllNew
  <2>3. CASE ~ UNCHANGED <<rows, late>>
    <3>0. PICK id, data : id = req[r].id /\ data = req[r].data
      OBVIOUS
    <3>1. req[r] \in Busy /\ req[r] # Idle
      BY <1>0, <1>3 DEF Update, At, TypeOK
    <3>2. id \in Ids /\ DOMAIN data \in SUBSET Fields /\ \A f \in DOMAIN data : Genuine(data[f], f)
      BY <1>0, <3>0, <3>1, BusyRecord DEF Shaped
    <3>3. /\ id \in DOMAIN rows /\ DOMAIN rows' = DOMAIN rows
          /\ \A i \in DOMAIN rows \ {id} : rows'[i] = rows[i]
          /\ \A f \in Fields : rows'[id].value[f] = IF f \in DOMAIN data THEN data[f]
                                                                         ELSE rows[id].value[f]
          /\ Written(id, r)
      BY <1>0, <1>3, <2>3, <3>0, UpdateEffect
    <3>4. Touched(id, data)
      BY <3>2, <3>3 DEF Touched
    <3> QED
      BY <2>1, <3>0, <3>2, <3>3, <3>4, TouchedReached
  <2> QED
    BY <2>2, <2>3
<1>4. ASSUME NEW r \in Reqs, Fail(r)
      PROVE  Reached'
  <2>1. UNCHANGED <<rows, born, script, late, skipped>>
    BY <1>4 DEF Fail
  <2> QED
    BY <2>1 DEF Reached, Running, AllNew
<1>5. ASSUME NEW id \in Ids, Delete(id)
      PROVE  Reached'
  <2>1. /\ rows' = [i \in DOMAIN rows \ {id} |-> rows[i]]
        /\ UNCHANGED <<born, script, late, skipped>>
    BY <1>5 DEF Delete
  <2> QED
    BY <2>1 DEF Reached, Running, AllNew
<1>6. ASSUME NEW v \in Revisions, Deploy(v)
      PROVE  Reached'
  <2>1. UNCHANGED <<rows, born, script, late, skipped>>
    BY <1>6 DEF Deploy
  <2> QED
    BY <2>1 DEF Reached, Running, AllNew
<1>7. ASSUME NEW v \in Revisions, Retire(v)
      PROVE  Reached'
  <2>1. UNCHANGED <<rows, born, script, late, skipped>>
    BY <1>7 DEF Retire
  <2> QED
    BY <2>1 DEF Reached, Running, AllNew
<1>8. CASE StartScript
  <2>1. /\ script'.pc = "find" /\ script'.cursor = 0 /\ DOMAIN script'.todo = {}
        /\ UNCHANGED <<rows, born>>
    BY <1>8 DEF StartScript
  <2>2. \A i \in DOMAIN rows : i \in Nat /\ ~ (i <= 0)
    BY <1>0, KeyRotationAssumption DEF TypeOK
  <2> QED
    BY <2>1, <2>2 DEF Reached, Running
<1>9. CASE FindMany
  <2>1. UNCHANGED <<rows, born, late>> /\ script.pc = "find" /\ DOMAIN script.todo = {}
    BY <1>0, <1>9 DEF FindMany, Shaped
  <2>2. Running /\ script.pc # "done"
    BY <2>1 DEF Running
  <2>3. script.cursor \in Nat /\ DOMAIN rows \in SUBSET Nat /\ DOMAIN rows \subseteq born
    BY <1>0, ScriptRecord, KeyRotationAssumption DEF TypeOK
  <2>4. skipped \subseteq skipped'
    BY <1>0, <1>9, FindManyEffect
  <2>5. CASE script'.pc = "done"
    <3>1. \A i \in DOMAIN rows : i > script.cursor => i \in skipped'
      BY <1>0, <1>9, <2>5, FindManyEffect
    <3>2. \A i \in DOMAIN rows : i > script.cursor \/ i <= script.cursor
      BY <2>3
    <3>3. \A i \in DOMAIN rows \ (late \cup skipped) : i <= script.cursor => AllNew(i)
      BY <2>1, <2>2 DEF Reached
    <3>4. \A i \in DOMAIN rows : AllNew(i)' <=> AllNew(i)
      BY <2>1 DEF AllNew
    <3> QED
      BY <2>1, <2>4, <2>5, <3>1, <3>2, <3>3, <3>4 DEF Reached, Running
  <2>6. CASE script'.pc # "done"
    <3>1. /\ DOMAIN script'.todo \subseteq DOMAIN rows
          /\ \A i \in DOMAIN script'.todo : script'.todo[i] = rows[i].value /\ i <= script'.cursor
          /\ \A i \in DOMAIN rows :
                script.cursor < i /\ i <= script'.cursor =>
                   \/ i \in skipped' \cup DOMAIN script'.todo
                   \/ \A f \in Fields : rows[i].value[f].version = New
      BY <1>0, <1>9, <2>6, FindManyEffect
    <3>2. \A i \in DOMAIN rows : script.cursor < i \/ i <= script.cursor
      BY <2>3
    <3>3. \A i \in DOMAIN rows \ (late \cup skipped) : i <= script.cursor => AllNew(i)
      BY <2>1, <2>2 DEF Reached
    <3>4. \A i \in DOMAIN rows : AllNew(i)' <=> AllNew(i)
      BY <2>1 DEF AllNew
    <3>5. \A i \in DOMAIN rows \ (late \cup skipped') :
             i <= script'.cursor /\ i \notin DOMAIN script'.todo => AllNew(i)'
      BY <2>4, <3>1, <3>2, <3>3, <3>4 DEF AllNew
    <3> QED
      BY <2>1, <2>3, <2>6, <3>1, <3>5 DEF Reached
  <2> QED
    BY <2>5, <2>6
<1>10. CASE UpdateRow
  <2>1. UNCHANGED <<born, late, skipped>> /\ script.pc = "update"
    BY <1>10 DEF UpdateRow
  <2>2. Running
    BY <2>1 DEF Running
  <2>3. CASE script'.pc = "failed"
    BY <2>3 DEF Reached, Running
  <2>4. CASE script'.pc # "failed"
    <3>0. PICK n : n = NextId
      OBVIOUS
    <3>1. /\ n \in DOMAIN rows /\ DOMAIN rows' = DOMAIN rows
          /\ \A i \in DOMAIN rows \ {n} : rows'[i] = rows[i]
          /\ \A f \in Fields :
                IF script.todo[n][f].version = New
                  THEN rows'[n].value[f] = rows[n].value[f]
                  ELSE rows'[n].value[f].version = New
          /\ DOMAIN script'.todo = DOMAIN script.todo \ {n}
          /\ \A i \in DOMAIN script'.todo : script'.todo[i] = script.todo[i]
          /\ script'.cursor = script.cursor
          /\ script'.pc \in {"find", "update"}
          /\ n \in DOMAIN script.todo
      BY <1>0, <1>10, <2>4, <3>0, UpdateRowEffect
    <3>2. n \notin late => AllNew(n)'
      BY <2>2, <3>1 DEF Reached, AllNew
    <3>3. \A i \in DOMAIN rows \ {n} : AllNew(i)' <=> AllNew(i)
      BY <3>1 DEF AllNew
    <3>4. \A i \in DOMAIN rows' \ (late' \cup skipped') :
             i <= script'.cursor /\ i \notin DOMAIN script'.todo => AllNew(i)'
      BY <2>1, <2>2, <3>1, <3>2, <3>3 DEF Reached
    <3>5. /\ DOMAIN script'.todo \subseteq born'
          /\ \A i \in DOMAIN script'.todo : i <= script'.cursor
          /\ \A i \in (DOMAIN rows' \cap DOMAIN script'.todo) \ late', f \in Fields :
                script'.todo[i][f].version = New => rows'[i].value[f].version = New
      BY <2>1, <2>2, <3>1 DEF Reached
    <3> QED
      BY <3>1, <3>4, <3>5 DEF Reached
  <2> QED
    BY <2>3, <2>4
<1>11. CASE ScriptFails
  <2>1. script'.pc = "failed"
    BY <1>0, <1>11 DEF ScriptFails, TypeOK, Script
  <2> QED
    BY <2>1 DEF Reached, Running
<1>12. CASE UNCHANGED vars
  BY <1>12 DEF vars, Reached, Running, AllNew
<1>13. {Email} \in SUBSET Fields /\ Fields \in SUBSET Fields
  BY KeyRotationAssumption
<1> QED
  BY <1>1, <1>2, <1>3, <1>4, <1>5, <1>6, <1>7, <1>8,
     <1>9, <1>10, <1>11, <1>12, <1>13 DEF Next, BeginCreate, BeginUpdate

\* A run of the script that says it is done leaves every account under the new key
\* alone, but for the rows an old revision wrote behind its cursor and the ones it
\* skipped because the row of its cursor was deleted.
THEOREM RunReaches == Spec => []RunReachesEveryRow
<1>1. Init => Typed /\ Reached
  BY TypedInit, ReachedInit
<1>2. Typed /\ Reached /\ [Next]_vars => (Typed /\ Reached)'
  BY TypedNext, ReachedNext
<1>3. Reached => RunReachesEveryRow
  BY DEF Reached, RunReachesEveryRow, AllNew
<1> QED
  BY <1>1, <1>2, <1>3, PTL DEF Spec

-----------------------------------------------------------------------------
(* The stages of the rotation *)

\* Nothing was written yet, or is about to be, under the new key.
StillOld ==
    /\ \A i \in DOMAIN rows, f \in Fields : rows[i].value[f].version = Old
    /\ \A r \in Reqs : req[r] # Idle =>
          \A f \in DOMAIN req[r].data : req[r].data[f].version = Old

\* The revisions follow one another, two at a time at most; the new key is not used
\* before the second one, and the third waits for the script to have succeeded.
Stages ==
    /\ Both \notin revisions /\ After \notin revisions => script.pc = "off" /\ StillOld
    /\ After \in revisions => script.pc = "done"
    /\ Before \in revisions => After \notin revisions

\* Initially: the stages of a rotation.
LEMMA StagesInit == Init => Stages
BY DEF Init, Stages, StillOld, Before, Both, After

\* What a request writes under the old key leaves everything under the old key.
LEMMA StillOldKept ==
    ASSUME StillOld, NEW r \in Reqs, req[r] # Idle, Answered(r), NEW id, NEW data,
           data = req[r].data,
           DOMAIN rows' \subseteq DOMAIN rows \cup {id},
           \A i \in DOMAIN rows \ {id} : rows'[i] = rows[i],
           \A f \in Fields :
              \/ f \in DOMAIN data /\ rows'[id].value[f] = data[f]
              \/ id \in DOMAIN rows /\ rows'[id].value[f] = rows[id].value[f]
    PROVE  StillOld'
<1>1. \A f \in DOMAIN data : data[f].version = Old
  BY DEF StillOld
<1>2. \A i \in DOMAIN rows', f \in Fields : rows'[i].value[f].version = Old
  BY <1>1 DEF StillOld
<1>3. \A q \in Reqs : req'[q] = Idle \/ req'[q] = req[q]
  BY DEF Answered
<1> QED
  BY <1>2, <1>3 DEF StillOld

\* One element is all of a set of cardinality 1.
LEMMA OneRevision ==
    ASSUME TypeOK, Cardinality(revisions) = 1
    PROVE  \E w : revisions = {w}
<1>1. IsFiniteSet(Revisions)
  <2>1. IsFiniteSet({}) /\ Revisions = (({} \cup {Before}) \cup {Both}) \cup {After}
    BY FS_EmptySet DEF Revisions
  <2> QED
    BY <2>1, FS_AddElement
<1>2. IsFiniteSet(revisions)
  BY <1>1, FS_Subset DEF TypeOK
<1> QED
  BY <1>2, FS_Singleton

\* Every step keeps the stages of a rotation.
LEMMA StagesNext == Typed /\ Stages /\ [Next]_vars => Stages'
<1> SUFFICES ASSUME Typed, Stages, [Next]_vars PROVE Stages'
  OBVIOUS
<1>0. TypeOK /\ Shaped
  BY DEF Typed
<1>a. Before = 1 /\ Both = 2 /\ After = 3
  BY DEF Before, Both, After
<1>1. ASSUME NEW r \in Reqs, NEW pc \in {"create", "update"}, NEW id \in Ids,
             NEW F \in SUBSET Fields, NEW data \in Inputs(F), Begin(r, pc, id, data),
             pc = "create" => F = Fields
      PROVE  Stages'
  <2>1. UNCHANGED <<rows, revisions, script>>
    BY <1>1 DEF Begin
  <2>2. ASSUME Both \notin revisions, After \notin revisions
        PROVE  StillOld'
    <3>1. PICK v \in revisions : \A f \in F :
             req'[r].data[f].version = IF v = Before THEN Old ELSE New
      BY <1>0, <1>1, BeginEffect
    <3>2. v = Before
      BY <1>0, <2>2 DEF TypeOK, Revisions
    <3>3. /\ DOMAIN req'[r].data = F
          /\ \A q \in Reqs \ {r} : req'[q] = req[q]
      BY <1>0, <1>1, BeginEffect
    <3>4. StillOld
      BY <2>2 DEF Stages
    <3> QED
      BY <2>1, <3>1, <3>2, <3>3, <3>4 DEF StillOld
  <2> QED
    BY <2>1, <2>2 DEF Stages
<1>2. ASSUME NEW r \in Reqs, Create(r)
      PROVE  Stages'
  <2>1. UNCHANGED <<revisions, script>> /\ req[r] # Idle
    BY <1>2 DEF Create, At
  <2>2. StillOld => StillOld'
    <3>0. PICK id, data : id = req[r].id /\ data = req[r].data
      OBVIOUS
    <3>1. /\ Answered(r)
          /\ \/ UNCHANGED rows
             \/ /\ DOMAIN rows' = DOMAIN rows \cup {id}
                /\ DOMAIN data = Fields
                /\ \A i \in DOMAIN rows \ {id} : rows'[i] = rows[i]
                /\ \A f \in Fields : rows'[id].value[f] = data[f]
      BY <1>0, <1>2, <3>0, CreateEffect
    <3>2. CASE UNCHANGED rows
      BY <3>1, <3>2 DEF StillOld, Answered
    <3>3. CASE ~ UNCHANGED rows
      BY <2>1, <3>0, <3>1, <3>3, StillOldKept
    <3> QED
      BY <3>2, <3>3
  <2> QED
    BY <2>1, <2>2 DEF Stages
<1>3. ASSUME NEW r \in Reqs, Update(r)
      PROVE  Stages'
  <2>1. UNCHANGED <<revisions, script>> /\ req[r] # Idle
    BY <1>3 DEF Update, At
  <2>2. StillOld => StillOld'
    <3>0. PICK id, data : id = req[r].id /\ data = req[r].data
      OBVIOUS
    <3>1. /\ Answered(r)
          /\ \/ UNCHANGED rows
             \/ /\ id \in DOMAIN rows /\ DOMAIN rows' = DOMAIN rows
                /\ \A i \in DOMAIN rows \ {id} : rows'[i] = rows[i]
                /\ \A f \in Fields :
                      rows'[id].value[f] = IF f \in DOMAIN data THEN data[f]
                                                                ELSE rows[id].value[f]
      BY <1>0, <1>3, <3>0, UpdateEffect
    <3>2. CASE UNCHANGED rows
      BY <3>1, <3>2 DEF StillOld, Answered
    <3>3. CASE ~ UNCHANGED rows
      BY <2>1, <3>0, <3>1, <3>3, StillOldKept
    <3> QED
      BY <3>2, <3>3
  <2> QED
    BY <2>1, <2>2 DEF Stages
<1>4. ASSUME NEW r \in Reqs, Fail(r)
      PROVE  Stages'
  <2>1. UNCHANGED <<rows, revisions, script>> /\ Answered(r)
    BY <1>0, <1>4, AnswerAnswered DEF Fail
  <2> QED
    BY <2>1 DEF Stages, StillOld, Answered
<1>5. ASSUME NEW id \in Ids, Delete(id)
      PROVE  Stages'
  <2>1. /\ rows' = [i \in DOMAIN rows \ {id} |-> rows[i]]
        /\ UNCHANGED <<revisions, script, req>>
    BY <1>5 DEF Delete
  <2> QED
    BY <2>1 DEF Stages, StillOld
<1>6. ASSUME NEW v \in Revisions, Deploy(v)
      PROVE  Stages'
  <2>1. /\ UNCHANGED <<rows, req, script>>
        /\ revisions' = revisions \cup {v} /\ v = Newest + 1
        /\ v = After => script.pc = "done"
        /\ Cardinality(revisions) = 1
    BY <1>6 DEF Deploy
  <2>2. PICK w : revisions = {w}
    BY <1>0, <2>1, OneRevision
  <2>3. w = Newest /\ Newest \in {1, 2, 3} /\ v \in {1, 2, 3}
    BY <1>0, <1>a, <2>2, NewestIs DEF Revisions
  <2>4. v = w + 1 /\ w \in {1, 2}
    BY <2>1, <2>3
  <2>5. CASE w = 1
    BY <1>a, <2>1, <2>2, <2>4, <2>5 DEF Stages
  <2>6. CASE w = 2
    BY <1>a, <2>1, <2>2, <2>4, <2>6 DEF Stages
  <2> QED
    BY <2>4, <2>5, <2>6
<1>7. ASSUME NEW v \in Revisions, Retire(v)
      PROVE  Stages'
  <2>1. /\ UNCHANGED <<rows, req, script>> /\ revisions' = revisions \ {v} /\ v # Newest
    BY <1>7 DEF Retire
  <2>2. /\ Newest \in revisions /\ Newest \in {1, 2, 3}
        /\ \A w \in revisions : w \in {1, 2, 3} /\ Newest >= w
    BY <1>0, NewestIs
  <2>3. CASE Newest = 1
    <3>1. 2 \notin revisions /\ 3 \notin revisions
      BY <2>2, <2>3
    <3> QED
      BY <1>a, <2>1, <3>1 DEF Stages, StillOld
  <2>4. CASE Newest = 2
    BY <1>a, <2>1, <2>2, <2>4 DEF Stages
  <2>5. CASE Newest = 3
    BY <1>a, <2>1, <2>2, <2>5 DEF Stages
  <2> QED
    BY <2>2, <2>3, <2>4, <2>5
<1>8. CASE StartScript
  <2>1. /\ UNCHANGED revisions /\ script.pc \in {"off", "failed"} /\ Newest = Both
    BY <1>8 DEF StartScript
  <2>2. Both \in revisions /\ After \notin revisions
    BY <1>0, <2>1, NewestIs DEF Stages
  <2> QED
    BY <2>1, <2>2 DEF Stages
<1>9. CASE FindMany
  <2>1. UNCHANGED revisions /\ Running
    BY <1>9 DEF FindMany, Running
  <2>2. script.pc # "off" /\ script.pc # "done"
    BY <2>1 DEF Running
  <2> QED
    BY <2>1, <2>2 DEF Stages
<1>10. CASE UpdateRow
  <2>1. UNCHANGED revisions /\ Running
    BY <1>10 DEF UpdateRow, Running
  <2>2. script.pc # "off" /\ script.pc # "done"
    BY <2>1 DEF Running
  <2> QED
    BY <2>1, <2>2 DEF Stages
<1>11. CASE ScriptFails
  <2>1. UNCHANGED revisions /\ Running
    BY <1>11 DEF ScriptFails, Running
  <2>2. script.pc # "off" /\ script.pc # "done"
    BY <2>1 DEF Running
  <2> QED
    BY <2>1, <2>2 DEF Stages
<1>12. CASE UNCHANGED vars
  BY <1>12 DEF vars, Stages, StillOld
<1>13. {Email} \in SUBSET Fields /\ Fields \in SUBSET Fields
  BY KeyRotationAssumption
<1> QED
  BY <1>1, <1>2, <1>3, <1>4, <1>5, <1>6, <1>7, <1>8,
     <1>9, <1>10, <1>11, <1>12, <1>13 DEF Next, BeginCreate, BeginUpdate

\* Every revision that serves reads every column of every account, except the first
\* one beside the second, and the last one in the rows the script did not come to:
\* from the stages of the rotation, and from what a finished run of the script reached.
THEOREM RevisionsRead == Spec => []ServingRevisionsRead
<1>1. Init => Typed /\ Reached /\ Stages
  BY TypedInit, ReachedInit, StagesInit
<1>2. Typed /\ Reached /\ Stages /\ [Next]_vars => (Typed /\ Reached /\ Stages)'
  BY TypedNext, ReachedNext, StagesNext
<1>3. Typed /\ Reached /\ Stages => ServingRevisionsRead
  <2> SUFFICES ASSUME Typed, Reached, Stages,
                      NEW v \in revisions, NEW i \in DOMAIN rows, NEW f \in Fields,
                      Decrypt(Keys[v], rows[i].value[f], f) = DecryptionError
               PROVE  \/ v = Before /\ Both \in revisions
                      \/ v = After /\ i \in late \cup skipped
    BY DEF ServingRevisionsRead
  <2>1. v \in Revisions /\ Genuine(rows[i].value[f], f)
    BY DEF Typed, TypeOK, Shaped
  <2>2. \/ v = Before /\ rows[i].value[f].version = New
        \/ v = After /\ rows[i].value[f].version = Old
    BY <2>1, DecryptReads
  <2>3. Old # New
    BY DEF Old, New
  <2>4. CASE v = Before /\ rows[i].value[f].version = New
    BY <2>3, <2>4 DEF Stages, StillOld
  <2>5. CASE v = After /\ rows[i].value[f].version = Old
    BY <2>3, <2>5 DEF Stages, Reached, AllNew
  <2> QED
    BY <2>2, <2>4, <2>5
<1> QED
  BY <1>1, <1>2, <1>3, PTL DEF Spec

-----------------------------------------------------------------------------
(* The rotation of an operator who waits for the old revision *)

\* Once the script has been started nothing is written with the old key any more, and the
\* row of its cursor is there.
Careful ==
    /\ script.pc # "off" =>
          /\ Before \notin revisions
          /\ \A r \in Reqs : req[r] # Idle =>
                \A f \in DOMAIN req[r].data : req[r].data[f].version = New
          /\ late = {} /\ skipped = {}
    /\ Running => script.cursor \in DOMAIN rows \cup {0}

\* Initially: the script has not been started.
LEMMA CarefulInit == Init => Careful
BY DEF Init, Careful, Running

\* What a request writes under the new key is never late.
LEMMA WrittenInTime ==
    ASSUME NEW r \in Reqs, NEW id, Written(id, r), late = {},
           \A f \in DOMAIN req[r].data : req[r].data[f].version = New
    PROVE  late' = {}
BY DEF Written, Old, New

\* A request that is answered, whether it writes or not, leaves it at that.
LEMMA AnsweredCareful ==
    ASSUME Careful, NEW r \in Reqs, Answered(r), UNCHANGED <<revisions, script, skipped>>,
           DOMAIN rows \subseteq DOMAIN rows',
           script.pc # "off" => late' = {}
    PROVE  Careful'
<1>1. \A q \in Reqs : req'[q] = Idle \/ req'[q] = req[q]
  BY DEF Answered
<1> QED
  BY <1>1 DEF Careful, Running

\* Every step keeps it so when accounts are not deleted.
LEMMA CarefulNext ==
    ASSUME Drained = TRUE, Deletions = FALSE
    PROVE  Typed /\ Careful /\ [Next]_vars => Careful'
<1> SUFFICES ASSUME Typed, Careful, [Next]_vars PROVE Careful'
  OBVIOUS
<1>0. TypeOK /\ Shaped
  BY DEF Typed
<1>a. Before = 1 /\ Both = 2 /\ After = 3
  BY DEF Before, Both, After
<1>1. ASSUME NEW r \in Reqs, NEW pc \in {"create", "update"}, NEW id \in Ids,
             NEW F \in SUBSET Fields, NEW data \in Inputs(F), Begin(r, pc, id, data)
      PROVE  Careful'
  <2>1. UNCHANGED <<rows, revisions, script, late, skipped>>
    BY <1>1 DEF Begin
  <2>2. PICK v \in revisions : \A f \in F :
           req'[r].data[f].version = IF v = Before THEN Old ELSE New
    BY <1>0, <1>1, BeginEffect
  <2>3. /\ DOMAIN req'[r].data = F
        /\ \A q \in Reqs \ {r} : req'[q] = req[q]
    BY <1>0, <1>1, BeginEffect
  <2> QED
    BY <2>1, <2>2, <2>3 DEF Careful, Running
<1>2. ASSUME NEW r \in Reqs, Create(r)
      PROVE  Careful'
  <2>1. UNCHANGED <<revisions, script, skipped>> /\ req[r] # Idle
    BY <1>2 DEF Create, At
  <2>2. PICK id : id = req[r].id
    OBVIOUS
  <2>3. /\ Answered(r)
        /\ \/ UNCHANGED <<rows, late>>
           \/ DOMAIN rows' = DOMAIN rows \cup {id} /\ Written(id, r)
    BY <1>0, <1>2, <2>2, CreateEffect
  <2>4. script.pc # "off" => late' = {}
    BY <2>1, <2>3, WrittenInTime DEF Careful
  <2> QED
    BY <2>1, <2>3, <2>4, AnsweredCareful
<1>3. ASSUME NEW r \in Reqs, Update(r)
      PROVE  Careful'
  <2>1. UNCHANGED <<revisions, script, skipped>> /\ req[r] # Idle
    BY <1>3 DEF Update, At
  <2>2. PICK id : id = req[r].id
    OBVIOUS
  <2>3. /\ Answered(r)
        /\ \/ UNCHANGED <<rows, late>>
           \/ DOMAIN rows' = DOMAIN rows /\ Written(id, r)
    BY <1>0, <1>3, <2>2, UpdateEffect
  <2>4. script.pc # "off" => late' = {}
    BY <2>1, <2>3, WrittenInTime DEF Careful
  <2> QED
    BY <2>1, <2>3, <2>4, AnsweredCareful
<1>4. ASSUME NEW r \in Reqs, Fail(r)
      PROVE  Careful'
  <2>1. UNCHANGED <<rows, revisions, script, late, skipped>> /\ Answered(r)
    BY <1>0, <1>4, AnswerAnswered DEF Fail
  <2> QED
    BY <2>1, AnsweredCareful DEF Careful
<1>5. ASSUME NEW id \in Ids, Delete(id)
      PROVE  FALSE
  BY <1>5 DEF Delete
<1>6. ASSUME NEW v \in Revisions, Deploy(v)
      PROVE  Careful'
  <2>1. /\ UNCHANGED <<rows, req, script, late, skipped>>
        /\ revisions' = revisions \cup {v} /\ v = Newest + 1
    BY <1>6 DEF Deploy
  <2>2. v # Before
    BY <1>0, <1>a, <2>1, NewestIs
  <2> QED
    BY <2>1, <2>2 DEF Careful, Running
<1>7. ASSUME NEW v \in Revisions, Retire(v)
      PROVE  Careful'
  BY <1>7 DEF Retire, Careful, Running
<1>8. CASE StartScript
  <2>1. /\ UNCHANGED <<rows, revisions, req>>
        /\ revisions = {Both}
        /\ \A r \in Reqs : req[r] # Idle =>
              \A f \in DOMAIN req[r].data : req[r].data[f].version = New
        /\ late' = {} /\ skipped' = {}
        /\ script' = [pc |-> "find", cursor |-> 0, todo |-> [i \in {} |-> {}]]
    BY <1>8 DEF StartScript
  <2>2. script'.cursor = 0
    BY <2>1
  <2> QED
    BY <1>a, <2>1, <2>2 DEF Careful
<1>9. CASE FindMany
  <2>1. UNCHANGED <<rows, revisions, req, late>>
    BY <1>9 DEF FindMany
  <2>2. script.pc = "find" /\ skipped' = skipped
    BY <1>0, <1>9, FindManyEffect DEF Careful, Running
  <2>3. script'.pc = "done" \/ script'.cursor \in DOMAIN rows
    BY <1>0, <1>9, FindManyEffect
  <2> QED
    BY <2>1, <2>2, <2>3 DEF Careful, Running
<1>10. CASE UpdateRow
  <2>1. UNCHANGED <<revisions, req, late, skipped>>
    BY <1>10 DEF UpdateRow
  <2>2. /\ script.pc = "update" /\ script'.cursor = script.cursor
        /\ DOMAIN rows' = DOMAIN rows
    BY <1>0, <1>10, UpdateRowEffect
  <2> QED
    BY <2>1, <2>2 DEF Careful, Running
<1>11. CASE ScriptFails
  <2>1. /\ UNCHANGED <<rows, revisions, req, late, skipped>> /\ Running
        /\ script' = [script EXCEPT !.pc = "failed"]
    BY <1>11 DEF ScriptFails
  <2>2. script'.pc = "failed"
    BY <1>0, <2>1 DEF TypeOK, Script
  <2> QED
    BY <2>1, <2>2 DEF Careful, Running
<1>12. CASE UNCHANGED vars
  BY <1>12 DEF vars, Careful, Running
<1>13. {Email} \in SUBSET Fields /\ Fields \in SUBSET Fields
  BY KeyRotationAssumption
<1> QED
  BY <1>1, <1>2, <1>3, <1>4, <1>5, <1>6, <1>7, <1>8,
     <1>9, <1>10, <1>11, <1>12, <1>13 DEF Next, BeginCreate, BeginUpdate

\* Every value of every account is under the new key, so step 3 of the rotation,
\* which drops the old one, costs no data.
OldKeyIsSpare == \A i \in DOMAIN rows : AllNew(i)

\* When the operator waits for the old revision and its requests before the script, and no
\* account is deleted, a finished script leaves nothing that takes the old key,
\* whatever was created or changed meanwhile and however often it had failed.
THEOREM OldKeySpare ==
    ASSUME Drained = TRUE, Deletions = FALSE
    PROVE  Spec => [](script.pc = "done" => OldKeyIsSpare)
<1>1. Init => Typed /\ Reached /\ Careful
  BY TypedInit, ReachedInit, CarefulInit
<1>2. Typed /\ Reached /\ Careful /\ [Next]_vars => (Typed /\ Reached /\ Careful)'
  BY TypedNext, ReachedNext, CarefulNext
<1>3. Typed /\ Reached /\ Careful => (script.pc = "done" => OldKeyIsSpare)
  BY DEF Reached, Careful, OldKeyIsSpare
<1> QED
  BY <1>1, <1>2, <1>3, PTL DEF Spec

-----------------------------------------------------------------------------
(* Any keyrings *)

\* Keys under versions, at least one, as env.ts lets a process start with.
Keyrings == UNION {[V -> KeyBytes] : V \in {W \in SUBSET (Nat \ {0}) : W # {} /\ IsFiniteSet(W)}}

\* The newest version of a keyring is one of its versions.
LEMMA CurrentIs ==
    ASSUME NEW k \in Keyrings
    PROVE  /\ CurrentVersion(k) \in DOMAIN k
           /\ CurrentVersion(k) \in Nat \ {0}
<1>1. DOMAIN k \in SUBSET Nat /\ DOMAIN k # {} /\ IsFiniteSet(DOMAIN k) /\ 0 \notin DOMAIN k
  BY DEF Keyrings
<1>2. \E m \in DOMAIN k : \A n \in DOMAIN k : m >= n
  BY <1>1, Greatest
<1> QED
  BY <1>1, <1>2 DEF CurrentVersion

\* A payload prints its version, and with an exponent that is none.
LEMMA PrintedIs ==
    ASSUME NEW v \in Nat \ {0}
    PROVE  /\ v < Exponential => Printed(v) = v
           /\ ~ (v < Exponential) => Printed(v) = 0
BY DEF Printed, NoVersion

\* Between any two keyrings a value opens exactly when the second has the key it was
\* made with, under the version it was made with, in the column it was made for: but not
\* one of a version that prints with an exponent. What opens and is re-encrypted opens
\* with the newest key alone, and needs it no more.
THEOREM ValuesOpen ==
    ASSUME NEW K \in SUBSET Keyrings, NEW C, NEW P,
           DecryptionError \notin P
    PROVE  ValuesOpenWithTheirKey(K, C, P)
<1> SUFFICES ASSUME NEW made \in Keyrings, NEW read \in Keyrings,
                    NEW in \in C, NEW as \in C, NEW plain \in P
             PROVE  LET version == CurrentVersion(made)
                        payload == Encrypt(made, plain, in)
                        opened == Decrypt(read, payload, as)
                        again == Reencrypt(read, payload, as)
                        newest == CurrentVersion(read) IN
                    /\ opened \in {plain, DecryptionError}
                    /\ opened = plain <=> /\ version \in DOMAIN read
                                          /\ read[version] = made[version]
                                          /\ in = as
                                          /\ version < Exponential
                    /\ opened = plain /\ newest < Exponential =>
                          /\ Decrypt([v \in {newest} |-> read[v]], again, as) = plain
                          /\ ~ NeedsReencryption(read, again)
  BY DEF ValuesOpenWithTheirKey
<1> DEFINE payload == Encrypt(made, plain, in)
           opened == Decrypt(read, payload, as)
           again == Reencrypt(read, payload, as)
<1>1. PICK version, newest : version = CurrentVersion(made) /\ newest = CurrentVersion(read)
  OBVIOUS
<1>2. version \in Nat \ {0} /\ newest \in DOMAIN read /\ newest \in Nat \ {0}
  BY <1>1, CurrentIs
<1>3. /\ payload.version = Printed(version) /\ payload.key = made[version]
      /\ payload.context = in /\ payload.plain = plain
  BY <1>1 DEF Encrypt
<1>4. 0 \notin DOMAIN read /\ plain # DecryptionError
  BY DEF Keyrings
<1> HIDE DEF payload
<1>5. opened \in {plain, DecryptionError}
  BY <1>3 DEF Decrypt
<1>6. opened = plain <=> /\ version \in DOMAIN read
                         /\ read[version] = made[version]
                         /\ in = as
                         /\ version < Exponential
  <2>1. CASE version < Exponential
    <3>1. payload.version = version
      BY <1>2, <1>3, <2>1, PrintedIs
    <3> QED
      BY <1>3, <1>4, <2>1, <3>1 DEF Decrypt
  <2>2. CASE ~ (version < Exponential)
    <3>1. payload.version = 0
      BY <1>2, <1>3, <2>2, PrintedIs
    <3> QED
      BY <1>4, <2>2, <3>1 DEF Decrypt
  <2> QED
    BY <2>1, <2>2
<1>7. ASSUME opened = plain, newest < Exponential
      PROVE  /\ Decrypt([v \in {newest} |-> read[v]], again, as) = plain
             /\ ~ NeedsReencryption(read, again)
  <2>1. again = Encrypt(read, plain, as)
    BY <1>7 DEF Reencrypt
  <2>2. /\ again.version = newest /\ again.key = read[newest]
        /\ again.context = as /\ again.plain = plain
    BY <1>1, <1>2, <1>7, <2>1, PrintedIs DEF Encrypt
  <2> HIDE DEF again
  <2> QED
    BY <1>1, <2>2 DEF Decrypt, NeedsReencryption
<1> QED
  BY <1>1, <1>5, <1>6, <1>7 DEF payload

-----------------------------------------------------------------------------
(* What env.ts makes of a text of any number of entries, e.                *)

Entry == [version : Nat, key : KeyBytes \cup {NoKey}]

\* Entry i spoils the text that has the entries s.
Spoils(e, s, i) ==
    \/ ~ Matches(e[i])
    \/ \E j \in s : j < i /\ Number(e[j].version) = Number(e[i].version)

Unspoilt(e, s) == {i \in s : \A j \in s : j <= i => ~ Spoils(e, s, j)}
Under(e, s, v) == {i \in s : Number(e[i].version) = v}

\* The keys of the entries s, and of the text up to the first that spoils it.
KeysOf(e, s) == [v \in {Number(e[i].version) : i \in s} |-> e[First(Under(e, s, v))].key]
RingOf(e, s) == [ok |-> Unspoilt(e, s) = s, keys |-> KeysOf(e, Unspoilt(e, s))]

\* The greatest of a finite set is above all of it.
LEMMA GreatestIs ==
    ASSUME NEW s \in SUBSET Nat, s # {}, IsFiniteSet(s)
    PROVE  Max(s) \in s /\ \A i \in s : i <= Max(s)
<1>1. \E m \in s : \A n \in s : m >= n
  BY Greatest
<1>2. Max(s) \in s /\ \A n \in s : Max(s) >= n
  BY <1>1 DEF Max
<1> QED
  BY <1>2

\* A turn of the loop takes the entries without the last to those with it.
LEMMA TurnIs ==
    ASSUME NEW e, NEW s \in SUBSET Nat, NEW x \in s, \A i \in s : i <= x
    PROVE  RingOf(e, s) = AddKey(RingOf(e, s \ {x}), e[x])
<1>1. PICK t : t = s \ {x}
  OBVIOUS
<1>2. \A i \in t : i \in s /\ i < x /\ i \in Nat
  BY <1>1
<1>3. \A i \in t : Spoils(e, s, i) <=> Spoils(e, t, i)
  BY <1>1, <1>2 DEF Spoils
<1>4. Unspoilt(e, s) \cap t = Unspoilt(e, t)
  <2>1. ASSUME NEW i \in t
        PROVE  i \in Unspoilt(e, s) <=> i \in Unspoilt(e, t)
    <3>1. \A j \in s : j <= i => j \in t
      BY <1>1, <1>2
    <3>2. i \in Unspoilt(e, s) <=> \A j \in t : j <= i => ~ Spoils(e, s, j)
      BY <1>1, <3>1 DEF Unspoilt
    <3> QED
      BY <1>3, <3>2 DEF Unspoilt
  <2>2. Unspoilt(e, t) \subseteq t
    BY DEF Unspoilt
  <2> QED
    BY <2>1, <2>2
<1>5. x \in Unspoilt(e, s) <=> (Unspoilt(e, t) = t /\ ~ Spoils(e, s, x))
  <2>1. x \in Unspoilt(e, s) <=> \A j \in s : ~ Spoils(e, s, j)
    BY DEF Unspoilt
  <2>2. Unspoilt(e, t) = t <=> \A j \in t : ~ Spoils(e, t, j)
    BY <1>2 DEF Unspoilt
  <2> QED
    BY <1>1, <1>3, <2>1, <2>2
<1>6. PICK ring : ring = RingOf(e, t)
  OBVIOUS
<1>7. /\ ring.ok = (Unspoilt(e, t) = t) /\ ring.keys = KeysOf(e, Unspoilt(e, t))
      /\ ring = [ok |-> Unspoilt(e, t) = t, keys |-> KeysOf(e, Unspoilt(e, t))]
  BY <1>6 DEF RingOf
<1>8. CASE x \in Unspoilt(e, s)
  <2>1. Unspoilt(e, s) = s /\ Unspoilt(e, t) = t /\ ring.ok
    BY <1>1, <1>4, <1>5, <1>7, <1>8 DEF Unspoilt
  <2>2. Matches(e[x]) /\ \A j \in t : Number(e[j].version) # Number(e[x].version)
    BY <1>2, <1>1, <1>5, <1>8 DEF Spoils
  <2>3. ring.keys = KeysOf(e, t) /\ DOMAIN ring.keys = {Number(e[i].version) : i \in t}
    BY <1>7, <2>1 DEF KeysOf
  <2>4. KeysOf(e, s) = Set(ring.keys, Number(e[x].version), e[x].key)
    <3>1. {Number(e[i].version) : i \in s}
             = {Number(e[i].version) : i \in t} \cup {Number(e[x].version)}
      BY <1>1
    <3>2. Under(e, s, Number(e[x].version)) = {x}
      BY <1>1, <2>2 DEF Under
    <3>3. First({x}) = x
      BY FirstIn
    <3>4. \A v : v # Number(e[x].version) => Under(e, s, v) = Under(e, t, v)
      BY <1>1 DEF Under
    <3>5. PICK V : V = {Number(e[i].version) : i \in t}
      OBVIOUS
    <3>6. KeysOf(e, s) = [v \in V \cup {Number(e[x].version)} |->
                              IF v = Number(e[x].version) THEN e[x].key
                              ELSE e[First(Under(e, t, v))].key]
      BY <3>1, <3>2, <3>3, <3>4, <3>5 DEF KeysOf
    <3>7. \A v \in V : ring.keys[v] = e[First(Under(e, t, v))].key
      BY <2>3, <3>5 DEF KeysOf
    <3>8. Set(ring.keys, Number(e[x].version), e[x].key)
             = [v \in V \cup {Number(e[x].version)} |-> IF v = Number(e[x].version) THEN e[x].key
                                                 ELSE ring.keys[v]]
      BY <2>3, <3>5 DEF Set
    <3> QED
      BY <3>6, <3>7, <3>8
  <2>5. Number(e[x].version) \notin DOMAIN ring.keys
    BY <2>2, <2>3
  <2>6. AddKey(ring, e[x]) = [ok |-> TRUE, keys |-> Set(ring.keys, Number(e[x].version), e[x].key)]
    BY <2>1, <2>2, <2>5 DEF AddKey
  <2>7. RingOf(e, s) = [ok |-> TRUE, keys |-> KeysOf(e, s)]
    BY <2>1 DEF RingOf
  <2> QED
    BY <1>1, <1>6, <2>4, <2>6, <2>7
<1>9. CASE x \notin Unspoilt(e, s)
  <2>1. Unspoilt(e, s) = Unspoilt(e, t) /\ Unspoilt(e, s) # s
    BY <1>1, <1>4, <1>9 DEF Unspoilt
  <2>2. RingOf(e, s) = [ok |-> FALSE, keys |-> ring.keys]
    BY <1>7, <2>1 DEF RingOf
  <2>3. ~ (ring.ok /\ Matches(e[x]) /\ Number(e[x].version) \notin DOMAIN ring.keys)
    <3>1. CASE Unspoilt(e, t) # t
      BY <1>7, <3>1
    <3>2. CASE Unspoilt(e, t) = t /\ Spoils(e, s, x)
      <4>1. DOMAIN ring.keys = {Number(e[i].version) : i \in t}
        BY <1>7, <3>2 DEF KeysOf
      <4>2. ~ Matches(e[x]) \/ \E j \in t : Number(e[j].version) = Number(e[x].version)
        BY <1>1, <1>2, <3>2 DEF Spoils
      <4> QED
        BY <4>1, <4>2
    <3> QED
      BY <1>5, <1>9, <3>1, <3>2
  <2>4. AddKey(ring, e[x]) = [ring EXCEPT !.ok = FALSE]
    BY <2>3 DEF AddKey
  <2>5. [ring EXCEPT !.ok = FALSE] = [ok |-> FALSE, keys |-> ring.keys]
    <3>1. PICK K : K = {ring.keys}
      OBVIOUS
    <3>2. ring \in [ok : BOOLEAN, keys : K]
      BY <1>7, <3>1
    <3>3. PICK q : q = [ring EXCEPT !.ok = FALSE]
      OBVIOUS
    <3>4. q \in [ok : BOOLEAN, keys : K]
      BY <3>2, <3>3
    <3>5. q.ok = FALSE /\ q.keys = ring.keys
      BY <3>2, <3>3
    <3> QED
      BY <3>3, <3>4, <3>5
  <2> QED
    BY <1>1, <1>6, <2>2, <2>4, <2>5
<1> QED
  BY <1>8, <1>9

\* The loop over a text comes to that of all its entries.
LEMMA TextIs ==
    ASSUME NEW e, DOMAIN e \in SUBSET Nat, IsFiniteSet(DOMAIN e)
    PROVE  VersionedKeys(e) = RingOf(e, DOMAIN e)
<1> DEFINE S == DOMAIN e
           Turn(g, s) == IF s = {} THEN [ok |-> TRUE, keys |-> [v \in {} |-> NoKey]]
                         ELSE AddKey(g[s \ {Max(s)}], e[Max(s)])
           Loop(g) == g = [s \in SUBSET S |-> Turn(g, s)]
           ring == [s \in SUBSET S |-> RingOf(e, s)]
<1>1. VersionedKeys(e) = (CHOOSE g : Loop(g))[S]
  BY DEF VersionedKeys, FoldLeft, MapThenFoldSet
<1>2. \A s \in SUBSET S : IsFiniteSet(s) /\ s \in SUBSET Nat
  BY FS_Subset
<1>3. ASSUME NEW s \in SUBSET S
      PROVE  RingOf(e, s) = Turn(ring, s)
  <2>1. CASE s = {}
    <3>1. Unspoilt(e, s) = s
      BY <2>1 DEF Unspoilt
    <3>2. KeysOf(e, s) = [v \in {} |-> NoKey]
      BY <2>1 DEF KeysOf
    <3> QED
      BY <2>1, <3>1, <3>2 DEF RingOf
  <2>2. CASE s # {}
    <3>1. PICK x : x = Max(s)
      OBVIOUS
    <3>2. x \in s /\ \A i \in s : i <= x
      BY <1>2, <2>2, <3>1, GreatestIs
    <3>3. RingOf(e, s) = AddKey(RingOf(e, s \ {x}), e[x])
      BY <1>2, <3>2, TurnIs
    <3> QED
      BY <2>2, <3>1, <3>3
  <2> QED
    BY <2>1, <2>2
<1>4. Loop(ring)
  <2>1. ring = [s \in SUBSET S |-> Turn(ring, s)]
    <3> HIDE DEF Turn
    <3> QED
      BY <1>3
  <2> QED
    BY <2>1
<1>5. PICK g : g = CHOOSE h : Loop(h)
  OBVIOUS
<1>6. Loop(g)
  BY <1>4, <1>5
<1>7. ASSUME NEW s \in SUBSET S
      PROVE  g[s] = Turn(g, s)
  <2> HIDE DEF Turn
  <2> QED
    BY <1>6
<1>8. ASSUME NEW Bad, Bad = {s \in SUBSET S : g[s] # RingOf(e, s)}, Bad # {}
      PROVE  FALSE
  <2>1. PICK s \in Bad : \A t \in SUBSET s : t # s => t \notin Bad
    BY <1>8, SmallestSubset
  <2>2. s \in SUBSET S /\ g[s] # RingOf(e, s)
    BY <1>8
  <2>3. CASE s = {}
    BY <1>3, <1>7, <2>2, <2>3
  <2>4. CASE s # {}
    <3>1. PICK t : t = s \ {Max(s)}
      OBVIOUS
    <3>2. Max(s) \in s
      BY <1>2, <2>2, <2>4, GreatestIs
    <3>3. t \in SUBSET s /\ t # s /\ t \in SUBSET S
      BY <2>2, <3>1, <3>2
    <3>4. g[t] = RingOf(e, t) /\ ring[t] = RingOf(e, t)
      BY <1>8, <2>1, <3>3
    <3>5. g[s] = AddKey(g[t], e[Max(s)])
      BY <1>7, <2>2, <2>4, <3>1
    <3>6. RingOf(e, s) = AddKey(ring[t], e[Max(s)])
      BY <1>3, <2>2, <2>4, <3>1
    <3> QED
      BY <2>2, <3>4, <3>5, <3>6
  <2> QED
    BY <2>3, <2>4
<1>9. g[S] = RingOf(e, S)
  BY <1>8
<1> QED
  BY <1>1, <1>5, <1>9

\* The keys all differ exactly when there are as many as there are.
LEMMA DistinctIs ==
    ASSUME NEW D, IsFiniteSet(D), NEW K, NEW keys \in [D -> K], NEW blind, NEW jwt
    PROVE  Distinct(keys, blind, jwt) <=>
              /\ blind # jwt
              /\ \A v \in D : /\ keys[v] \notin {blind, jwt}
                              /\ \A w \in D \ {v} : keys[w] # keys[v]
<1> DEFINE T == {keys[v] : v \in D}
<1>1. DOMAIN keys = D /\ keys \in Surjection(D, T)
  BY DEF Surjection
<1>2. /\ IsFiniteSet(T)
      /\ Cardinality(T) <= Cardinality(D)
      /\ Cardinality(T) = Cardinality(D) <=> keys \in Injection(D, T)
  BY <1>1, FS_Surjection
<1>3. keys \in Injection(D, T) <=> \A v \in D : \A w \in D \ {v} : keys[w] # keys[v]
  BY DEF Injection, IsInjective
<1>4. \A k : k \in T <=> \E v \in D : keys[v] = k
  OBVIOUS
<1>5. Distinct(keys, blind, jwt) <=> Cardinality(T \cup {blind, jwt}) = Cardinality(D) + 2
  BY <1>1 DEF Distinct
<1> HIDE DEF T
<1>6. PICK U : U = T \cup {blind}
  OBVIOUS
<1>7. /\ IsFiniteSet(U)
      /\ Cardinality(U) = IF blind \in T THEN Cardinality(T) ELSE Cardinality(T) + 1
  BY <1>2, <1>6, FS_AddElement
<1>8. Cardinality(U \cup {jwt}) = IF jwt \in U THEN Cardinality(U) ELSE Cardinality(U) + 1
  BY <1>7, FS_AddElement
<1>9. U \cup {jwt} = T \cup {blind, jwt}
  BY <1>6
<1>10. Cardinality(T) \in Nat /\ Cardinality(D) \in Nat /\ Cardinality(U) \in Nat
  BY <1>2, <1>7, FS_CardinalityType
<1>11. Distinct(keys, blind, jwt) <=>
           /\ blind \notin T /\ jwt \notin T /\ blind # jwt
           /\ Cardinality(T) = Cardinality(D)
  <2>1. PICK t, d, u : t = Cardinality(T) /\ d = Cardinality(D) /\ u = Cardinality(U)
    OBVIOUS
  <2>2. PICK n : n = Cardinality(T \cup {blind, jwt})
    OBVIOUS
  <2>3. t \in Nat /\ d \in Nat /\ u \in Nat /\ t <= d
    BY <1>2, <1>10, <2>1
  <2>4. u = (IF blind \in T THEN t ELSE t + 1) /\ n = IF jwt \in U THEN u ELSE u + 1
    BY <1>7, <1>8, <1>9, <2>1, <2>2
  <2>5. jwt \in U <=> jwt \in T \/ jwt = blind
    BY <1>6
  <2>6. n = d + 2 <=> blind \notin T /\ jwt \notin T /\ blind # jwt /\ t = d
    BY <2>3, <2>4, <2>5
  <2> QED
    BY <1>5, <2>1, <2>2, <2>6
<1> QED
  BY <1>2, <1>3, <1>4, <1>11

\* The ring of a text is whole exactly when its entries are well formed and their versions
\* differ, and it then has the key of each under its version.
LEMMA RingIs ==
    ASSUME NEW e \in Seq(Entry)
    PROVE  /\ DOMAIN e \in SUBSET Nat /\ IsFiniteSet(DOMAIN e)
           /\ \A i \in DOMAIN e : e[i].version \in Nat /\ e[i].key \in KeyBytes \cup {NoKey}
           /\ VersionedKeys(e).ok <=>
                 \A i \in DOMAIN e : /\ Matches(e[i])
                                     /\ \A j \in DOMAIN e \ {i} :
                                           Number(e[j].version) # Number(e[i].version)
           /\ VersionedKeys(e).keys = [v \in DOMAIN VersionedKeys(e).keys |->
                                          VersionedKeys(e).keys[v]]
           /\ VersionedKeys(e).ok =>
                 /\ DOMAIN VersionedKeys(e).keys = {Number(e[i].version) : i \in DOMAIN e}
                 /\ \A i \in DOMAIN e : VersionedKeys(e).keys[Number(e[i].version)] = e[i].key
<1>1. PICK S : S = DOMAIN e
  OBVIOUS
<1>2. /\ S \in SUBSET Nat /\ IsFiniteSet(S)
      /\ \A i \in S : e[i].version \in Nat /\ e[i].key \in KeyBytes \cup {NoKey}
  <2>1. e \in Seq(Entry)
    OBVIOUS
  <2>2. S = 1 .. Len(e) /\ Len(e) \in Nat /\ \A i \in S : e[i] \in Entry
    BY <1>1, <2>1
  <2>3. IsFiniteSet(1 .. Len(e)) /\ 1 .. Len(e) \subseteq Nat
    BY <2>2, FS_Interval
  <2>4. \A i \in S : e[i].version \in Nat /\ e[i].key \in KeyBytes \cup {NoKey}
    BY <2>2 DEF Entry
  <2> QED
    BY <2>2, <2>3, <2>4
<1>3. PICK ring : ring = VersionedKeys(e)
  OBVIOUS
<1>4. ring = RingOf(e, S)
  BY <1>1, <1>2, <1>3, TextIs
<1>5. ring.ok <=> \A i \in S : /\ Matches(e[i])
                               /\ \A j \in S \ {i} : Number(e[j].version) # Number(e[i].version)
  <2>1. ring.ok <=> \A i \in S : ~ Spoils(e, S, i)
    <3>1. ring.ok = (Unspoilt(e, S) = S)
      BY <1>4 DEF RingOf
    <3>2. Unspoilt(e, S) = S <=> \A i \in S : ~ Spoils(e, S, i)
      BY <1>2 DEF Unspoilt
    <3> QED
      BY <3>1, <3>2
  <2>2. \A i, j \in S : i # j => i < j \/ j < i
    <3>1. S \in SUBSET Nat
      BY <1>2
    <3> QED
      BY <3>1
  <2>3. (\A i \in S : ~ Spoils(e, S, i)) <=>
            \A i \in S : /\ Matches(e[i])
                         /\ \A j \in S \ {i} : Number(e[j].version) # Number(e[i].version)
    <3>1. PICK ver : ver = [i \in S |-> Number(e[i].version)]
      OBVIOUS
    <3>2. \A i \in S : Spoils(e, S, i) <=>
              ~ Matches(e[i]) \/ \E j \in S : j < i /\ ver[j] = ver[i]
      BY <3>1 DEF Spoils
    <3>3. \A i, j \in S : Number(e[j].version) # Number(e[i].version) <=> ver[j] # ver[i]
      BY <3>1
    <3>4. (\A i \in S : \A j \in S : ~ (j < i /\ ver[j] = ver[i])) <=>
              \A i \in S : \A j \in S \ {i} : ver[j] # ver[i]
      BY <1>2, <2>2
    <3> QED
      BY <3>2, <3>3, <3>4
  <2> QED
    BY <2>1, <2>3
<1>6. ASSUME ring.ok
      PROVE  /\ DOMAIN ring.keys = {Number(e[i].version) : i \in S}
             /\ \A i \in S : ring.keys[Number(e[i].version)] = e[i].key
  <2>1. Unspoilt(e, S) = S /\ ring.keys = KeysOf(e, S)
    BY <1>4, <1>6 DEF RingOf
  <2>2. DOMAIN ring.keys = {Number(e[i].version) : i \in S}
    BY <2>1 DEF KeysOf
  <2>3. ASSUME NEW i \in S
        PROVE  ring.keys[Number(e[i].version)] = e[i].key
    <3>1. Under(e, S, Number(e[i].version)) = {i}
      BY <1>5, <1>6 DEF Under
    <3>2. First({i}) = i
      BY FirstIn
    <3>3. ring.keys[Number(e[i].version)] = e[First(Under(e, S, Number(e[i].version)))].key
      BY <2>1 DEF KeysOf
    <3> QED
      BY <3>1, <3>2, <3>3
  <2> QED
    BY <2>2, <2>3
<1>7. ring.keys = [v \in DOMAIN ring.keys |-> ring.keys[v]]
  BY <1>4 DEF RingOf, KeysOf
<1> QED
  BY <1>1, <1>2, <1>3, <1>5, <1>6, <1>7

\* The process starts exactly with keys that are all well formed and all differ, under
\* versions that do, and has each under its own: for any texts of ENCRYPTION_KEYS, of any
\* number of entries.
THEOREM TextsAreRead ==
    ASSUME NEW E \in SUBSET Seq(Entry)
    PROVE  KeysAreReadAsWritten(E)
<1> SUFFICES ASSUME NEW e \in E,
                    NEW blind \in KeyBytes \cup {NoKey}, NEW jwt \in KeyBytes \cup {NoKey}
             PROVE  LET ring == VersionedKeys(e) IN
                    /\ IsValidEnv(e, blind, jwt) <=>
                          /\ NoKey \notin {blind, jwt}
                          /\ blind # jwt
                          /\ \A i \in DOMAIN e :
                                /\ e[i].version # NoVersion
                                /\ e[i].key \notin {NoKey, blind, jwt}
                                /\ \A j \in DOMAIN e \ {i} :
                                      /\ Number(e[j].version) # Number(e[i].version)
                                      /\ e[j].key # e[i].key
                    /\ ring.ok =>
                          /\ DOMAIN ring.keys = {Number(e[i].version) : i \in DOMAIN e}
                          /\ \A i \in DOMAIN e : ring.keys[Number(e[i].version)] = e[i].key
  BY DEF KeysAreReadAsWritten
<1>1. PICK S, ring : S = DOMAIN e /\ ring = VersionedKeys(e)
  OBVIOUS
<1>2. /\ S \in SUBSET Nat /\ IsFiniteSet(S)
      /\ \A i \in S : e[i].version \in Nat /\ e[i].key \in KeyBytes \cup {NoKey}
      /\ ring.keys = [v \in DOMAIN ring.keys |-> ring.keys[v]]
  BY <1>1, RingIs
<1>5. ring.ok <=> \A i \in S : /\ Matches(e[i])
                               /\ \A j \in S \ {i} : Number(e[j].version) # Number(e[i].version)
  BY <1>1, RingIs
<1>6. ASSUME ring.ok
      PROVE  /\ DOMAIN ring.keys = {Number(e[i].version) : i \in S}
             /\ \A i \in S : ring.keys[Number(e[i].version)] = e[i].key
  BY <1>1, <1>6, RingIs
<1>7. IsValidEnv(e, blind, jwt) <=>
          /\ NoKey \notin {blind, jwt}
          /\ blind # jwt
          /\ \A i \in S :
                /\ e[i].version # NoVersion
                /\ e[i].key \notin {NoKey, blind, jwt}
                /\ \A j \in S \ {i} :
                      /\ Number(e[j].version) # Number(e[i].version)
                      /\ e[j].key # e[i].key
  <2>1. IsValidEnv(e, blind, jwt) <=>
            ring.ok /\ blind # NoKey /\ jwt # NoKey /\ Distinct(ring.keys, blind, jwt)
    BY <1>1 DEF IsValidEnv
  <2>2. CASE ~ ring.ok
    BY <1>5, <2>1, <2>2 DEF Matches
  <2>3. CASE ring.ok
    <3>1. PICK D : D = {Number(e[i].version) : i \in S}
      OBVIOUS
    <3>2. IsFiniteSet(D)
      <4>1. PICK f : f = [i \in S |-> Number(e[i].version)]
        OBVIOUS
      <4>2. f \in Surjection(S, D)
        BY <3>1, <4>1 DEF Surjection
      <4> QED
        BY <1>2, <4>2, FS_Surjection
    <3>3. ring.keys \in [D -> KeyBytes \cup {NoKey}]
      <4>1. ring.keys = [v \in DOMAIN ring.keys |-> ring.keys[v]]
        BY <1>2
      <4>2. \A v \in D : ring.keys[v] \in KeyBytes \cup {NoKey}
        BY <1>2, <1>6, <2>3, <3>1
      <4>3. DOMAIN ring.keys = D
        BY <1>6, <2>3, <3>1
      <4> QED
        BY <4>1, <4>2, <4>3
    <3>4. Distinct(ring.keys, blind, jwt) <=>
              /\ blind # jwt
              /\ \A v \in D : /\ ring.keys[v] \notin {blind, jwt}
                              /\ \A w \in D \ {v} : ring.keys[w] # ring.keys[v]
      <4>1. PICK K : K = KeyBytes \cup {NoKey}
        OBVIOUS
      <4>2. PICK keys \in [D -> K] : keys = ring.keys
        BY <3>3, <4>1
      <4>3. Distinct(keys, blind, jwt) <=>
                /\ blind # jwt
                /\ \A v \in D : /\ keys[v] \notin {blind, jwt}
                                /\ \A w \in D \ {v} : keys[w] # keys[v]
        BY <3>2, DistinctIs
      <4> QED
        BY <4>2, <4>3
    <3>5. (\A v \in D : /\ ring.keys[v] \notin {blind, jwt}
                        /\ \A w \in D \ {v} : ring.keys[w] # ring.keys[v])
          <=> \A i \in S : /\ e[i].key \notin {blind, jwt}
                           /\ \A j \in S \ {i} : e[j].key # e[i].key
      <4>1. \A i \in S : Number(e[i].version) \in D /\ ring.keys[Number(e[i].version)] = e[i].key
        BY <1>6, <2>3, <3>1
      <4>2. \A v \in D : \E i \in S : v = Number(e[i].version)
        BY <3>1
      <4>3. \A i \in S : \A j \in S \ {i} : Number(e[j].version) # Number(e[i].version)
        BY <1>5, <2>3
      <4> QED
        BY <4>1, <4>2, <4>3
    <3>6. \A i \in S : /\ e[i].version # NoVersion /\ e[i].key # NoKey
                       /\ \A j \in S \ {i} : Number(e[j].version) # Number(e[i].version)
      BY <1>5, <2>3 DEF Matches
    <3> QED
      BY <2>1, <2>3, <3>4, <3>5, <3>6
  <2> QED
    BY <2>2, <2>3
<1> QED
  BY <1>1, <1>6, <1>7

\* The texts of the runs are texts.
LEMMA TextsAreTexts == Texts \in SUBSET Seq(Entry)
<1>1. Entries \subseteq Entry
  BY DEF Entries, Entry, NoVersion
<1>2. ASSUME NEW t \in Texts
      PROVE  t \in Seq(Entry)
  <2>1. PICK m \in 0 .. 3 : t \in [1 .. m -> Entries]
    BY DEF Texts, BoundedSeq, SeqOf
  <2>2. m \in Nat /\ t \in [1 .. m -> Entry]
    BY <1>1, <2>1
  <2> QED
    BY <2>2
<1> QED
  BY <1>2

\* In particular the texts of the runs.
THEOREM EnvRead == Spec => []EnvIsReadAsWritten
<1>1. KeysAreReadAsWritten(Texts)
  BY TextsAreTexts, TextsAreRead
<1>2. EnvIsReadAsWritten
  BY <1>1 DEF EnvIsReadAsWritten
<1> QED
  BY <1>2, PTL

\* The whole number that digits write becomes a positive one again.
LEMMA NumberIs ==
    ASSUME NEW n \in Nat \ {0}
    PROVE  Number(n) \in Nat \ {0}
<1>1. Precise \in Nat /\ Precise >= 2
  BY KeyringAssumption
<1>2. CASE n <= Precise
  BY <1>2 DEF Number
<1>3. CASE ~ (n <= Precise)
  <2>1. n >= 3 /\ n % 2 \in 0 .. 1
    <3>1. n \in Nat /\ n > Precise
      BY <1>1, <1>3
    <3>2. n >= 3
      BY <1>1, <3>1
    <3>3. n % 2 \in 0 .. 1
      BY <3>1
    <3> QED
      BY <3>2, <3>3
  <2>2. n - (n % 2) \in Nat \ {0}
    BY <2>1
  <2> QED
    BY <1>3, <2>2 DEF Number
<1> QED
  BY <1>2, <1>3

\* What the process starts with is a keyring.
LEMMA RingIsKeyring ==
    ASSUME NEW e \in Seq(Entry), e # <<>>, VersionedKeys(e).ok
    PROVE  VersionedKeys(e).keys \in Keyrings
<1>1. PICK S, keys : S = DOMAIN e /\ keys = VersionedKeys(e).keys
  OBVIOUS
<1>2. PICK D : D = {Number(e[i].version) : i \in S}
  OBVIOUS
<1>3. /\ IsFiniteSet(S)
      /\ \A i \in S : Number(e[i].version) \in Nat \ {0} /\ e[i].key \in KeyBytes
      /\ \A i \in S : keys[Number(e[i].version)] = e[i].key
      /\ keys = [v \in D |-> keys[v]]
  <2>1. /\ IsFiniteSet(S)
        /\ \A i \in S : e[i].version \in Nat /\ e[i].key \in KeyBytes \cup {NoKey}
        /\ \A i \in S : Matches(e[i]) /\ keys[Number(e[i].version)] = e[i].key
        /\ keys = [v \in DOMAIN keys |-> keys[v]]
        /\ DOMAIN keys = D
    BY <1>1, <1>2, RingIs
  <2>2. \A i \in S : e[i].version # 0 /\ e[i].key # NoKey
    BY <2>1 DEF Matches, NoVersion
  <2>3. \A i \in S : Number(e[i].version) \in Nat \ {0}
    BY <2>1, <2>2, NumberIs
  <2> QED
    BY <2>1, <2>2, <2>3
<1>4. IsFiniteSet(D)
  <2>1. PICK f : f = [i \in S |-> Number(e[i].version)]
    OBVIOUS
  <2>2. f \in Surjection(S, D)
    BY <1>2, <2>1 DEF Surjection
  <2> QED
    BY <1>3, <2>2, FS_Surjection
<1>5. D \in SUBSET (Nat \ {0}) /\ \A v \in D : keys[v] \in KeyBytes
  BY <1>2, <1>3
<1>6. D # {}
  <2>1. S = 1 .. Len(e) /\ Len(e) \in Nat /\ Len(e) # 0
    <3>1. e \in Seq(Entry) /\ e # <<>>
      OBVIOUS
    <3>2. Len(e) \in Nat \ {0}
      BY <3>1, EmptySeq
    <3>3. DOMAIN e = 1 .. Len(e)
      BY <3>1, LenProperties
    <3> QED
      BY <1>1, <3>2, <3>3
  <2>2. 1 \in S
    <3>1. PICK n : n = Len(e)
      OBVIOUS
    <3>2. n \in Nat /\ n # 0 /\ S = 1 .. n
      BY <2>1, <3>1
    <3> QED
      BY <3>2
  <2>3. Number(e[1].version) \in D
    BY <1>2, <2>2
  <2> QED
    BY <2>3
<1>7. keys \in [D -> KeyBytes]
  BY <1>3, <1>5
<1> QED
  BY <1>1, <1>4, <1>5, <1>6, <1>7 DEF Keyrings

\* In particular the keyrings and values of the runs.
THEOREM PayloadsOpen == Spec => []PayloadsOpenWithTheirKey
<1>1. Rings \in SUBSET Keyrings
  <2>1. ASSUME NEW t \in Texts, VersionedKeys(t).ok
        PROVE  VersionedKeys(t).keys \in Keyrings
    <3>1. t \in Seq(Entry) /\ t # <<>>
      BY TextsAreTexts DEF Texts
    <3> QED
      BY <2>1, <3>1, RingIsKeyring
  <2> QED
    BY <2>1 DEF Rings
<1>2. DecryptionError \notin Emails
  BY KeyRotationAssumption
<1>3. ValuesOpenWithTheirKey(Rings, Fields, Emails)
  BY <1>1, <1>2, ValuesOpen
<1>4. PayloadsOpenWithTheirKey
  BY <1>3 DEF PayloadsOpenWithTheirKey
<1> QED
  BY <1>4, PTL
=============================================================================
