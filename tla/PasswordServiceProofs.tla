----------------------- MODULE PasswordServiceProofs -----------------------
(***************************************************************************)
(* Proofs about PasswordService: what a login costs, why one errs and what *)
(* an accepted one leaves stored, for any number of logins at once and any *)
(* parameters of argon2.                                                   *)
(***************************************************************************)
EXTENDS PasswordService, SequenceTheorems, TLAPS

-----------------------------------------------------------------------------
(* Hashes and derivations *)

Hashes == StoredHashes \cup {Fresh}

\* The parameters of a hash, and a fresh one's.
LEMMA HashIs ==
    ASSUME NEW h \in Hashes
    PROVE  /\ \A c \in Costs : h[c] \in Nat
           /\ ParamsOf(h) \in AllParams
<1>1. CASE h \in StoredHashes
  <2>1. h \in [memory : Nat, passes : Nat, parallelism : Nat, whole : BOOLEAN]
    BY <1>1, PasswordServiceAssumption
  <2>2. h["memory"] \in Nat /\ h["passes"] \in Nat /\ h["parallelism"] \in Nat
    BY <2>1
  <2> QED
    BY <1>1, <2>2 DEF AllParams, Costs
<1>2. CASE h = Fresh
  <2>1. \A c \in Costs : c # "whole"
    BY DEF Costs
  <2>2. \A c \in Costs : h[c] = Params[c]
    BY <1>2, <2>1 DEF Fresh
  <2>3. Params \in [Costs -> Nat \ {0}]
    BY PasswordServiceAssumption
  <2>4. ParamsOf(h) = Params
    BY <2>2, <2>3 DEF ParamsOf
  <2> QED
    BY <2>2, <2>3, <2>4 DEF AllParams
<1> QED
  BY <1>1, <1>2 DEF Hashes

\* A fresh hash has the current parameters, and so is strong enough.
LEMMA FreshIsStrong == \A c \in Costs : Fresh[c] >= Params[c]
<1>1. \A c \in Costs : c # "whole"
  BY DEF Costs
<1>2. \A c \in Costs : Fresh[c] = Params[c]
  BY <1>1 DEF Fresh
<1> QED
  BY <1>2, PasswordServiceAssumption

\* So has one that is not re-hashed.
LEMMA KeptIsStrong ==
    ASSUME NEW h \in Hashes, ~ NeedsRehash(h)
    PROVE  \A c \in Costs : h[c] >= Params[c]
BY HashIs, PasswordServiceAssumption DEF NeedsRehash

\* What Node's argon2 does not take of what parse does: lanes short of memory.
LEMMA UnderivableIsStarved ==
    ASSUME NEW h \in Hashes, Readable(h), ~ Derivable(ParamsOf(h))
    PROVE  Starved(h)
<1>1. /\ ParamsOf(h).memory = h.memory
      /\ ParamsOf(h).passes = h.passes
      /\ ParamsOf(h).parallelism = h.parallelism
  BY DEF ParamsOf, Costs
<1> QED
  BY <1>1 DEF Readable, Derivable, Starved

\* No more than two derivations.
LEMMA SpentIs ==
    /\ <<>> \in Spent
    /\ \A p \in AllParams : <<p>> \in Spent /\ Append(<<>>, p) = <<p>>
    /\ \A p, q \in AllParams : <<p, q>> \in Spent /\ Append(<<p>>, q) = <<p, q>>
<1>1. <<>> \in [1 .. 0 -> AllParams]
  OBVIOUS
<1>2. \A p \in AllParams : <<p>> \in [1 .. 1 -> AllParams]
  OBVIOUS
<1>3. \A p, q \in AllParams : <<p, q>> \in [1 .. 2 -> AllParams]
  OBVIOUS
<1>4. \A n \in 0 .. 2 : [1 .. n -> AllParams] \subseteq Spent
  BY DEF Spent
<1>5. /\ [1 .. 0 -> AllParams] \subseteq Spent
      /\ [1 .. 1 -> AllParams] \subseteq Spent
      /\ [1 .. 2 -> AllParams] \subseteq Spent
  BY <1>4
<1>6. \A p \in AllParams : Append(<<>>, p) = <<p>>
  OBVIOUS
<1>7. ASSUME NEW p \in AllParams, NEW q \in AllParams
      PROVE  Append(<<p>>, q) = <<p, q>>
  <2> DEFINE s == Append(<<p>>, q)
  <2>1. /\ s \in Seq(AllParams) /\ Len(s) = 2 /\ s[1] = p /\ s[2] = q
    <3>1. <<p>> \in Seq(AllParams) /\ Len(<<p>>) = 1 /\ <<p>>[1] = p
      OBVIOUS
    <3> QED
      BY <3>1, AppendProperties
  <2> DEFINE t == <<p, q>>
  <2>2. t \in Seq(AllParams) /\ Len(t) = 2 /\ t[1] = p /\ t[2] = q
    OBVIOUS
  <2> HIDE DEF s, t
  <2>3. \A i \in 1 .. Len(s) : s[i] = t[i]
    <3>1. \A i \in 1 .. 2 : i = 1 \/ i = 2
      OBVIOUS
    <3> QED
      BY <2>1, <2>2, <3>1
  <2>4. s = t
    BY <2>1, <2>2, <2>3, SeqEqual
  <2> QED
    BY <2>4 DEF s, t
<1> QED
  BY <1>1, <1>2, <1>3, <1>5, <1>6, <1>7

-----------------------------------------------------------------------------
(* What each login knows *)

Cost(by) ==
    IF "early" \in DOMAIN by
      THEN IF by.early THEN <<Params, Params>> ELSE <<Params>>
      ELSE IF Readable(by.hash) THEN <<ParamsOf(by.hash)>> ELSE <<>>

Excused(q, dummy) ==
    \/ q.own
    \/ "early" \in DOMAIN q.by /\ dummy = "rejected"
    \/ "hash" \in DOMAIN q.by /\ Starved(q.by.hash)

Strong(h) == \A c \in Costs : h[c] >= Params[c]

\* The login q, beside the stored hash h and the dummy hash: what it has waited for so
\* far follows from where it is, the hash it read is stored until a fresh one is, and
\* its answer is the right one.
Sound(q, h, dummy) ==
    /\ q.pc \in {"memo", "dummy"} => q.spent = IF q.early THEN <<Params>> ELSE <<>>
    /\ q.pc \in {"verify", "rehash"} => h = q.hash \/ h = Fresh
    /\ q.pc = "verify" => q.spent = <<>>
    /\ q.pc = "rehash" => q.spent = <<ParamsOf(q.hash)>>
    /\ q.pc = "answered" =>
          /\ q.status = 401 => q.spent = Cost(q.by)
          /\ q.status = 500 => Excused(q, dummy)
          /\ q.status = 200 => Strong(h)

Inv ==
    /\ TypeOK
    /\ \A r \in Reqs : Sound(req[r], stored, dummyHash)

Record == {Idle} \cup Unknown \cup Known \cup Answered

\* The stages of a login, by what is recorded of it.
LEMMA RecordIs ==
    ASSUME NEW q \in Record
    PROVE  /\ q.pc \in {"idle", "memo", "dummy", "verify", "rehash", "answered"}
           /\ q.pc \in {"memo", "dummy"} => q \in Unknown
           /\ q.pc \in {"verify", "rehash"} => q \in Known
<1>1. CASE q = Idle
  BY <1>1 DEF Idle
<1>2. CASE q \in Unknown
  BY <1>2 DEF Unknown
<1>3. CASE q \in Known
  BY <1>3 DEF Known
<1>4. CASE q \in Answered
  BY <1>4 DEF Answered
<1> QED
  BY <1>1, <1>2, <1>3, <1>4 DEF Record

\* Whom the login of an unknown email was for.
LEMMA ByUnknown ==
    ASSUME NEW r, req[r] \in Unknown
    PROVE  /\ By(r) = [early |-> req[r].early]
           /\ By(r) \in [early : BOOLEAN]
           /\ "early" \in DOMAIN By(r) /\ By(r).early = req[r].early
<1>1. "early" \in DOMAIN req[r] /\ req[r].early \in BOOLEAN
  BY DEF Unknown
<1> QED
  BY <1>1 DEF By, Unknowns

\* A login of a known account is judged by its stored hash.
LEMMA ByKnown ==
    ASSUME NEW r, req[r] \in Known
    PROVE  /\ By(r) \in [hash : Hashes]
           /\ "early" \notin DOMAIN By(r) /\ "hash" \in DOMAIN By(r)
           /\ By(r).hash = req[r].hash
           /\ req[r].hash \in Hashes /\ Readable(req[r].hash)
<1>1. "early" \notin DOMAIN req[r] /\ req[r].hash \in Hashes /\ Readable(req[r].hash)
  BY DEF Known, Hashes
<1> QED
  BY <1>1 DEF By, Unknowns

Whoms == [early : BOOLEAN] \cup [hash : StoredHashes \cup {Fresh, NotPhc}]

\* What AnswerWith records of a login.
Reply(status, spent, own, by) ==
    [pc |-> "answered", status |-> status, spent |-> spent, own |-> own, by |-> by]

\* Such an answer is right when its cost, its excuse or what is stored is.
Right(status, spent, own, by, h, dummy) ==
    /\ status \in {200, 401, 500} /\ spent \in Spent /\ own \in BOOLEAN /\ by \in Whoms
    /\ status = 401 => spent = Cost(by)
    /\ status = 500 => \/ own
                       \/ "early" \in DOMAIN by /\ dummy = "rejected"
                       \/ "hash" \in DOMAIN by /\ Starved(by.hash)
    /\ status = 200 => Strong(h)

\* An answer that is right is a record that is sound.
LEMMA ReplyIs ==
    ASSUME NEW status, NEW spent, NEW own, NEW by, NEW h, NEW dummy,
           Right(status, spent, own, by, h, dummy)
    PROVE  /\ Reply(status, spent, own, by) \in Record
           /\ Sound(Reply(status, spent, own, by), h, dummy)
<1> DEFINE q == Reply(status, spent, own, by)
<1>1. /\ q \in Answered /\ q.pc = "answered" /\ q.status = status /\ q.spent = spent
      /\ q.own = own /\ q.by = by
  BY DEF Answered, Whoms, Reply, Right
<1> HIDE DEF q
<1>2. Sound(q, h, dummy)
  BY <1>1 DEF Sound, Excused, Right
<1> QED
  BY <1>1, <1>2 DEF Record, q

\* A login that takes no step stays sound: the hash that is stored changes into a fresh
\* one only, and a rejected dummy hash stays so.
LEMMA SoundStays ==
    ASSUME NEW q \in Record, NEW h, NEW hh, NEW dummy, NEW then, Sound(q, h, dummy),
           hh = h \/ hh = Fresh, dummy = "rejected" => then = "rejected"
    PROVE  Sound(q, hh, then)
BY FreshIsStrong DEF Sound, Strong, Excused

\* Login r goes to q, and the invariant is kept.
LEMMA StepKeeps ==
    ASSUME Inv, NEW r \in Reqs, NEW q \in Record, req' = [req EXCEPT ![r] = q],
           Sound(q, stored', dummyHash'),
           stored' = stored \/ stored' = Fresh,
           dummyHash = "rejected" => dummyHash' = "rejected",
           dummyHash' \in {"undefined", "pending", "hash", "rejected"},
           failures' \in 0 .. MaxFailures
    PROVE  Inv'
<1>1. req \in [Reqs -> Record]
  BY DEF Inv, TypeOK, Record
<1>2. req' \in [Reqs -> Record] /\ req'[r] = q /\ \A p \in Reqs \ {r} : req'[p] = req[p]
  BY <1>1
<1>3. TypeOK'
  BY <1>2 DEF Inv, TypeOK, Record
<1>4. ASSUME NEW p \in Reqs
      PROVE  Sound(req'[p], stored', dummyHash')
  <2>1. CASE p = r
    BY <1>2, <2>1
  <2>2. CASE p # r
    <3>1. Sound(req[p], stored, dummyHash) /\ req[p] \in Record /\ req'[p] = req[p]
      BY <1>1, <1>2, <2>2 DEF Inv
    <3> QED
      BY <3>1, SoundStays
  <2> QED
    BY <2>1, <2>2
<1> QED
  BY <1>3, <1>4 DEF Inv

\* The invariant holds initially.
LEMMA InvInit == Init => Inv
<1> SUFFICES ASSUME Init PROVE Inv
  OBVIOUS
<1>1. \A r \in Reqs : req[r] = Idle /\ Sound(req[r], stored, dummyHash)
  BY DEF Init, Sound, Idle
<1>2. TypeOK
  BY PasswordServiceAssumption DEF Init, TypeOK
<1> QED
  BY <1>1, <1>2 DEF Inv

\* Each action leads its login to a sound record.
LEMMA InvNext == Inv /\ [Next]_vars => Inv'
<1> SUFFICES ASSUME Inv, [Next]_vars PROVE Inv'
  OBVIOUS
<1>a. /\ req \in [Reqs -> Record]
      /\ stored \in StoredHashes \cup {Fresh, NotPhc}
      /\ dummyHash \in {"undefined", "pending", "hash", "rejected"}
      /\ failures \in 0 .. MaxFailures
      /\ MaxFailures \in Nat
  BY PasswordServiceAssumption DEF Inv, TypeOK, Record
<1>b. \A r \in Reqs : Sound(req[r], stored, dummyHash) /\ req[r] \in Record
  BY <1>a DEF Inv
<1>c. Params \in AllParams /\ <<>> \in Spent /\ <<Params>> \in Spent /\ <<Params, Params>> \in Spent
      /\ Append(<<>>, Params) = <<Params>> /\ Append(<<Params>>, Params) = <<Params, Params>>
  BY SpentIs DEF AllParams
<1>1. ASSUME NEW r \in Reqs, LoginUnknown(r)
      PROVE  Inv'
  <2> DEFINE early == dummyHash \in {"undefined", "pending"}
             q == [pc |-> "memo", early |-> early,
                   spent |-> IF early THEN <<Params>> ELSE <<>>]
  <2>1. /\ dummyHash' = IF dummyHash = "undefined" THEN "pending" ELSE dummyHash
        /\ UNCHANGED <<stored, failures>>
    BY <1>1 DEF LoginUnknown, DummyWanted
  <2>2. (dummyHash' = "pending") <=> early
    BY <1>a, <2>1
  <2>3. req' = [req EXCEPT ![r] = q]
    BY <1>1, <2>2 DEF LoginUnknown
  <2>4. /\ q \in Unknown /\ q.pc = "memo" /\ q.early = early
        /\ q.spent = IF early THEN <<Params>> ELSE <<>>
    BY <1>c DEF Unknown
  <2> HIDE DEF q, early
  <2>5. q \in Record /\ Sound(q, stored', dummyHash')
    BY <2>4 DEF Record, Sound
  <2> QED
    BY <1>a, <2>1, <2>3, <2>5, StepKeeps
<1>2. ASSUME NEW r \in Reqs, NEW right \in BOOLEAN, LoginKnown(r, right)
      PROVE  Inv'
  <2>1. UNCHANGED <<stored, dummyHash, failures>>
    BY <1>2 DEF LoginKnown
  <2>2. CASE Readable(stored)
    <3> DEFINE q == [pc |-> "verify", right |-> right, hash |-> stored, spent |-> <<>>]
    <3>1. req' = [req EXCEPT ![r] = q]
      BY <1>2, <2>2 DEF LoginKnown
    <3>2. stored \in StoredHashes \cup {Fresh}
      BY <1>a, <2>2 DEF Readable
    <3>3. q \in Known /\ q.pc = "verify" /\ q.hash = stored /\ q.spent = <<>>
      BY <1>c, <2>2, <3>2 DEF Known
    <3> HIDE DEF q
    <3>4. q \in Record /\ Sound(q, stored', dummyHash')
      BY <2>1, <3>3 DEF Record, Sound
    <3> QED
      BY <1>a, <2>1, <3>1, <3>4, StepKeeps
  <2>3. CASE ~ Readable(stored)
    <3> DEFINE by == [hash |-> stored]
               q == Reply(401, <<>>, FALSE, by)
    <3>1. req' = [req EXCEPT ![r] = q]
      BY <1>2, <2>3 DEF LoginKnown, AnswerWith, Reply
    <3>2. by \in Whoms /\ <<>> = Cost(by)
      BY <1>a, <2>3 DEF Whoms, Cost
    <3> HIDE DEF by
    <3>3. q \in Record /\ Sound(q, stored', dummyHash')
      <4>1. Right(401, <<>>, FALSE, by, stored', dummyHash')
        BY <1>c, <3>2 DEF Right
      <4> QED
        BY <4>1, ReplyIs
    <3> HIDE DEF q
    <3> QED
      BY <1>a, <2>1, <3>1, <3>3, StepKeeps
  <2> QED
    BY <2>2, <2>3
<1>3. ASSUME NEW r \in Reqs, AwaitDummy(r)
      PROVE  Inv'
  <2>1. UNCHANGED <<stored, dummyHash, failures>> /\ req[r].pc = "memo"
    BY <1>3 DEF AwaitDummy
  <2>2. req[r] \in Unknown /\ req[r].spent = IF req[r].early THEN <<Params>> ELSE <<>>
    BY <1>b, <2>1, RecordIs DEF Sound
  <2>3. CASE dummyHash = "hash"
    <3> DEFINE q == [req[r] EXCEPT !.pc = "dummy"]
    <3>1. req' = [req EXCEPT ![r] = q]
      BY <1>3, <2>3 DEF AwaitDummy
    <3>2. q \in Unknown /\ q.pc = "dummy" /\ q.early = req[r].early /\ q.spent = req[r].spent
      BY <2>2 DEF Unknown
    <3> HIDE DEF q
    <3>3. q \in Record /\ Sound(q, stored', dummyHash')
      BY <2>2, <3>2 DEF Record, Sound
    <3> QED
      BY <1>a, <2>1, <3>1, <3>3, StepKeeps
  <2>4. CASE dummyHash = "rejected"
    <3>0. PICK by, spent : by = By(r) /\ spent = req[r].spent
      OBVIOUS
    <3> DEFINE q == Reply(500, spent, FALSE, by)
    <3>1. req' = [req EXCEPT ![r] = q]
      BY <1>3, <2>4, <3>0 DEF AwaitDummy, AnswerWith, Reply
    <3>2. by \in Whoms /\ "early" \in DOMAIN by
      BY <2>2, <3>0, ByUnknown DEF Whoms
    <3>3. spent \in Spent
      BY <2>2, <3>0 DEF Unknown
    <3>4. q \in Record /\ Sound(q, stored', dummyHash')
      <4>1. Right(500, spent, FALSE, by, stored', dummyHash')
        BY <2>1, <2>4, <3>2, <3>3 DEF Right
      <4> QED
        BY <4>1, ReplyIs
    <3> HIDE DEF q
    <3> QED
      BY <1>a, <2>1, <3>1, <3>4, StepKeeps
  <2> QED
    BY <1>3, <2>3, <2>4 DEF AwaitDummy
<1>4. ASSUME NEW r \in Reqs, VerifiedDummy(r)
      PROVE  Inv'
  <2>1. UNCHANGED <<stored, dummyHash, failures>> /\ req[r].pc = "dummy"
    BY <1>4 DEF VerifiedDummy
  <2>2. req[r] \in Unknown /\ req[r].spent = IF req[r].early THEN <<Params>> ELSE <<>>
    BY <1>b, <2>1, RecordIs DEF Sound
  <2>3. PICK by, spent : by = By(r) /\ spent = Append(req[r].spent, Params)
    OBVIOUS
  <2> DEFINE q == Reply(401, spent, FALSE, by)
  <2>4. req' = [req EXCEPT ![r] = q]
    BY <1>4, <2>3 DEF VerifiedDummy, Answer, AnswerWith, Reply
  <2>5. by \in Whoms /\ "early" \in DOMAIN by /\ by.early = req[r].early
    BY <2>2, <2>3, ByUnknown DEF Whoms
  <2>6. spent = (IF by.early THEN <<Params, Params>> ELSE <<Params>>) /\ spent \in Spent
    BY <1>c, <2>2, <2>3, <2>5
  <2>7. spent = Cost(by)
    BY <2>5, <2>6 DEF Cost
  <2>8. q \in Record /\ Sound(q, stored', dummyHash')
    <3>1. Right(401, spent, FALSE, by, stored', dummyHash')
      BY <2>5, <2>6, <2>7 DEF Right
    <3> QED
      BY <3>1, ReplyIs
  <2> HIDE DEF q
  <2> QED
    BY <1>a, <2>1, <2>4, <2>8, StepKeeps
<1>5. ASSUME NEW r \in Reqs, Verified(r)
      PROVE  Inv'
  <2>1. UNCHANGED <<stored, dummyHash, failures>> /\ req[r].pc = "verify"
    BY <1>5 DEF Verified
  <2>2. req[r] \in Known /\ req[r].spent = <<>> /\ (stored = req[r].hash \/ stored = Fresh)
    BY <1>b, <2>1, RecordIs DEF Sound
  <2>3. PICK by, h, p : by = By(r) /\ h = req[r].hash /\ p = ParamsOf(h)
    OBVIOUS
  <2>4. /\ by \in Whoms /\ "early" \notin DOMAIN by /\ "hash" \in DOMAIN by /\ by.hash = h
        /\ h \in Hashes /\ Readable(h) /\ req[r].right \in BOOLEAN
    BY <2>2, <2>3, ByKnown DEF Whoms, Known, Hashes
  <2>5. p \in AllParams /\ <<p>> \in Spent /\ Append(req[r].spent, p) = <<p>> /\ <<p>> = Cost(by)
    BY <2>2, <2>3, <2>4, HashIs, SpentIs DEF Cost
  <2>6. CASE ~ Derivable(p)
    <3> DEFINE q == Reply(500, <<>>, FALSE, by)
    <3>1. req' = [req EXCEPT ![r] = q]
      BY <1>5, <2>3, <2>6 DEF Verified, AnswerWith, Reply
    <3>2. Starved(by.hash)
      BY <2>3, <2>4, <2>6, UnderivableIsStarved
    <3>3. q \in Record /\ Sound(q, stored', dummyHash')
      <4>1. Right(500, <<>>, FALSE, by, stored', dummyHash')
        BY <1>c, <2>4, <3>2 DEF Right
      <4> QED
        BY <4>1, ReplyIs
    <3> HIDE DEF q
    <3> QED
      BY <1>a, <2>1, <3>1, <3>3, StepKeeps
  <2>7. CASE Derivable(p) /\ ~ (req[r].right /\ h.whole)
    <3> DEFINE q == Reply(401, <<p>>, FALSE, by)
    <3>1. req' = [req EXCEPT ![r] = q]
      BY <1>5, <2>3, <2>5, <2>7 DEF Verified, Answer, AnswerWith, Reply
    <3>2. q \in Record /\ Sound(q, stored', dummyHash')
      <4>1. Right(401, <<p>>, FALSE, by, stored', dummyHash')
        BY <2>4, <2>5 DEF Right
      <4> QED
        BY <4>1, ReplyIs
    <3> HIDE DEF q
    <3> QED
      BY <1>a, <2>1, <3>1, <3>2, StepKeeps
  <2>8. CASE Derivable(p) /\ req[r].right /\ h.whole /\ NeedsRehash(h)
    <3> DEFINE q == [[req[r] EXCEPT !.pc = "rehash"] EXCEPT !.spent = <<p>>]
    <3>1. req' = [req EXCEPT ![r] = q]
      BY <1>5, <2>3, <2>8 DEF Verified
    <3>2. q \in Known /\ q.pc = "rehash" /\ q.hash = h /\ q.spent = <<p>>
      BY <2>2, <2>3, <2>5 DEF Known
    <3> HIDE DEF q
    <3>3. q \in Record /\ Sound(q, stored', dummyHash')
      BY <2>1, <2>2, <2>3, <3>2 DEF Record, Sound
    <3> QED
      BY <1>a, <2>1, <3>1, <3>3, StepKeeps
  <2>9. CASE Derivable(p) /\ req[r].right /\ h.whole /\ ~ NeedsRehash(h)
    <3> DEFINE q == Reply(200, <<p>>, FALSE, by)
    <3>1. req' = [req EXCEPT ![r] = q]
      BY <1>5, <2>3, <2>5, <2>9 DEF Verified, Answer, AnswerWith, Reply
    <3>2. Strong(stored')
      BY <2>1, <2>2, <2>3, <2>4, <2>9, KeptIsStrong, FreshIsStrong DEF Strong
    <3>3. q \in Record /\ Sound(q, stored', dummyHash')
      <4>1. Right(200, <<p>>, FALSE, by, stored', dummyHash')
        BY <2>4, <2>5, <3>2 DEF Right
      <4> QED
        BY <4>1, ReplyIs
    <3> HIDE DEF q
    <3> QED
      BY <1>a, <2>1, <3>1, <3>3, StepKeeps
  <2> QED
    BY <2>4, <2>6, <2>7, <2>8, <2>9
<1>6. ASSUME NEW r \in Reqs, Rehashed(r)
      PROVE  Inv'
  <2>1. UNCHANGED <<dummyHash, failures>> /\ stored' = Fresh /\ req[r].pc = "rehash"
    BY <1>6 DEF Rehashed
  <2>2. req[r] \in Known /\ req[r].spent = <<ParamsOf(req[r].hash)>>
    BY <1>b, <2>1, RecordIs DEF Sound
  <2>3. PICK by, spent : by = By(r) /\ spent = Append(req[r].spent, Params)
    OBVIOUS
  <2> DEFINE q == Reply(200, spent, FALSE, by)
  <2>4. req' = [req EXCEPT ![r] = q]
    BY <1>6, <2>3 DEF Rehashed, Answer, AnswerWith, Reply
  <2>5. by \in Whoms /\ req[r].hash \in Hashes
    BY <2>2, <2>3, ByKnown DEF Whoms, Hashes
  <2>6. spent \in Spent
    BY <1>c, <2>2, <2>3, <2>5, HashIs, SpentIs
  <2>7. Strong(stored')
    BY <2>1, FreshIsStrong DEF Strong
  <2>8. q \in Record /\ Sound(q, stored', dummyHash')
    <3>1. Right(200, spent, FALSE, by, stored', dummyHash')
      BY <2>5, <2>6, <2>7 DEF Right
    <3> QED
      BY <3>1, ReplyIs
  <2> HIDE DEF q
  <2> QED
    BY <1>a, <2>1, <2>4, <2>8, StepKeeps
<1>7. ASSUME NEW r \in Reqs, DeriveFails(r)
      PROVE  Inv'
  <2>1. /\ UNCHANGED <<stored, dummyHash>> /\ failures < MaxFailures /\ failures' = failures + 1
        /\ req[r].pc \in {"dummy", "verify", "rehash"}
    BY <1>7 DEF DeriveFails
  <2>2. req[r] \in Unknown \/ req[r] \in Known
    BY <1>b, <2>1, RecordIs
  <2>3. PICK by, spent, own : by = By(r) /\ spent = req[r].spent /\ own = TRUE
    OBVIOUS
  <2> DEFINE q == Reply(500, spent, own, by)
  <2>4. req' = [req EXCEPT ![r] = q]
    BY <1>7, <2>3 DEF DeriveFails, AnswerWith, Reply
  <2>5. by \in Whoms
    BY <2>2, <2>3, ByKnown, ByUnknown DEF Whoms, Hashes
  <2>6. spent \in Spent
    BY <2>2, <2>3 DEF Known, Unknown
  <2>7. q \in Record /\ Sound(q, stored', dummyHash')
    <3>1. Right(500, spent, own, by, stored', dummyHash')
      BY <2>3, <2>5, <2>6 DEF Right
    <3> QED
      BY <3>1, ReplyIs
  <2> HIDE DEF q
  <2>8. failures' \in 0 .. MaxFailures
    BY <1>a, <2>1
  <2> QED
    BY <1>a, <2>1, <2>4, <2>7, <2>8, StepKeeps
<1>8. ASSUME DummySettles
      PROVE  Inv'
  <2>1. /\ UNCHANGED <<stored, req>> /\ dummyHash = "pending" /\ dummyHash' \in {"hash", "rejected"}
        /\ failures' \in {failures, failures + 1} /\ (failures' = failures \/ failures < MaxFailures)
    BY <1>8 DEF DummySettles
  <2>2. failures' \in 0 .. MaxFailures
    BY <1>a, <2>1
  <2>3. \A r \in Reqs : Sound(req[r], stored', dummyHash')
    BY <1>b, <2>1, SoundStays
  <2> QED
    BY <2>1, <2>2, <2>3 DEF Inv, TypeOK
<1>9. ASSUME Restart
      PROVE  Inv'
  <2>1. /\ dummyHash' = "undefined" /\ req' = [r \in Reqs |-> Idle]
        /\ UNCHANGED <<stored, failures>>
    BY <1>9 DEF Restart
  <2>2. \A r \in Reqs : Sound(req'[r], stored', dummyHash')
    BY <2>1 DEF Sound, Idle
  <2> QED
    BY <1>a, <2>1, <2>2 DEF Inv, TypeOK
<1>10. CASE UNCHANGED vars
  BY <1>10 DEF vars, Inv, TypeOK
<1> QED
  BY <1>1, <1>2, <1>3, <1>4, <1>5, <1>6, <1>7, <1>8, <1>9, <1>10 DEF Next, Step

\* A login has waited for two derivations at most, and is where its record says.
THEOREM TypeCorrect == Spec => []TypeOK
<1>1. Inv => TypeOK
  BY DEF Inv
<1> QED
  BY <1>1, InvInit, InvNext, PTL DEF Spec

\* A refused login has cost one derivation with the current parameters, whether there is
\* an account or not, but for the exceptions the property names.
THEOREM RefusalsCost == Spec => []RefusalsCostTheSame
<1>1. Inv => RefusalsCostTheSame
  BY DEF Inv, RefusalsCostTheSame, Is, Sound, Cost
<1> QED
  BY <1>1, InvInit, InvNext, PTL DEF Spec

\* A login throws only when a derivation has failed, or for lanes short of memory.
THEOREM ErrorsHaveReasons == Spec => []ErrorsAreFailures
<1>1. Inv => ErrorsAreFailures
  BY DEF Inv, ErrorsAreFailures, Is, Sound, Excused
<1> QED
  BY <1>1, InvInit, InvNext, PTL DEF Spec

\* What a login that succeeded leaves stored has the current parameters or better, also
\* when it did not re-hash, because another had.
THEOREM AcceptedAreStrong == Spec => []AcceptedHashesAreStrong
<1>1. Inv => AcceptedHashesAreStrong
  BY DEF Inv, AcceptedHashesAreStrong, Is, Sound, Strong
<1> QED
  BY <1>1, InvInit, InvNext, PTL DEF Spec

=============================================================================
