-------------------------- MODULE PasswordService --------------------------
(***************************************************************************)
(* PasswordService under concurrent logins: which derivations of argon2 a  *)
(* login waits for, and how it is answered.  An unknown email or a locked  *)
(* account is verified against a dummy hash, which the first such login    *)
(* computes and all of them share (verifyAgainstDummy); an account's       *)
(* password is verified with the parameters of its stored hash, and the    *)
(* hash is brought up to PARAMS when they are lower.                       *)
(*                                                                         *)
(* What else a login does to the account is in Credentials.  One account   *)
(* is enough here: only the memo is shared by several.                     *)
(***************************************************************************)
EXTENDS Naturals, Sequences

CONSTANTS
    Reqs,          \* logins the process can serve at the same time
    Params,        \* PARAMS
    MaxMemory,     \* MAX_MEMORY
    LaneMemory,    \* the least memory per lane that Node's argon2 takes
    StoredHashes,  \* [memory, passes, parallelism, whole] of hashes in PHC
                   \* format, with the 8 bytes of salt that Node's argon2
                   \* wants; `whole`: the tag has HASH_BYTES
    NotPhc,        \* a stored hash in any other format
    MaxFailures    \* bound: derivations that fail

Costs == {"memory", "passes", "parallelism"}

ASSUME PasswordServiceAssumption ==
    /\ Params \in [Costs -> Nat \ {0}]
    /\ MaxMemory \in Nat /\ MaxMemory >= Params.memory
    /\ LaneMemory \in Nat /\ LaneMemory * Params.parallelism <= Params.memory
    /\ StoredHashes \subseteq [memory : Nat, passes : Nat, parallelism : Nat, whole : BOOLEAN]
    /\ NotPhc \notin StoredHashes
    /\ MaxFailures \in Nat

VARIABLES
    stored,        \* passwordHash of the account
    dummyHash,     \* PasswordService.dummyHash, a promise
    req,           \* what each login is doing, or how it was answered
    failures       \* derivations that failed so far

vars == <<stored, dummyHash, req, failures>>

-----------------------------------------------------------------------------
(* Stored hashes *)

\* Mutant of Readable: a hash with no passes or no lanes is read.
ReadableBelow(h) == h # NotPhc /\ h.memory <= MaxMemory

\* parse returns a result.
Readable(h) ==
    h # NotPhc /\ h.memory <= MaxMemory /\ h.passes >= 1 /\ h.parallelism >= 1

\* Mutant of NeedsRehash: the passes are not looked at.
NeedsRehashMemory(h) ==
    ~ Readable(h) \/ \E c \in {"memory", "parallelism"} : h[c] < Params[c]

NeedsRehash(h) == ~ Readable(h) \/ \E c \in Costs : h[c] < Params[c]

ParamsOf(h) == [c \in Costs |-> h[c]]
Starved(p) == p.memory < LaneMemory * p.parallelism

\* External: the parameters Node's argon2 takes.
Derivable(p) == p.passes >= 1 /\ p.parallelism >= 1 /\ ~ Starved(p)

\* hash
Fresh == [c \in Costs \cup {"whole"} |-> IF c = "whole" THEN TRUE ELSE Params[c]]

-----------------------------------------------------------------------------
(* `spent`: the parameters of the derivations waited for.  `early`: the    *)
(* dummy hash had not settled when the login came.  `own`: a derivation of *)
(* this login failed.  They are history.                                   *)

Idle == [pc |-> "idle"]
AllParams == {ParamsOf(h) : h \in StoredHashes} \cup {Params}
Spent == UNION {[1 .. n -> AllParams] : n \in 0 .. 2}

Unknown == [pc : {"memo", "dummy"}, early : BOOLEAN, spent : Spent]
Known == [pc : {"verify", "rehash"}, right : BOOLEAN, spent : Spent,
          hash : {h \in StoredHashes \cup {Fresh} : Readable(h)}]
Answered ==
    [pc : {"answered"}, status : {200, 401, 500}, spent : Spent, own : BOOLEAN,
     by : [early : BOOLEAN] \cup [hash : StoredHashes \cup {Fresh, NotPhc}]]

TypeOK ==
    /\ stored \in StoredHashes \cup {Fresh, NotPhc}
    /\ dummyHash \in {"undefined", "pending", "hash", "rejected"}
    /\ req \in [Reqs -> {Idle} \cup Unknown \cup Known \cup Answered]
    /\ failures \in 0 .. MaxFailures

Waiting(r) == req[r].pc \notin {"idle", "answered"}
Is(r, status) == req[r].pc = "answered" /\ req[r].status = status

\* Who a login is for.
Unknowns(r) == "early" \in DOMAIN req[r]
By(r) == IF Unknowns(r) THEN [early |-> req[r].early] ELSE [hash |-> req[r].hash]

AnswerWith(r, status, spent, own, by) ==
    req' = [req EXCEPT ![r] = [pc |-> "answered", status |-> status,
                               spent |-> spent, own |-> own, by |-> by]]

\* The derivation with parameters p is done, and with it the login.
Answer(r, status, p) == AnswerWith(r, status, Append(req[r].spent, p), FALSE, By(r))

-----------------------------------------------------------------------------
Init ==
    /\ stored \in StoredHashes \cup {Fresh, NotPhc}
    /\ dummyHash = "undefined"
    /\ req = [r \in Reqs |-> Idle]
    /\ failures = 0

\* Mutant of DummyWanted: = instead of ??=.
DummyWantedAnew == dummyHash' = "pending"

\* this.dummyHash ??= this.hash(...)
DummyWanted == dummyHash' = IF dummyHash = "undefined" THEN "pending" ELSE dummyHash

\* verifyAgainstDummy, up to await this.dummyHash.
LoginUnknown(r) ==
    /\ ~ Waiting(r)
    /\ DummyWanted
    /\ req' = [req EXCEPT ![r] =
          [pc |-> "memo", early |-> dummyHash \in {"undefined", "pending"},
           spent |-> IF dummyHash' = "pending" THEN <<Params>> ELSE <<>>]]
    /\ UNCHANGED <<stored, failures>>

\* The derivation of the dummy hash is done, for better or worse.
DummySettles ==
    /\ dummyHash = "pending"
    /\ \/ dummyHash' = "hash" /\ UNCHANGED failures
       \/ /\ failures < MaxFailures
          /\ failures' = failures + 1
          /\ dummyHash' = "rejected"
    /\ UNCHANGED <<stored, req>>

\* Mutant of AwaitDummy: who waits for a hash is not told of the rejection.
AwaitDummyHash(r) ==
    /\ req[r].pc = "memo" /\ dummyHash = "hash"
    /\ req' = [req EXCEPT ![r].pc = "dummy"]
    /\ UNCHANGED <<stored, dummyHash, failures>>

\* The promise keeps its rejection: later logins get it as well.
AwaitDummy(r) ==
    /\ req[r].pc = "memo"
    /\ \/ dummyHash = "hash" /\ req' = [req EXCEPT ![r].pc = "dummy"]
       \/ dummyHash = "rejected" /\ AnswerWith(r, 500, req[r].spent, FALSE, By(r))
    /\ UNCHANGED <<stored, dummyHash, failures>>

VerifiedDummy(r) ==
    /\ req[r].pc = "dummy"
    /\ Answer(r, 401, Params)
    /\ UNCHANGED <<stored, dummyHash, failures>>

\* Mutant of LoginKnown: what parse could not read is derived all the same.
LoginUnparsed(r, right) ==
    /\ ~ Waiting(r)
    /\ req' = [req EXCEPT ![r] = [pc |-> "verify", right |-> right,
                                  hash |-> stored, spent |-> <<>>]]
    /\ UNCHANGED <<stored, dummyHash, failures>>

\* verify, up to its derivation: a hash that parse does not read is no match.
LoginKnown(r, right) ==
    /\ ~ Waiting(r)
    /\ IF Readable(stored)
         THEN req' = [req EXCEPT ![r] = [pc |-> "verify", right |-> right,
                                         hash |-> stored, spent |-> <<>>]]
         ELSE AnswerWith(r, 401, <<>>, FALSE, [hash |-> stored])
    /\ UNCHANGED <<stored, dummyHash, failures>>

\* verify returns, and needsRehash is asked about the row that login read.
Verified(r) ==
    LET h == req[r].hash
        p == ParamsOf(h) IN
    /\ req[r].pc = "verify"
    /\ IF ~ Derivable(p) THEN AnswerWith(r, 500, <<>>, FALSE, By(r))
       ELSE IF ~ (req[r].right /\ h.whole) THEN Answer(r, 401, p)
       ELSE IF NeedsRehash(h) THEN req' = [req EXCEPT ![r].pc = "rehash", ![r].spent = <<p>>]
       ELSE Answer(r, 200, p)
    /\ UNCHANGED <<stored, dummyHash, failures>>

\* updatePasswordHash with the result of hash
Rehashed(r) ==
    /\ req[r].pc = "rehash"
    /\ stored' = Fresh
    /\ Answer(r, 200, Params)
    /\ UNCHANGED <<dummyHash, failures>>

\* A derivation of the login's own fails: memory is short, say.
DeriveFails(r) ==
    /\ req[r].pc \in {"dummy", "verify", "rehash"}
    /\ failures < MaxFailures
    /\ failures' = failures + 1
    /\ AnswerWith(r, 500, req[r].spent, TRUE, By(r))
    /\ UNCHANGED <<stored, dummyHash>>

\* The process dies and another starts: its memo is its own.
Restart ==
    /\ dummyHash' = "undefined"
    /\ req' = [r \in Reqs |-> Idle]
    /\ UNCHANGED <<stored, failures>>

Step(r) == AwaitDummy(r) \/ VerifiedDummy(r) \/ Verified(r) \/ Rehashed(r)

Next ==
    \/ \E r \in Reqs : \/ LoginUnknown(r)
                       \/ \E right \in BOOLEAN : LoginKnown(r, right)
                       \/ Step(r)
                       \/ DeriveFails(r)
    \/ DummySettles
    \/ Restart

Spec == Init /\ [][Next]_vars

\* Node's thread pool gets to every derivation, and the loop to its promise.
Fairness == WF_vars(DummySettles) /\ \A r \in Reqs : WF_vars(Step(r))

FairSpec == Spec /\ Fairness

-----------------------------------------------------------------------------
(* Properties *)

\* password.service.ts:56, "Iguala el tiempo de respuesta": a login that is
\* refused has waited for one derivation, the same with or without an account.
\* The exceptions are the logins that came before the dummy hash was there,
\* which waited for it too, and an account whose hash cannot be read, which
\* costs nothing, or has other parameters, which cost what they cost.
RefusalsCostTheSame ==
    \A r \in Reqs : Is(r, 401) =>
        LET by == req[r].by IN
        IF "early" \in DOMAIN by
          THEN req[r].spent = IF by.early THEN <<Params, Params>> ELSE <<Params>>
          ELSE req[r].spent = IF Readable(by.hash) THEN <<ParamsOf(by.hash)>> ELSE <<>>

\* password.service.spec.ts:37: no stored hash, malformed or not, makes a login
\* throw.  It does when a derivation failed, the login's own or the one of the
\* dummy hash, however long ago; and for parameters that parse takes and Node
\* does not, less memory than the lanes need.
ErrorsAreFailures ==
    \A r \in Reqs : Is(r, 500) =>
        \/ req[r].own
        \/ "early" \in DOMAIN req[r].by /\ dummyHash = "rejected"
        \/ "hash" \in DOMAIN req[r].by /\ Starved(req[r].by.hash)

\* After a login that succeeded the stored hash has parameters no lower than
\* PARAMS, whatever other logins read before it was re-hashed.
AcceptedHashesAreStrong ==
    \A r \in Reqs : Is(r, 200) => \A c \in Costs : stored[c] >= Params[c]

\* A login is answered, also when the dummy hash it waits for is rejected.
LoginsAreAnswered == \A r \in Reqs : Waiting(r) ~> ~ Waiting(r)
=============================================================================
