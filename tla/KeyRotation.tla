---------------------------- MODULE KeyRotation ----------------------------
(***************************************************************************)
(* The personal data of users, encrypted under versioned keys, while the   *)
(* encryption key is rotated as README.md:92-95 tells the operator to:     *)
(* deploy the API with both keys, run scripts/reencrypt.ts, deploy it      *)
(* without the old key.  Meanwhile the API registers and deletes accounts  *)
(* and changes names and emails, and the deployments overlap: the old      *)
(* revision goes on serving until it is retired.                           *)
(*                                                                         *)
(* A request encrypts with the keyring of its revision, then awaits its    *)
(* one statement.  The script reads a page of rows, then writes them back  *)
(* one statement at a time from what it read.                              *)
(***************************************************************************)
EXTENDS Keyring

CONSTANTS
    Ids,          \* row ids; the order of the numbers is the order of the uuids
    Fields,       \* the encrypted columns
    Email,        \* the one that has a blind index
    Emails,       \* plain values of Email
    Names,        \* plain values of the other columns
    OldKey,       \* the key the rotation replaces
    NewKey,       \* the one it introduces
    Reqs,         \* requests the API can serve at the same time
    Batch,        \* rows the script reads at a time
    Deletions,    \* whether accounts are deleted meanwhile
    Drained       \* whether the operator waits for the old revision to end

ASSUME KeyRotationAssumption ==
    /\ Ids \subseteq Nat \ {0}
    /\ IsFiniteSet(Ids)
    /\ Email \in Fields
    /\ {OldKey, NewKey} \subseteq KeyBytes
    /\ OldKey # NewKey
    /\ Exponential > 2
    /\ DecryptionError \notin Emails \cup Names
    /\ Batch \in Nat \ {0}
    /\ Deletions \in BOOLEAN
    /\ Drained \in BOOLEAN

VARIABLES
    rows,         \* the table users: a function from the ids of its rows
    born,         \* ids drawn so far
    revisions,    \* revisions of the API that are serving
    req,          \* what each request is doing
    script,       \* what the script is doing
    \* History: no code reads these.
    overtaken,    \* columns the script wrote although they had changed
    late,         \* rows an old revision wrote after the script had read them
    skipped       \* rows the script's cursor passed over

vars == <<rows, born, revisions, req, script, overtaken, late, skipped>>

-----------------------------------------------------------------------------
\* Versions of the key.
Old == 1
New == 2

\* ENCRYPTION_KEYS of the revisions, in the order they are deployed, and the
\* keyrings they come to.
Before == 1
Both == 2
After == 3
Revisions == {Before, Both, After}
EncryptionKeys ==
    <<<<[version |-> Old, key |-> OldKey]>>,
      <<[version |-> Old, key |-> OldKey], [version |-> New, key |-> NewKey]>>,
      <<[version |-> New, key |-> NewKey]>>>>
Keys == [v \in Revisions |-> VersionedKeys(EncryptionKeys[v]).keys]

Newest == CHOOSE v \in revisions : \A w \in revisions : v >= w

Plains == Emails \cup Names
Value == [version : {Old, New}, key : {OldKey, NewKey}, context : Fields, plain : Plains]

\* `chosen` is history: what the owner last wrote.
Row == [value : [Fields -> Value], emailHash : Emails, chosen : [Fields -> Plains]]

Idle == [pc |-> "idle"]
Busy == [pc : {"create", "update"}, id : Ids,
         data : UNION {[F -> Value] : F \in SUBSET Fields}]

Script == [pc : {"off", "find", "update", "done", "failed"}, cursor : Ids \cup {0},
           todo : UNION {[I -> [Fields -> Value]] : I \in SUBSET Ids}]

TypeOK ==
    /\ born \subseteq Ids
    /\ DOMAIN rows \subseteq born
    /\ rows \in [DOMAIN rows -> Row]
    /\ revisions \in (SUBSET Revisions) \ {{}}
    /\ req \in [Reqs -> {Idle} \cup Busy]
    /\ script \in Script
    /\ overtaken \subseteq Ids \X Fields
    /\ late \subseteq Ids
    /\ skipped \subseteq Ids

-----------------------------------------------------------------------------
\* Every column is encrypted under its own context.
Encrypted(data, keys) == [f \in DOMAIN data |-> Encrypt(keys, data[f], f)]

\* Mutant of Merged: the columns that were not given are lost.
MergedNothing(old, new) == new

\* Columns that change leave the others of `old` as they are.
Merged(old, new) == [f \in Fields |-> IF f \in DOMAIN new THEN new[f] ELSE old[f]]

Plain(data) == [f \in DOMAIN data |-> data[f].plain]

\* Mutant of UpdatedRow: the blind index of the email is forgotten.
UpdatedRowNoIndex(row, data) ==
    [row EXCEPT !.value = Merged(@, data), !.chosen = Merged(@, Plain(data))]

\* updateName and updateEmail write the columns they are given.
UpdatedRow(row, data) ==
    [row EXCEPT !.value = Merged(@, data),
                !.emailHash = IF Email \in DOMAIN data THEN data[Email].plain ELSE @,
                !.chosen = Merged(@, Plain(data))]

NewRow(data) == [value |-> data, emailHash |-> data[Email].plain, chosen |-> Plain(data)]

\* The unique index on emailHash.
Free(data, id) ==
    Email \in DOMAIN data =>
        \A i \in DOMAIN rows \ {id} : rows[i].emailHash # data[Email].plain

At(r, pc) == req[r] # Idle /\ req[r].pc = pc
Answer(r) == req' = [req EXCEPT ![r] = Idle]
Running == script.pc \in {"find", "update"}

\* Row id was just written by request r: if with the old key, and the script
\* will not come to it any more, that is late.
Written(id, r) ==
    /\ overtaken' = overtaken \ ({id} \X DOMAIN req[r].data)
    /\ late' = IF /\ \E f \in DOMAIN req[r].data : req[r].data[f].version = Old
                  /\ \/ script.pc = "done"
                     \/ Running /\ id <= script.cursor
               THEN late \cup {id} ELSE late

-----------------------------------------------------------------------------
Init ==
    /\ rows = [i \in {} |-> {}]
    /\ born = {}
    /\ revisions = {Before}
    /\ req = [r \in Reqs |-> Idle]
    /\ script = [pc |-> "off", cursor |-> 0, todo |-> [i \in {} |-> {}]]
    /\ overtaken = {}
    /\ late = {}
    /\ skipped = {}

\* A request encrypts with the keyring of the revision that serves it.
Begin(r, pc, id, data) ==
    /\ req[r] = Idle
    /\ \E v \in revisions :
          req' = [req EXCEPT ![r] = [pc |-> pc, id |-> id,
                                     data |-> Encrypted(data, Keys[v])]]
    /\ UNCHANGED <<rows, born, revisions, script, overtaken, late, skipped>>

\* register
BeginCreate(r, id, data) == id \notin born /\ Begin(r, "create", id, data)

\* updateName, of at least one name, and updateEmail
BeginUpdate(r, id, data) == id \in DOMAIN rows /\ Begin(r, "update", id, data)

\* users.create: a taken email is a conflict.
Create(r) ==
    LET id == req[r].id IN
    /\ At(r, "create")
    /\ Answer(r)
    /\ IF id \notin born /\ Free(req[r].data, id)
         THEN /\ rows' = [i \in DOMAIN rows \cup {id} |->
                             IF i = id THEN NewRow(req[r].data)
                                       ELSE rows[i]]
              /\ born' = born \cup {id}
              /\ Written(id, r)
         ELSE UNCHANGED <<rows, born, overtaken, late>>
    /\ UNCHANGED <<revisions, script, skipped>>

\* users.updateName, users.updateEmail: fails when the row is gone or the email
\* is taken.
Update(r) ==
    LET id == req[r].id IN
    /\ At(r, "update")
    /\ Answer(r)
    /\ IF id \in DOMAIN rows /\ Free(req[r].data, id)
         THEN /\ rows' = [rows EXCEPT ![id] =
                             UpdatedRow(@, req[r].data)]
              /\ Written(id, r)
         ELSE UNCHANGED <<rows, overtaken, late>>
    /\ UNCHANGED <<born, revisions, script, skipped>>

\* users.delete
Delete(id) ==
    /\ Deletions
    /\ id \in DOMAIN rows
    /\ rows' = [i \in DOMAIN rows \ {id} |-> rows[i]]
    /\ overtaken' = overtaken \ ({id} \X Fields)
    /\ UNCHANGED <<born, revisions, req, script, late, skipped>>

\* A request's statement is never executed.
Fail(r) ==
    /\ req[r] # Idle
    /\ Answer(r)
    /\ UNCHANGED <<rows, born, revisions, script, overtaken, late, skipped>>

-----------------------------------------------------------------------------
(* The operator. *)

\* Steps 1 and 3 of the rotation; step 3 waits for step 2 to succeed.
Deploy(v) ==
    /\ v = Newest + 1
    /\ Cardinality(revisions) = 1
    /\ v = After => script.pc = "done"
    /\ revisions' = revisions \cup {v}
    /\ UNCHANGED <<rows, born, req, script, overtaken, late, skipped>>

\* The platform ends the revision that was replaced.
Retire(v) ==
    /\ v \in revisions
    /\ v # Newest
    /\ revisions' = revisions \ {v}
    /\ UNCHANGED <<rows, born, req, script, overtaken, late, skipped>>

\* Step 2, again after a failure.
StartScript ==
    /\ script.pc \in {"off", "failed"}
    /\ Newest = Both
    /\ Drained => /\ revisions = {Both}
                  /\ \A r \in Reqs : req[r] # Idle =>
                        \A f \in DOMAIN req[r].data : req[r].data[f].version = New
    /\ script' = [pc |-> "find", cursor |-> 0, todo |-> [i \in {} |-> {}]]
    /\ late' = {}
    /\ skipped' = {}
    /\ UNCHANGED <<rows, born, revisions, req, overtaken>>

-----------------------------------------------------------------------------
(* scripts/reencrypt.ts *)

\* Mutant of Beyond: skip: 1 is missing.
BeyondWithCursor(c) == {i \in DOMAIN rows : i >= c}
Beyond(c) == {i \in DOMAIN rows : i > c}

\* The rows a findMany with take: Batch, orderBy: id returns out of S.
Page(S) ==
    {B \in SUBSET S :
        /\ Cardinality(B) = IF Cardinality(S) < Batch THEN Cardinality(S) ELSE Batch
        /\ \A i \in B, j \in S \ B : i < j}

\* What cursor and skip: 1 leave to return.  When the row of the cursor was
\* deleted that is nothing, or all but the row that skip takes for the cursor.
Found ==
    LET beyond == Beyond(script.cursor) IN
    IF script.cursor = 0 \/ script.cursor \in DOMAIN rows
      THEN {beyond}
      ELSE {{}, {i \in beyond : \E j \in beyond : j < i}}

NextCursor(B) == CHOOSE i \in B : \A j \in B : i >= j

\* Mutant of RowsToDo: a row is looked at by its email only.
RowsToDoByEmail(B) == {i \in B : NeedsReencryption(Keys[Both], rows[i].value[Email])}
RowsToDo(B) ==
    {i \in B : \E f \in Fields : NeedsReencryption(Keys[Both], rows[i].value[f])}

\* The next page: the script ends when there is none.  Rows with nothing to
\* re-encrypt are left alone.
FindMany ==
    /\ script.pc = "find"
    /\ \E S \in Found : \E B \in Page(S) :
        /\ skipped' = skipped \cup (Beyond(script.cursor) \ S)
        /\ script' =
              IF B = {} THEN [script EXCEPT !.pc = "done"]
              ELSE [pc |-> IF RowsToDo(B) = {} THEN "find" ELSE "update",
                    cursor |-> NextCursor(B),
                    todo |-> [i \in RowsToDo(B) |-> rows[i].value]]
    /\ UNCHANGED <<rows, born, revisions, req, overtaken, late>>

\* The next row of the page: the columns that needed it when they were read.
\* When the row is gone the script dies of it.
UpdateRow ==
    LET todo == script.todo
        id == CHOOSE i \in DOMAIN todo : \A j \in DOMAIN todo : i <= j
        stale == {f \in Fields : NeedsReencryption(Keys[Both], todo[id][f])}
        rest == DOMAIN todo \ {id} IN
    /\ script.pc = "update"
    /\ IF id \in DOMAIN rows
         THEN /\ rows' = [rows EXCEPT ![id].value =
                    Merged(@, [f \in stale |-> Reencrypt(Keys[Both], todo[id][f], f)])]
              /\ overtaken' = overtaken \cup
                    {<<id, f>> : f \in {g \in stale : rows[id].value[g] # todo[id][g]}}
              /\ script' = [script EXCEPT !.pc = IF rest = {} THEN "find" ELSE "update",
                                          !.todo = [i \in rest |-> todo[i]]]
         ELSE /\ script' = [script EXCEPT !.pc = "failed"]
              /\ UNCHANGED <<rows, overtaken>>
    /\ UNCHANGED <<born, revisions, req, late, skipped>>

\* A statement of the script fails, or it is killed.
ScriptFails ==
    /\ Running
    /\ script' = [script EXCEPT !.pc = "failed"]
    /\ UNCHANGED <<rows, born, revisions, req, overtaken, late, skipped>>

\* Values a request may give for the columns F.
Inputs(F) ==
    {data \in [F -> Plains] : \A f \in F : data[f] \in IF f = Email THEN Emails ELSE Names}

Next ==
    \/ \E r \in Reqs, id \in Ids :
          \/ \E data \in Inputs(Fields) : BeginCreate(r, id, data)
          \/ \E F \in (SUBSET (Fields \ {Email})) \ {{}} : \E data \in Inputs(F) :
                BeginUpdate(r, id, data)
          \/ \E data \in Inputs({Email}) : BeginUpdate(r, id, data)
    \/ \E r \in Reqs : Create(r) \/ Update(r) \/ Fail(r)
    \/ \E id \in Ids : Delete(id)
    \/ \E v \in Revisions : Deploy(v) \/ Retire(v)
    \/ StartScript \/ FindMany \/ UpdateRow \/ ScriptFails

Spec == Init /\ [][Next]_vars

\* The script is not left waiting for its statements.
Fairness == WF_vars(FindMany \/ UpdateRow)

FairSpec == Spec /\ Fairness

-----------------------------------------------------------------------------
(* Properties *)

\* Whatever the rotation does, a column decrypts to what its owner last wrote
\* and an account is found under the email its owner last chose: except in a
\* column that was changed between the script's read and its write.
DataIsTheOwners ==
    \A i \in DOMAIN rows :
        /\ rows[i].emailHash = rows[i].chosen[Email]
        /\ \A f \in Fields :
              \/ Decrypt(Keys[Both], rows[i].value[f], f) = rows[i].chosen[f]
              \/ <<i, f>> \in overtaken

\* Every revision that serves can read every column, with two exceptions: the
\* one without the new key, what another has written with it; and the one
\* without the old key, what the script did not come to.
ServingRevisionsRead ==
    \A v \in revisions, i \in DOMAIN rows, f \in Fields :
        Decrypt(Keys[v], rows[i].value[f], f) = DecryptionError =>
            \/ v = Before /\ Both \in revisions
            \/ v = After /\ i \in late \cup skipped

\* When the script says it is done, every column of every account there is
\* decrypts with the new key alone, unless an old revision wrote the row after
\* the script had read it or the row of the cursor was deleted under it.
RunReachesEveryRow ==
    script.pc = "done" =>
        \A i \in DOMAIN rows \ (late \cup skipped), f \in Fields :
            rows[i].value[f].version = New

\* The script ends, whatever the API does to the table meanwhile.
ScriptEnds == Running ~> script.pc \in {"done", "failed"}

-----------------------------------------------------------------------------
(* What the documentation says. *)

\* README.md:42, 89: the script re-encrypts the personal data, and the blind
\* index is of the email: an account is found under the email it decrypts to.
EmailMatchesItsIndex ==
    \A i \in DOMAIN rows : rows[i].emailHash = rows[i].value[Email].plain
=============================================================================
