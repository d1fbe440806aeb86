# Verification of baja-valle-service

TLA+ models of the service's own logic, the TLC runs that check them on small
instances, and proofs that TLAPS checks for every instance. The service is a
NestJS API over PostgreSQL (Prisma): a catalogue, two mail forms, and accounts
with sessions. What is hard in it is the accounts: every handler is a chain of
awaited statements with no transaction around it, so the handlers of
simultaneous requests interleave at every `await`, and a chain may stop anywhere.

Line numbers below are of the repository (`auth/…` means `src/auth/…`).

## 1. Inventory

| Part | Code | State | Operations | Hard behaviour |
|---|---|---|---|---|
| Sessions | `auth/sessions.service.ts`, `auth/jwt-auth.guard.ts` | table `sessions` | create, rotate, findActive, revoke, revokeAllForUser, revokeFamily | rotate is up to four statements; reuse detection; grace period |
| Login and passwords | `auth/auth.service.ts`, `auth/password.service.ts`, `auth/profile.controller.ts` | `users.passwordHash`, `failedLoginAttempts`, `lockedUntil`; in memory the dummy hash | register, login, change password, change email, delete | decisions on a row read before Argon2 ran; a memo that several logins share and that may be rejected |
| Personal data | `users/users.service.ts`, `common/crypto/encryption.service.ts`, `scripts/reencrypt.ts` | encrypted columns, `emailHash`, versions of the key | encrypt, decrypt, update names and email, re-encrypt | a script that rewrites rows while the API does; overlapping deployments |
| Guards and limits | `app.module.ts`, `auth/roles.guard.ts`, `common/rate-limit/*` | counters in memory | the guards in order, six throttlers | simultaneous requests, shared counters, windows |
| Catalogue | `products/*`, `category/*` | tables `products`, `categories` | create, find, update, remove | find first, write later; foreign key; errors that nothing catches |
| Mail | `mail/mail.service.ts` | none | contact, quote with its workbook | layout and totals; the folio |
| Configuration | `config/env.ts` | none | parsing and validation | the format of the keys |
| Scripts | `scripts/seed-admin.ts` | role of a user | promote or create | find first, create later |
| Pipes | `common/pipes/parse-id.pipe.ts` | none | parse int4 and int8 ids | boundaries |
| Set-up | `setup-app.ts`, `main.ts`, interceptors | none | headers, CORS, logging | none |
| Surroundings | `infra/`, `.github/`, `docker/`, `ids/` | none | deployment | none |

How they interact: a request passes `JwtAuthGuard` (which reads the session's
row), `RolesGuard` and `AppThrottlerGuard`, then its handler calls the services,
which share nothing but the database. Deleting a user deletes its sessions by a
foreign key with cascade. The re-encryption script is a second process on the
same table.

What makes each part correct:

- Sessions: a token family has one redeemable token at a time; a closed family
  stays closed; a replay closes it, a double click does not.
- Login: failures lead to a lock, a lock stops logins and yields only to a proved
  password; whoever changes an account has proved its password; a change of password
  ends the other sessions.
- Personal data: a column holds what its owner wrote, the blind index is the
  email's, and after the script the old key is not needed.
- Passwords: a refusal costs the same with or without an account; a login
  errs only when a derivation did; an accepted password is stored with the current
  parameters.
- Catalogue: a product is in a category there is; a write that finds no row was
  overtaken by another.
- Configuration: the process starts exactly with keys and versions that all differ (the
  versions as the numbers they are read as), and a value opens exactly with the key, version and column it was made for.
- Admin seed: success means that there is an ADMIN, and nobody else becomes one.
- Guards and limits: no client gets more than its limits, and none is refused
  for another's requests.

## 2. Modules

| Module | What it is |
|---|---|
| `RefreshLineage` | abstract: what a family of refresh tokens promises |
| `Sessions` | the `sessions` table and every handler that touches it; implements `RefreshLineage` |
| `SessionsHistory` | `Sessions` with a history variable, for what the tests say of logout-all |
| `Credentials` | login, lockout, re-hash, changes of email and password, deletion |
| `PasswordService` | derivations of argon2, the dummy hash that logins share, the parameters of stored hashes |
| `Keyring` | ENCRYPTION_KEYS as the environment gives it, and EncryptionService over it, as operators |
| `KeyRotation` | over `Keyring`: encrypted columns, the API's writes, deployments and the script |
| `AdminSeed` | the accounts' emails and roles beside `seed-admin` |
| `Catalog` | over `AdminSeed`: categories and products, and the requests of administrators |
| `Admission` | guards, routes and rate limits |
| `Quote` | the sheet of a quote, row by row |
| `SessionsProofs`, `CredentialsProofs`, `PasswordServiceProofs`, `KeyRotationProofs`, `CatalogProofs`, `AdmissionProofs`, `QuoteProofs` | theorems about the module each is named after; `KeyRotationProofs` also about `Keyring`, `CatalogProofs` about `AdminSeed` |
| `SumProofs` | lemmas about sums over finite sets |
| `MCSessions`, `MCCredentials`, `MCPasswordService`, `MCKeyRotation`, `MCCatalog`, `MCAdmission` | symmetry sets and inputs for TLC |

One modelling rule runs through all of them: **a step is one database statement
with the code that runs until the next `await`**. PostgreSQL executes single
statements atomically (an `updateMany` with a `where` on the row it updates
re-evaluates it under the row's lock), and Node runs the code between two awaits
without interruption. A request refused before it wrote anything is not a step.
`Fail` ends a request at any await: the statement was rejected, or the process
died; what had been written stays.

A definition named "Mutant of X" is a deliberately wrong version of the definition
X that follows it. No behaviour specification uses one: they are there to show
that the properties notice the mistake.

### Sessions

| Model | Code |
|---|---|
| `sessions` (id → row with user, family, createdAt, expiresAt, revokedAt) | `prisma/schema.prisma:61-75`; the row's id, its token and the token's hash are one identity, `userAgent` is left out |
| `users` | accounts that exist, for the foreign key |
| `minted`, `families` | tokens and family ids drawn so far: random values do not repeat |
| `req[r]` | the handler `r` runs, the statement it awaits and what it read |
| `StartSession` | `startSession` (auth.service.ts:120-135) from register and login |
| `RotateFind`, `RotateClaim`, `RotateReread`, `RotateRevokeFamily`, `RotateCreate` | `rotate` (sessions.service.ts:44-81), one action per statement |
| `CanActivate` and `Logout`, `LogoutAll`, `RevokeOthers`, `DeleteAccount` | the guard, then the last statement of the handler |
| `Tick` | the clock, in units in which the constants TTL, AccessTtl, Grace and Lag are given |

`new Date()` is evaluated when a statement is sent, so a statement carries a date
between the request's read and its execution (`SentAt`). `Lag` bounds how long a
request may go on; with `Lag` above `MaxTime` there is no bound at all.

### Credentials

`accounts` holds the row's email, its password (a hash verifies exactly one password),
whether the hash has old parameters, the failed attempts and the end of the lock.
`LoginFind` reads the row and, as Argon2's answer depends on nothing else, decides
at once what the request will await: `RecordFailedLogin` and `Lock`, or
`ClearFailedLogins`, `Rehash` and `StartSession`. What is overtaken in between is
thereby whatever happens before those steps. `VerifyCurrentPassword`,
`UpdatePasswordHash` and `RevokeOthers` are changePassword; `UpdateEmail` and
`DeleteAccount` are the ends of changeEmail and delete, which verify the password
first too. An email is one value with its blind index, which is unique: `Free`.
A session here is a whole token family.

History: `chosen` (the password the owner last set), `lockedSince` and
`changedSince` (requests about the account in flight at that moment), `late` and
`cut` (sessions that a change could not end, and why), `lost` (requests that died between the
counter and the lock).

### PasswordService

`LoginUnknown` is a login of an unknown email or a locked account: it asks for the dummy
hash (`this.dummyHash ??= …`, `DummyWanted`), waits for the promise (`AwaitDummy`)
and verifies against what it yields (`VerifiedDummy`). `DummySettles` is the
promise: a rejection stays, and `Restart` is the only way out of it. `LoginKnown`
parses the stored hash at once (`Readable`); `Verified` is the end of its derivation
and `Rehashed` that of a second one with its update. A stored hash is its three
parameters, whether its tag has 32 bytes, or `NotPhc`. What Node's argon2 refuses
beyond `parse` is external (`Derivable`). Each request keeps how it was answered and
the derivations it waited for.

### Keyring and KeyRotation

`VersionedKeys` is the loop of `env.ts:36-54` as a fold over the entries, `Distinct`
the refinement at 104-117. The version of an entry is the whole number that its digits
write; `Number` is what JavaScript makes of it, which up to `Precise` (2^53) is the same and
beyond it may be that of another text too, and the keyring has the `Number`s. A payload is the version, key and column it was made
with and its text: the bytes are abstracted to what opens it. `Printed` is what `v${version}`
comes to when `parse` reads it back: from 10^21 on (`Exponential`) a number prints with an
exponent, and no such payload is ever read. `NeedsReencryption` is defined on payloads that
parse; of any other the code throws, and the model never asks: the versions of a rotation are
1 and 2, and `ValuesOpenWithTheirKey` asks it below `Exponential` only.

`revisions` are the deployments that serve: before the rotation, with both
keys, after. Each has the keyring that its ENCRYPTION_KEYS comes to. A request
encrypts under the newest key of its revision and then awaits its statement. The script is `FindMany` (a page after the cursor,
with the rows that need re-encryption) and `UpdateRow`. Ids are numbers in the
order of the uuids. `Found` is Prisma's behaviour with `cursor` and `skip: 1`:
when the cursor's row is gone, the query yields nothing, or all but one row,
depending on how it compares; the model allows both. The script keeps what it read, encrypted, and
writes what `Reencrypt` makes of it. `Drained` says whether the operator waits for the old revision to
end before the script; README.md:92-95 does not ask for it.

### AdminSeed and Catalog

`AdminSeed` holds of an account its email and its role. `SeedFind` is the script's
look-up; `SeedPromote` and `SeedCreate` the statement that follows, with whatever
the API did in between: a registration, a change of email, a deletion.
`SeedFails` is every way it exits with an error: no password given, a conflict, a
row that is gone.

`Catalog` adds the two tables and the requests that `RolesGuard` lets through
(`CanActivate`: there is an ADMIN who sends it). `update` and `remove` are two
statements, `FindOne` and the write; `create` is one. `Reject` is a statement that
the database refuses; nothing catches it, so the client sees a 500. Ids from a path have
passed `parsePositiveId` (`IsId`); a categoryId in a body has a minimum and no
maximum, and `@IsOptional` lets `null` through (`DtoIds`, `UpdateCategoryDto`,
`UpdateProductDto`). Columns without a constraint are left out.

### Admission

`Arrive` is `JwtAuthGuard` and `RolesGuard`, `Throttle` one throttler of
`AppThrottlerGuard`, `Handle` the handler. Routes are classes of routes with the
same decorators. `ask` holds the throttlers a request has still to pass, and
`FirstOf` picks the next in their order. The counters are external: `Increment` is
what `@nestjs/throttler` does as this code uses it (a hit counts for `ttl`; the one
above the limit blocks the key for `ttl`; a block that is over is forgotten). A
counter is how many hits there were at each instant; the timers that the library sets,
one per hit, are the span (`Last`) over which they are summed (`Within`). The model assumes
that keys are independent: that the end of one key's block leaves the timers of the others'
hits alone. The library's code is not in the repository, so this is not checked, and what
`RefusedForOwnUse` says across clients rests on it.

History: `passed` (requests that a throttler let through) and `handled` (requests that
reached a handler), by instant.

### Quote

One action per part of `buildCartWorkbook` (mail.service.ts:81-309) that moves
`currentRow`: `PlaceItem` is a turn of the loop over the items, `Pad` one of the
loop that fills up to seven rows, then `Subtotal`, `Iva`, `Total`, `Footer`. `cells`
is what has been written; a cell that `mergeCells` takes in counts as written, for
its own value would not show. The background is painted before, over
`17 + max(items, 7) + 12` rows. Amounts are exact, in cents.

## 3. Runs

Every passing run finishes within a minute and a half with two workers. Deadlock
is an error in `passwords` only: elsewhere the clock, the tokens, the ids or the rows of a
sheet are bounded, so a model stops when they are used up.

| Run | Bounds | What it shows |
|---|---|---|
| `sessions_safety` | 2 users, 2 families, 3 tokens, 2 requests, 3 instants, no bound on a request's time | one redeemable token per family, closed families stay closed and expired ones expired, no orphans, `revokedAt` written once, implements `RefreshLineage` |
| `sessions_timing` | 1 family, 2 tokens, 2 requests, grace 3, lag 1, 6 instants | a double click never costs the session when requests are quick; every request is answered |
| `sessions_logout_all` | 3 tokens, 2 requests | violated: see findings |
| `credentials_lockout` | 3 requests, limit 2, hashes with old parameters, 2 instants | failures lead to a lock, a lock admits no attempt, who may lift it |
| `credentials_passwords` | 2 accounts of which one is there from the start with an old-parameter hash, 2 emails, 2 passwords, 2 sessions, 2 requests, limit 1 | stale sessions are explained; every write of an email or a password and every deletion took the password |
| `credentials_rehash` | 2 requests | violated: see findings |
| `passwords` | 2 requests, 2 failures, every stored hash of five memories, four numbers of passes and three of lanes | what a refusal costs; when a login errs; hashes are brought up to the current parameters; every login is answered |
| `rotation` | 2 accounts, 2 columns, pages of 1, 2 emails, revisions that overlap; ENCRYPTION_KEYS of up to 3 entries out of 4 versions (`Precise` 2, `Exponential` 4) and 3 keys, well formed or not | columns hold what their owners wrote, but for the script's race; serving revisions read each other's values, but for two cases; a finished script leaves nothing behind, but for two cases; it ends; keys are read as written and open their own values alone (two facts about operators, evaluated in the initial state) |
| `rotation_overwrite` | 2 accounts, 1 column | violated: see findings |
| `catalog` | 3 accounts, 2 emails, 2 categories, 1 product, 2 names, 2 requests | products have categories; refusals are explained; the script's success means an ADMIN |
| `admission` | a guest and a user behind one address, 2 requests, minute 2, day 3, 4 instants, global limit 2, forms 1 and 1 | limits per minute and day hold; a refused form is free; a client is refused only for its own use |
| `quote` | carts of 1 to 8 items out of 4 | the sheet's layout and totals |

Why the bounds are enough. A hazard of sessions takes a request to be overtaken, one
to overtake it and, for reuse, a third token; a further user or family only adds
behaviour that the lineage of the first does not see, and the theorems cover any
number. A lock takes as many simultaneous failures as its limit plus one; a
conflict of emails takes two accounts. The script's hazards take a row behind and
a row ahead of the cursor; a page of two rows, of which the second goes stale while
the first is written, is in `rotation_overwrite`, and with pages of one a row goes
stale between its read and its own update. A window of the limits takes more than
one instant, and a clock that goes on until it is over: the minute ends within the
day, and the day within the run. A stale look-up in the catalogue takes one request to find and one to remove; a
promotion gone wrong, an account that had the email and one that takes it. The
stored hashes are below, at and above each limit of `parse`, of PARAMS and of Node.
Of the versions in the texts, 1 and 2 are themselves, 3 is a second text of the Number 2, and
4 prints with an exponent: all that a version can be told apart by. `admission` calls a form and
a route of administrators, so of `LimitsHold` it exercises the limits of forms and the global
one; the limits of logins, refreshes and the profile are the same code with other numbers, a
third route takes the run beyond its five minutes, and the theorem covers any routes. The table of a quote changes its size
between seven and eight items.

Symmetry is used in safety runs only, over values that the modules never compare.

## 4. Fairness

`FairSpec` of `Sessions` assumes, for each request, weak fairness of its next
statement, where a failure counts as the end of one: Node resumes every
promise that settles, and Prisma settles every query with a result or an error.
Nothing is assumed of clients or of the clock. `FairSpec` of `KeyRotation` assumes
the same of the script's statements, and that of `PasswordService` of the
derivations: Node's thread pool works its queue off in order, and the event loop resumes whoever
waits for a settled promise. The other modules state no liveness.

## 5. Findings

Each is a run that TLC finds violated, with the line it disagrees with.

1. *Logout-all misses a successor* (`sessions_logout_all`;
   auth.e2e-spec.ts:292): a refresh between claim and create inserts a live
   session after the user's sessions were closed. Reuse detection
   (sessions.service.ts:72) has the same gap.
2. *Re-hash undoes a password change* (`credentials_rehash`;
   profile.e2e-spec.ts:155), which takes a hash with older parameters.
3. *The script undoes an email change* (`rotation_overwrite`; README.md:42, 89),
   leaving the blind index of the other email.

The passing runs state what does hold instead: `DeadFamiliesStayDead` for 1,
`ChangesNeedThePassword` for 2 (whoever writes a password, a re-hash included, has proved the
account's password, or one that was changed while the request was under way), `DataIsTheOwners`
for 3.
These name every way in which the documents' claim can fail, and TLC finds no other.

What a reader of the code should know besides, each an exception that a property of a
passing run names:

- *A login outlives the change of its password* (README.md:81, "Cambiar la contraseña
  cierra las demás sesiones"): a login that verified the old password before the
  change opens its session after it. `StaleSessionsAreExplained`, `late`.
- *The script passes over rows* (README.md:95) when the last account of a page is
  deleted before the next page is read; dropping the old key then leaves them
  unreadable. It takes more accounts than a page holds. `RunReachesEveryRow` and
  `ServingRevisionsRead`, `skipped`. So does a row that an old revision wrote
  behind the cursor, `late`.
- *While revisions overlap*, the one without the new key cannot read what the other
  wrote (encryption.service.ts:64-67): those requests fail until it is retired.
  `ServingRevisionsRead`.
- *One failed derivation of the dummy hash is kept* (password.service.ts:59): from
  then on an unknown email is answered with a 500 and a wrong password with a 401, where
  README.md:78 says "respuesta genérica ante cualquier error", until the process
  restarts. `ErrorsAreFailures`.
- *Not every refusal costs the same*: the first logins of unknown accounts wait for
  the dummy hash too; an unreadable stored hash costs nothing; one with other parameters
  costs what those cost. `RefusalsCostTheSame`. A hash with more memory and fewer
  passes than PARAMS is re-hashed to less memory (password.service.ts:63-71).
- *A slow double click*: when the loser of two simultaneous refreshes reads again more
  than the grace period after the winner's date (sessions.service.ts:66), it is taken
  for a thief; this is why `SimultaneousIsNotTheft` assumes `2 * Lag < Grace`.
- *Who lifts a lock*: a login that read its account before it was locked does when its
  password was right (auth.service.ts:67): `LocksYieldToOlderLogins` allows that, and that
  another failed attempt as old as it sets the lock anew, and nothing else.
- *A session that looks stale is not*: after finding 2 the account's password is the old one,
  and sessions opened meanwhile with the chosen one go on. `StaleSessionsAreExplained`.
- *Internal errors of the catalogue*: a taken name, a category that is not there, is
  null or is in use, and a row removed in between are all a 500. `RefusalsAreExplained`.

Three more have no property. README.md:105 speaks of a global limit "por IP", while the
tracker of a request with a session is its user (app-throttler.guard.ts:17-20):
`TrackerOf`. Its limits per day are kept in memory by a process that is scaled down to
none (`min_replicas = 0`, infra/container_apps.tf:99). And `create` of
ProductsService does not write the `imageUrl` that its DTO accepts.

## 6. Proofs

TLAPS checks every theorem from the named ASSUMEs of the modules alone (for any
sets of users, tokens, keys, ids, routes, items and any number of requests at a time),
except where a further hypothesis is given below. A safety property is seldom
inductive by itself. What had to be added to each is the argument of its proof:

**Sessions** (`SessionsProofs`; the times are positive, the absent token is no session).

- `SessionsInv` is inductive (`InitInv`, `NextInv`, `InvHolds`), and gives
  `TypeCorrect`, `OneHolderPerFamily`, `NoOrphanSessions` and, step by step,
  `DeadStayDead`. `SingleHolder` is not inductive: a step that claims a token moves
  the family to "moving", and to know that nothing else of it is live the invariant must
  also say that every row's family and user were drawn, that what a request copied
  from its row agrees with the row while it exists, and that the rows' tokens are minted
  (`Linked`).
- `Refines`: `Sessions` implements `RefreshLineage` under the mapping `phaseBar`,
  `holderBar`. Initial states map to initial states, and each action to a step or a
  stutter, using the one-holder invariant before and after the step.
- `RevokedOnce`; and, with the hypothesis `2 * Lag < Grace`, `SimultaneousIsNotTheft`
  (`TimelyInv` bounds the dates: a request that read its row unused at `at`, and lost
  the claim, finds a `revokedAt` no older than `at - Lag`, for the winner was itself within
  `Lag` of its read; and it reads again no later than `at + Lag`). The hypothesis says that
  requests are answered within half the grace period; section 5 says what happens
  otherwise.
- `ExpiredStayExpired`: nothing writes `expiresAt` after the insert, so only an
  insert, which takes a refresh under way (`InsertKeeps`), or a look-up, which takes
  a token that has not expired (`ReadKeeps`), could end a family's expiry.

**Credentials** (`CredentialsProofs`). `Typed` is the type invariant and the kind of what
each request means to write; `Linked` says that requests and sessions are of accounts
that were created, and that a managing request's session is its account's.

- `LockAdmits`, from `CredInv`, which adds to `LockAdmitsNoAttempt` only those two.
- `FailuresLock`: counting requests takes that only finitely many are about to lock
  (`FewLocking`), although the set of requests need not be finite.
- `ChangesAreProved`, `StaleSessions` and, with `CredInv`, the action property
  `OlderLoginsOnly`, for any stored hashes: from `ProvedInv`. `Proved` says that a request
  past its password check gave the account's password or the one last chosen, unless a
  change has come since. A re-hash could break that, for it writes whatever it verified;
  `OldReaders` shows that it does not: the logins of an account that are yet to re-hash hold one
  password between them, and it is the account's, or a change has replaced it under all of
  them (they are in `changedSince`) and no login reads an old-parameter hash any more.
  `PasswordIsTheChosenOne`, which is finding 2, is no theorem.

**PasswordService** (`PasswordServiceProofs`). `Inv` says of every login, by where it is
(`Sound`), which derivations it has waited for, that the stored hash is the one it read or a
fresh one, and, once answered, what the answer goes with. Whether a comparison of
parameters comes out the same for another hash is arithmetic about the limits of `parse`
and PARAMS, in lemmas of their own. From it `TypeCorrect`, `RefusalsCost`,
`ErrorsHaveReasons`, `AcceptedAreStrong`.

**Keyring and KeyRotation** (`KeyRotationProofs`).

- `TypeCorrect`, from `Typed`: every value is one that `Encrypt` made under the old key or the
  new (`Genuine`), in the table, in the requests and in what the script has read.
- `DataKept`: decryption plays no part in the invariant `OwnersData`, which is about
  plain texts; `Genuine` turns the one into the other.
- `RunReaches`, from `Reached`: below the cursor a row is all new, still to do,
  late or skipped; and a column that was new when the script read it is so now,
  unless the row is late. The latter is what makes leaving a column alone right.
- `OldKeySpare`, with the hypotheses that the operator waits for the old revision and its
  requests (`Drained`) and that no account is deleted: from `Careful`, that nothing
  is then written with the old key once the script has started, and the row of its
  cursor stays. The hypotheses are the two conditions that step 3 of README.md:92-95
  depends on; `RunReaches` says what happens without them. No run states this one: it is
  `RunReachesEveryRow` with nothing late or skipped.
- `RevisionsRead`, from `Stages`: before the second revision nothing is under the new
  key; the third is there only after the script is done.
- `TextsAreRead`: `VersionedKeys`, a fold, comes to `RingOf`, which is stated
  without recursion, for a text of any number of entries (`TextIs`, from the
  turn of the loop, `TurnIs`); that all keys differ exactly when there are as many as
  there are is about cardinalities (`DistinctIs`). `ValuesOpen` is for any set of
  keyrings, contexts and texts that are not the decryption error. `EnvRead` and
  `PayloadsOpen` are their instances that the run evaluates.

**Catalog and AdminSeed** (`CatalogProofs`). `SeedInv` (an account the script found still has
the email, unless it moved) gives `SuccessMakesAnAdmin`; `Inv` (a request that
looked its row up finds it, or was overtaken: `FoundOrOvertaken`) gives
`CategoriesOutliveProducts`, `RefusalsHaveReasons` and `TypeCorrect`. Every step of the
composition is a step of one part that leaves the other alone, or stutters (`SeedSteps`).

**Admission** (`AdmissionProofs`), for any limits, ttls and routes. `Inv` has three parts
beside the types:

- `CountersInv`, of each counter by itself (`CounterOK`): while it blocks nobody its recent
  hits are exactly what it let through, and at most its limit; the hit that sets off a
  block is one above, when a ttl of what was let through had reached the limit; and
  nothing is let through until the block is over. It gives `OwnUseOnly` and the bounds
  in `TypeCorrect`.
- `FlowInv`: since any instant, the requests of a throttler's policy that were handled and those
  past it on their way (`Flying`) are no more than it let through. Without `Flying`
  it is not inductive: a request is let through some steps before it is handled.
  With `CountersInv` it gives `LimitsAlwaysHold`.
- `FormsInv`: the same between the two throttlers of the forms (`Between`), for
  `RefusedFormsFree`.

**Quote** (`QuoteProofs`), for any cart, quantities and prices. `Layout` says in which row the
cursor is in each part of the sheet, and that it is below everything written so far;
without the first the background's size could not be compared with the footer's row, without
the second a write might hit an old cell: `NothingLost`, `BackgroundIsEnough`. `ItemsWritten`
(the lines placed so far are those of the cart, and the subtotal is their sum) and
`TotalsWritten` (where the labelled totals stand) give `TypeCorrect` and `SheetAlwaysAddsUp`.

**Sums** (`SumProofs`). The limits and the totals are sums over finite sets, which the models
take from the community modules as a fold in an order chosen by CHOOSE. The library's
induction theorems cannot be instantiated here, as they take an operator; that strict inclusion
is well founded on finite sets can be cited, so what an induction would show is
shown by a smallest counterexample (`SmallestSubset`): that the fold exists, and that the element
a turn takes makes no difference (`FoldsAgree`, `SumRemove`). What an element more, a
larger set, or other values do to a sum are lemmas on top of these. `KeyRotationProofs`
uses the same argument for the fold over the entries of a text.

Only model-checked: liveness (`RequestsAreAnswered`, `ScriptEnds`, `LoginsAreAnswered`),
which is beyond the prover, and the three violated runs. Every safety invariant and action
property that a passing run checks is stated by a theorem.

## 7. Not modelled

Sending mail, headers, CORS, logging and infrastructure have no
state or protocol of their own, and the variables of the environment other than keys are single
values that zod checks. Of validation, `Catalog` models what the DTOs let through; elsewhere
the models take inputs that have passed it. The cryptography is trusted: a hash verifies one
password, a ciphertext opens under its key and column alone, a
JWT cannot be made without the key. Read-only handlers (`get`, `me`, the
catalogue's reads) appear as the guards they pass. The password policy
(`assertAcceptable`) is a test on strings that its unit tests cover. Expired and revoked
sessions are never deleted, and no property bounds the table. A restart of the
process between two requests is not in `Admission`: its counters start anew, and with
them the whole model.

## 8. Plan

1. A composition of `Sessions` and `Credentials`, so that a session of the second is
   a family of the first, not an abstraction of one; and with it what a change
   of password leaves of a family whose refresh is under way.
2. An abstract specification of a rate limit (a window that admits a limit's number of
   requests) that `Admission` implements for each throttler, from `CountersInv`.
