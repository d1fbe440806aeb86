---------------------------- MODULE Credentials ----------------------------
(***************************************************************************)
(* The columns of users that decide who gets in (emailHash, passwordHash,  *)
(* failedLoginAttempts, lockedUntil) and the handlers that read and write  *)
(* them: AuthService.register and login, ProfileController.changeEmail,    *)
(* changePassword and delete.                                              *)
(*                                                                         *)
(* As in Sessions, a step is one statement with the code up to the next    *)
(* await, and a request that is refused before it wrote anything is not a  *)
(* step.  Argon2 runs off the main thread, so a login can be overtaken     *)
(* between the row it read and whatever it does about it.  A session here  *)
(* is a whole family: Sessions shows what refreshes do to one.             *)
(***************************************************************************)
EXTENDS Integers, FiniteSets

CONSTANTS
    Users,        \* the uuids of accounts
    Emails,       \* normalized emails, each with its blind index
    Passwords,    \* plain passwords; a hash verifies exactly one
    Sids,         \* sessions
    Reqs,         \* requests the process can serve at the same time
    MaxFailed,    \* MAX_FAILED_LOGINS
    LockTime,     \* LOCK_MS, in ticks of the clock
    OldHashes,    \* whether Registered have hashes with weaker parameters
    Registered,   \* the accounts there are when the process starts
    MaxLost,      \* bound on the requests that die before they lock
    MaxTime       \* bound on the clock

ASSUME CredentialsAssumption ==
    /\ MaxFailed \in Nat \ {0}
    /\ LockTime \in Nat \ {0}
    /\ OldHashes \in BOOLEAN
    /\ Registered \subseteq Users
    /\ MaxLost \in Nat
    /\ MaxTime \in Nat

VARIABLES
    now,          \* the clock
    accounts,     \* the table users: a function from the rows' ids to the rows
    sessions,     \* the sessions opened so far
    born,         \* accounts registered so far
    req,          \* what each request is doing
    \* History: no code reads these.
    lockedSince,  \* requests in flight when their account was last locked
    changedSince, \* requests in flight when its password was changed
    cut,          \* sessions a change died before ending
    lost          \* per account, requests that died before they locked it

vars == <<now, accounts, sessions, born, req,
          lockedSince, changedSince, cut, lost>>

-----------------------------------------------------------------------------
Never == -1       \* lockedUntil: null

\* `weak`: passwordHash has weaker parameters than PARAMS.  `chosen` is
\* history: the password the owner last set.
Account == [email : Emails, password : Passwords, weak : BOOLEAN, failed : Nat,
            lockedUntil : Nat \cup {Never}, chosen : Passwords]

\* History: `password` is the one its user last proved or set in the session,
\* `late` that it was changed while the login was in flight.
Session == [user : Users, password : Passwords, late : BOOLEAN, live : BOOLEAN]

Idle == [pc |-> "idle"]

\* login and register, past the read of the account.
Entering == [pc : {"record", "lock", "clear", "rehash", "start"},
             user : Users, given : Passwords, weak : BOOLEAN, at : Nat]

\* changeEmail, changePassword and delete, past the JwtAuthGuard; `new` is the
\* new email or password.
Managing == [pc : {"checkEmail", "updateEmail", "checkPassword", "updatePassword",
                   "revokeOthers", "checkDelete", "delete"},
             user : Users, sid : Sids, given : Passwords, new : Emails \cup Passwords]

TypeOK ==
    /\ now \in Nat
    /\ DOMAIN accounts \subseteq Users
    /\ accounts \in [DOMAIN accounts -> Account]
    /\ DOMAIN sessions \subseteq Sids
    /\ sessions \in [DOMAIN sessions -> Session]
    /\ born \subseteq Users
    /\ req \in [Reqs -> {Idle} \cup Entering \cup Managing]
    /\ lockedSince \subseteq Reqs
    /\ changedSince \subseteq Reqs
    /\ cut \subseteq Sids
    /\ lost \in [Users -> 0 .. MaxLost]

-----------------------------------------------------------------------------
At(r, step) == req[r] # Idle /\ req[r].pc = step
GoTo(r, step) == req' = [req EXCEPT ![r].pc = step]
\* Mutant of Answer: the request is never let go of.
AnswerHalfway(r) == GoTo(r, "idle")
Answer(r) == req' = [req EXCEPT ![r] = Idle]

\* The request ends; history no longer speaks of it.
Leave(r) ==
    /\ Answer(r)
    /\ lockedSince' = lockedSince \ {r}
    /\ changedSince' = changedSince \ {r}

\* Request r is about account u; it runs its login or registration.
Concerns(r, u) == req[r] # Idle /\ req[r].user = u
Enters(r, u) == Concerns(r, u) /\ req[r] \in Entering

Locked(u) == accounts[u].lockedUntil > now

\* emailHash is unique.
Free(e) == \A u \in DOMAIN accounts : accounts[u].email # e

\* prisma.user.update: fails when the row is gone.
Update(u, row) ==
    /\ u \in DOMAIN accounts
    /\ accounts' = [accounts EXCEPT ![u] = row]

\* The sessions S end.
End(S) ==
    sessions' = [s \in DOMAIN sessions |->
                    [sessions[s] EXCEPT !.live = @ /\ s \notin S]]

OfUser(u) == {s \in DOMAIN sessions : sessions[s].user = u}

\* A session that was opened with what is not the account's password any more.
Stale(s) ==
    /\ sessions[s].live
    /\ sessions[s].user \in DOMAIN accounts
    /\ sessions[s].password # accounts[sessions[s].user].password

\* What login does about account `a` and password p, having read `a`.
NeedsRehash(a) == a.weak

AfterVerify(a, p) ==
    IF a.password # p THEN "record"
    ELSE IF a.failed > 0 \/ a.lockedUntil # Never THEN "clear"
    ELSE IF NeedsRehash(a) THEN "rehash" ELSE "start"

-----------------------------------------------------------------------------
Init ==
    /\ now = 0
    /\ \E em \in [Registered -> Emails], pw \in [Registered -> Passwords] :
          /\ \A u, v \in Registered : em[u] = em[v] => u = v
          /\ accounts = [u \in Registered |->
                         [email |-> em[u], password |-> pw[u], weak |-> OldHashes, failed |-> 0,
                          lockedUntil |-> Never, chosen |-> pw[u]]]
    /\ sessions = [s \in {} |-> {}]
    /\ born = Registered
    /\ req = [r \in Reqs |-> Idle]
    /\ lockedSince = {}
    /\ changedSince = {}
    /\ cut = {}
    /\ lost = [u \in Users |-> 0]

\* users.create: a row with an id of its own.
AddAccount(u, e, p) ==
    /\ u \notin born
    /\ born' = born \cup {u}
    /\ accounts' = [v \in DOMAIN accounts \cup {u} |->
                       IF v = u
                         THEN [email |-> e, password |-> p, weak |-> FALSE, failed |-> 0,
                               lockedUntil |-> Never, chosen |-> p]
                         ELSE accounts[v]]

\* register: a free email gets a row; the session comes in a later statement.
Register(r, u, e, p) ==
    /\ req[r] = Idle
    /\ Free(e)
    /\ AddAccount(u, e, p)
    /\ req' = [req EXCEPT ![r] = [pc |-> "start", user |-> u, given |-> p,
                                  weak |-> FALSE, at |-> now]]
    /\ UNCHANGED <<now, sessions, lockedSince, changedSince, cut, lost>>

\* Mutant of LoginFind: the lock is not looked at.
LoginFindUnlocked(r, e, p) ==
    /\ req[r] = Idle
    /\ \E u \in DOMAIN accounts :
          /\ accounts[u].email = e
          /\ req' = [req EXCEPT ![r] =
                  [pc |-> AfterVerify(accounts[u], p), user |-> u, given |-> p,
                   weak |-> NeedsRehash(accounts[u]), at |-> now]]
    /\ UNCHANGED <<now, accounts, sessions, born, lockedSince, changedSince,
                   cut, lost>>

\* login: findByEmail; an unknown or a locked account is refused.  The rest of
\* the request depends on the row as it was now.
LoginFind(r, e, p) ==
    /\ req[r] = Idle
    /\ \E u \in DOMAIN accounts :
          /\ accounts[u].email = e
          /\ ~ Locked(u)
          /\ req' = [req EXCEPT ![r] =
                  [pc |-> AfterVerify(accounts[u], p), user |-> u, given |-> p,
                   weak |-> NeedsRehash(accounts[u]), at |-> now]]
    /\ UNCHANGED <<now, accounts, sessions, born, lockedSince, changedSince,
                   cut, lost>>

\* Mutant of RecordFailedLogin: one failure too many.
RecordFailedLoginLate(r) ==
    LET u == req[r].user
        count == accounts[u].failed + 1 IN
    /\ At(r, "record")
    /\ Update(u, [accounts[u] EXCEPT !.failed = count])
    /\ IF count > MaxFailed
         THEN /\ req' = [req EXCEPT ![r].pc = "lock", ![r].at = now]
              /\ UNCHANGED <<lockedSince, changedSince>>
         ELSE Leave(r)
    /\ UNCHANGED <<now, sessions, born, cut, lost>>

\* registerFailedLogin: the increment returns the new count.
RecordFailedLogin(r) ==
    LET u == req[r].user
        count == accounts[u].failed + 1 IN
    /\ At(r, "record")
    /\ Update(u, [accounts[u] EXCEPT !.failed = count])
    /\ IF count >= MaxFailed
         THEN /\ req' = [req EXCEPT ![r].pc = "lock", ![r].at = now]
              /\ UNCHANGED <<lockedSince, changedSince>>
         ELSE Leave(r)
    /\ UNCHANGED <<now, sessions, born, cut, lost>>

\* registerFailedLogin: LOCK_MS from the date at which the statement was sent.
Lock(r) ==
    LET u == req[r].user IN
    /\ At(r, "lock")
    /\ \E date \in req[r].at .. now :
          Update(u, [accounts[u] EXCEPT !.failed = 0,
                                        !.lockedUntil = date + LockTime])
    /\ Answer(r)
    /\ lockedSince' = (lockedSince \cup {q \in Reqs : Enters(q, u)}) \ {r}
    /\ changedSince' = changedSince \ {r}
    /\ lost' = [lost EXCEPT ![u] = 0]
    /\ UNCHANGED <<now, sessions, born, cut>>

\* login: the password was right and the row it read had failures or a lock.
ClearFailedLogins(r) ==
    LET u == req[r].user IN
    /\ At(r, "clear")
    /\ Update(u, [accounts[u] EXCEPT !.failed = 0, !.lockedUntil = Never])
    /\ GoTo(r, IF req[r].weak THEN "rehash" ELSE "start")
    /\ lost' = [lost EXCEPT ![u] = 0]
    /\ UNCHANGED <<now, sessions, born, lockedSince, changedSince, cut>>

\* login: the same password again, hashed with the current parameters.
Rehash(r) ==
    LET u == req[r].user IN
    /\ At(r, "rehash")
    /\ Update(u, [accounts[u] EXCEPT !.password = req[r].given, !.weak = FALSE])
    /\ GoTo(r, "start")
    /\ UNCHANGED <<now, sessions, born, lockedSince, changedSince, cut, lost>>

\* startSession: the foreign key wants the account to exist still.
StartSession(r, s) ==
    /\ At(r, "start")
    /\ req[r].user \in DOMAIN accounts
    /\ s \in Sids \ DOMAIN sessions
    /\ sessions' = [t \in DOMAIN sessions \cup {s} |->
                       IF t = s
                         THEN [user |-> req[r].user, password |-> req[r].given,
                               late |-> r \in changedSince, live |-> TRUE]
                         ELSE sessions[t]]
    /\ Leave(r)
    /\ UNCHANGED <<now, accounts, born, cut, lost>>

\* JwtAuthGuard, for a handler of the profile with session s.
CanActivate(r, s, step, p, new) ==
    /\ req[r] = Idle
    /\ s \in DOMAIN sessions
    /\ sessions[s].live
    /\ req' = [req EXCEPT ![r] = [pc |-> step, user |-> sessions[s].user,
                                  sid |-> s, given |-> p, new |-> new]]
    /\ UNCHANGED <<now, accounts, sessions, born, lockedSince, changedSince,
                   cut, lost>>

\* Where the handlers of the profile go on once the password is verified.  A
\* new password equal to the current one is refused.
AfterCheck(r) ==
    CASE At(r, "checkEmail") -> "updateEmail"
      [] At(r, "checkDelete") -> "delete"
      [] At(r, "checkPassword") ->
            IF req[r].new = req[r].given THEN "refused" ELSE "updatePassword"

\* Mutant of VerifyCurrentPassword: that there is an account is enough.
VerifyNothing(r) ==
    /\ At(r, "checkEmail") \/ At(r, "checkPassword") \/ At(r, "checkDelete")
    /\ IF req[r].user \notin DOMAIN accounts \/ AfterCheck(r) = "refused"
         THEN Leave(r)
         ELSE GoTo(r, AfterCheck(r)) /\ UNCHANGED <<lockedSince, changedSince>>
    /\ UNCHANGED <<now, accounts, sessions, born, cut, lost>>

\* verifyCurrentPassword
VerifyCurrentPassword(r) ==
    LET u == req[r].user IN
    /\ At(r, "checkEmail") \/ At(r, "checkPassword") \/ At(r, "checkDelete")
    /\ IF \/ u \notin DOMAIN accounts
          \/ accounts[u].password # req[r].given
          \/ AfterCheck(r) = "refused"
         THEN Leave(r)
         ELSE GoTo(r, AfterCheck(r)) /\ UNCHANGED <<lockedSince, changedSince>>
    /\ UNCHANGED <<now, accounts, sessions, born, cut, lost>>

\* changeEmail: updateEmail.  A conflict with another account's is a failure.
UpdateEmail(r) ==
    LET u == req[r].user
        e == req[r].new IN
    /\ At(r, "updateEmail")
    /\ Update(u, [accounts[u] EXCEPT !.email = e])
    /\ Free(e) \/ accounts[u].email = e
    /\ Leave(r)
    /\ UNCHANGED <<now, sessions, born, cut, lost>>

\* changePassword: updatePasswordHash.
UpdatePasswordHash(r) ==
    LET u == req[r].user IN
    /\ At(r, "updatePassword")
    /\ Update(u, [accounts[u] EXCEPT !.password = req[r].new, !.weak = FALSE,
                                     !.chosen = req[r].new])
    /\ sessions' = [sessions EXCEPT ![req[r].sid].password = req[r].new]
    /\ changedSince' = (changedSince \cup {q \in Reqs : Concerns(q, u)}) \ {r}
    /\ GoTo(r, "revokeOthers")
    /\ UNCHANGED <<now, born, lockedSince, cut, lost>>

\* Mutant of RevokeOthers: the exception is the wrong way round.
RevokeOthersInverted(r) ==
    /\ At(r, "revokeOthers")
    /\ End(OfUser(req[r].user) \cap {req[r].sid})
    /\ Leave(r)
    /\ UNCHANGED <<now, accounts, born, cut, lost>>

\* changePassword: revokeAllForUser, sparing the caller's session.
RevokeOthers(r) ==
    /\ At(r, "revokeOthers")
    /\ End(OfUser(req[r].user) \ {req[r].sid})
    /\ Leave(r)
    /\ UNCHANGED <<now, accounts, born, cut, lost>>

\* delete: the row, and by cascade the sessions.
DeleteAccount(r) ==
    LET u == req[r].user IN
    /\ At(r, "delete")
    /\ u \in DOMAIN accounts
    /\ accounts' = [v \in DOMAIN accounts \ {u} |-> accounts[v]]
    /\ End(OfUser(u))
    /\ Leave(r)
    /\ UNCHANGED <<now, born, cut, lost>>

\* A statement fails or the process dies: what was written stays.
Fail(r) ==
    LET u == req[r].user IN
    /\ req[r] # Idle
    /\ Leave(r)
    /\ cut' = IF At(r, "revokeOthers")
              THEN cut \cup {s \in OfUser(u) \ {req[r].sid} : Stale(s)} ELSE cut
    /\ IF At(r, "lock")
         THEN lost[u] < MaxLost /\ lost' = [lost EXCEPT ![u] = @ + 1]
         ELSE lost' = lost
    /\ UNCHANGED <<now, accounts, sessions, born>>

Tick ==
    /\ now < MaxTime
    /\ now' = now + 1
    /\ UNCHANGED <<accounts, sessions, born, req, lockedSince, changedSince,
                   cut, lost>>

Next ==
    \/ \E r \in Reqs, e \in Emails, p \in Passwords :
          LoginFind(r, e, p) \/ \E u \in Users : Register(r, u, e, p)
    \/ \E r \in Reqs, s \in Sids, p \in Passwords :
          \/ \E e \in Emails : CanActivate(r, s, "checkEmail", p, e)
          \/ \E new \in Passwords : CanActivate(r, s, "checkPassword", p, new)
          \/ CanActivate(r, s, "checkDelete", p, p)
    \/ \E r \in Reqs :
          \/ RecordFailedLogin(r) \/ Lock(r) \/ ClearFailedLogins(r)
          \/ Rehash(r) \/ \E s \in Sids : StartSession(r, s)
          \/ VerifyCurrentPassword(r) \/ UpdateEmail(r)
          \/ UpdatePasswordHash(r) \/ RevokeOthers(r) \/ DeleteAccount(r) \/ Fail(r)
    \/ Tick

Spec == Init /\ [][Next]_vars

-----------------------------------------------------------------------------
(* Properties *)

Locking(u) == {r \in Reqs : At(r, "lock") /\ req[r].user = u}

\* However many attempts fail at once, the count passes MAX_FAILED_LOGINS - 1
\* only for requests that are about to lock the account, or died before they
\* could: no wrong attempt slips by without leading to a lock.
FailuresLeadToALock ==
    \A u \in DOMAIN accounts :
        accounts[u].failed < MaxFailed + Cardinality(Locking(u)) + lost[u]

\* While an account is locked, the only logins under way are those that had
\* read it before it was locked: the lock admits no new attempt.
LockAdmitsNoAttempt ==
    \A r \in Reqs, u \in DOMAIN accounts :
        Enters(r, u) /\ Locked(u) => r \in lockedSince

\* Request r proved a password of account u: the one that opens it, the one its
\* owner last chose, or the one it had until a change while r was under way.
Proven(r, u) ==
    \/ req[r].given \in {accounts[u].password, accounts[u].chosen}
    \/ r \in changedSince

\* A lock in force is moved or lifted only by a login that had read the account
\* before it was set, never by a newer one; and lifted by one that gave the
\* right password, not by one that failed.
LocksYieldToOlderLogins ==
    [][\A u \in DOMAIN accounts \cap DOMAIN accounts' :
          Locked(u) /\ accounts'[u].lockedUntil # accounts[u].lockedUntil =>
              \E r \in lockedSince :
                  /\ Concerns(r, u)
                  /\ Lock(r) \/ (ClearFailedLogins(r) /\ Proven(r, u))]_vars

\* profile.e2e-spec.ts:155: after a change of password the old one opens the
\* account no more.  The one that does is the one its owner last chose.
PasswordIsTheChosenOne ==
    \A u \in DOMAIN accounts : accounts[u].password = accounts[u].chosen

\* README.md:81: changing the email or the password and deleting the account
\* ask for the current password.  Nobody writes the email or the password, or
\* removes the account, without having proved its password; not a login that
\* re-hashes either, whatever changes or re-hashes have overtaken it.  So a
\* change of password is only ever undone by a login it overtook.
ChangesNeedThePassword ==
    [][\A u \in DOMAIN accounts :
          (\/ u \notin DOMAIN accounts'
           \/ accounts'[u].email # accounts[u].email
           \/ accounts'[u].password # accounts[u].password) =>
              \E r \in Reqs : Concerns(r, u) /\ req'[r] # req[r] /\ Proven(r, u)]_vars

\* An account's sessions end with it.  One opened with a password that is not
\* the account's any more is about to be ended by the change, or the change
\* died before it could, or the login was in flight during the change; or a
\* re-hash has undone the change, and the session has the password chosen.
StaleSessionsAreExplained ==
    \A s \in DOMAIN sessions :
        /\ sessions[s].live => sessions[s].user \in DOMAIN accounts
        /\ Stale(s) =>
              \/ sessions[s].late
              \/ s \in cut
              \/ sessions[s].password = accounts[sessions[s].user].chosen
              \/ \E r \in Reqs : /\ At(r, "revokeOthers")
                                 /\ req[r].user = sessions[s].user
                                 /\ req[r].sid # s
=============================================================================
