------------------------------ MODULE Sessions ------------------------------
(***************************************************************************)
(* The sessions table and every operation of the service that touches it:  *)
(* SessionsService (create, rotate, findActive, revoke, revokeAllForUser,  *)
(* revokeFamily), the JwtAuthGuard that consults it, and the handlers of   *)
(* AuthController and ProfileController that end sessions.                 *)
(*                                                                         *)
(* The database executes one statement at a time; the Node process awaits  *)
(* between statements, and there is no transaction, so each action below   *)
(* is one statement together with the code that runs before the next       *)
(* await.  The clock readings a statement carries (revokedAt, expiresAt)    *)
(* are Node's, taken when the statement was sent: some time between the    *)
(* request's read and the execution.  A request that is refused before it  *)
(* wrote anything leaves no trace and is not a step.                       *)
(***************************************************************************)
EXTENDS Integers

CONSTANTS
    Users,        \* accounts, as their uuid
    Families,     \* values randomUUID() yields for familyId
    Sids,         \* sessions: row id, refresh token and its hash, one to one
    Reqs,         \* requests the process can serve at the same time
    TTL,          \* REFRESH_TOKEN_TTL_DAYS, in ticks of the clock
    AccessTtl,    \* JWT_ACCESS_TTL_SECONDS, in ticks
    Grace,        \* REUSE_GRACE_MS, in ticks
    Lag,          \* bound on the ticks a request may stay unanswered
    MaxTime,      \* bound on the clock
    NoToken       \* not a session

ASSUME SessionsAssumption ==
    /\ TTL \in Nat \ {0}
    /\ AccessTtl \in Nat \ {0}
    /\ Grace \in Nat \ {0}
    /\ Lag \in Nat \ {0}
    /\ MaxTime \in Nat
    /\ NoToken \notin Sids

VARIABLES
    now,          \* the clock Node and the rows share
    users,        \* accounts that exist
    sessions,     \* the table: a function from the ids of its rows to the rows
    minted,       \* sids drawn so far (256 random bits: never drawn twice)
    families,     \* family ids drawn so far
    req           \* what each request is doing

vars == <<now, users, sessions, minted, families, req>>

-----------------------------------------------------------------------------
Never == -1       \* revokedAt: null

Row == [user : Users, family : Families, createdAt : Nat, expiresAt : Nat,
        revokedAt : Nat \cup {Never}]

\* Where a request can be waiting for the database.
RotateSteps == {"claim", "reread", "revokeFamily", "create"}
HandlerSteps == {"logout", "logoutAll", "revokeOthers", "delete"}

Idle == [pc |-> "idle"]

\* `unused` and `at`: the row had revokedAt null when the request read it, and
\* the instant it did.  user and family are copies: the row may be gone later.
Busy == [pc : RotateSteps \cup HandlerSteps, sid : Sids, user : Users,
         family : Families, unused : BOOLEAN, at : Nat]

TypeOK ==
    /\ now \in Nat
    /\ users \subseteq Users
    /\ DOMAIN sessions \subseteq Sids
    /\ sessions \in [DOMAIN sessions -> Row]
    /\ minted \subseteq Sids
    /\ families \subseteq Families
    /\ req \in [Reqs -> {Idle} \cup Busy]

-----------------------------------------------------------------------------
Live(s) == s \in DOMAIN sessions /\ sessions[s].revokedAt = Never

\* When request r may have sent the statement that now executes.
SentAt(r) == req[r].at .. now

\* Mutant of Revoke: without revokedAt: null in the where.
RevokeAgain(S, date) ==
    sessions' = [s \in DOMAIN sessions |->
                    IF s \in S THEN [sessions[s] EXCEPT !.revokedAt = date]
                               ELSE sessions[s]]

\* updateMany({ where: { id in S, revokedAt: null }, data: { revokedAt: new Date() } })
Revoke(S, date) ==
    sessions' = [s \in DOMAIN sessions |->
                    IF s \in S /\ Live(s)
                      THEN [sessions[s] EXCEPT !.revokedAt = date]
                      ELSE sessions[s]]

\* Mutant of Create: the time to live is subtracted.
CreateExpired(s, u, f, date) ==
    /\ u \in users
    /\ s \in Sids \ minted
    /\ sessions' = [t \in DOMAIN sessions \cup {s} |->
                       IF t = s
                         THEN [user |-> u, family |-> f, createdAt |-> now,
                               expiresAt |-> date - TTL, revokedAt |-> Never]
                         ELSE sessions[t]]
    /\ minted' = minted \cup {s}

\* SessionsService.create: a row for a fresh token.  The foreign key on userId
\* makes the insert fail when the account is gone.
Create(s, u, f, date) ==
    /\ u \in users
    /\ s \in Sids \ minted
    /\ sessions' = [t \in DOMAIN sessions \cup {s} |->
                       IF t = s
                         THEN [user |-> u, family |-> f, createdAt |-> now,
                               expiresAt |-> date + TTL, revokedAt |-> Never]
                         ELSE sessions[t]]
    /\ minted' = minted \cup {s}

OfUser(u) == {s \in DOMAIN sessions : sessions[s].user = u}
OfFamily(f) == {s \in DOMAIN sessions : sessions[s].family = f}

At(r, step) == req[r] # Idle /\ req[r].pc = step
GoTo(r, step) == req' = [req EXCEPT ![r].pc = step]
Answer(r) == req' = [req EXCEPT ![r] = Idle]

\* Request r has just read row s and next awaits `step`.
Reads(r, s, step) ==
    req' = [req EXCEPT ![r] =
               [pc |-> step, sid |-> s, user |-> sessions[s].user,
                family |-> sessions[s].family, unused |-> Live(s), at |-> now]]

-----------------------------------------------------------------------------
Init ==
    /\ now = 0
    /\ users = Users
    /\ sessions = [s \in {} |-> {}]
    /\ minted = {}
    /\ families = {}
    /\ req = [r \in Reqs |-> Idle]

\* Mutant of StartSession: a login goes on with the user's last family.
StartSessionInFamily(u, f, s) ==
    /\ f \in families => \E t \in OfUser(u) : sessions[t].family = f
    /\ Create(s, u, f, now)
    /\ families' = families \cup {f}
    /\ UNCHANGED <<now, users, req>>

\* The end of register and login: startSession, in a family of its own.
StartSession(u, f, s) ==
    /\ f \in Families \ families
    /\ Create(s, u, f, now)
    /\ families' = families \cup {f}
    /\ UNCHANGED <<now, users, req>>

\* Mutant of RotateFind: expiresAt is not looked at.
RotateFindExpired(r, s) ==
    /\ req[r] = Idle
    /\ s \in DOMAIN sessions
    /\ Reads(r, s, "claim")
    /\ UNCHANGED <<now, users, sessions, minted, families>>

\* rotate: look the token up, refuse it when unknown or expired.
RotateFind(r, s) ==
    /\ req[r] = Idle
    /\ s \in DOMAIN sessions
    /\ sessions[s].expiresAt > now
    /\ Reads(r, s, "claim")
    /\ UNCHANGED <<now, users, sessions, minted, families>>

\* Mutant of RotateClaim: claimed.count is not looked at.
RotateClaimUnchecked(r) ==
    /\ At(r, "claim")
    /\ \E date \in SentAt(r) : Revoke({req[r].sid}, date)
    /\ GoTo(r, "create")
    /\ UNCHANGED <<now, users, minted, families>>

\* rotate: claim the row; claimed.count is 1 exactly when it was not revoked.
RotateClaim(r) ==
    /\ At(r, "claim")
    /\ \E date \in SentAt(r) : Revoke({req[r].sid}, date)
    /\ GoTo(r, IF Live(req[r].sid) THEN "create" ELSE "reread")
    /\ UNCHANGED <<now, users, minted, families>>

\* Mutant of WithinGrace: the comparison is the wrong way round.
BeyondGrace(s) ==
    /\ s \in DOMAIN sessions
    /\ sessions[s].revokedAt # Never
    /\ now - sessions[s].revokedAt > Grace

\* A use within the grace period is a simultaneous refresh, not a theft.
WithinGrace(s) ==
    /\ s \in DOMAIN sessions
    /\ sessions[s].revokedAt # Never
    /\ now - sessions[s].revokedAt < Grace

\* Mutant of RotateReread: a simultaneous refresh claims again.
RotateRereadRetries(r) ==
    /\ At(r, "reread")
    /\ GoTo(r, IF WithinGrace(req[r].sid) THEN "claim" ELSE "revokeFamily")
    /\ UNCHANGED <<now, users, sessions, minted, families>>

\* rotate: the claim lost; read again when the row was revoked.
RotateReread(r) ==
    /\ At(r, "reread")
    /\ IF WithinGrace(req[r].sid) THEN Answer(r) ELSE GoTo(r, "revokeFamily")
    /\ UNCHANGED <<now, users, sessions, minted, families>>

\* rotate: a token used again after the grace period closes its family.
RotateRevokeFamily(r) ==
    /\ At(r, "revokeFamily")
    /\ \E date \in SentAt(r) : Revoke(OfFamily(req[r].family), date)
    /\ Answer(r)
    /\ UNCHANGED <<now, users, minted, families>>

\* rotate: the claim won; the successor goes into the same family.
RotateCreate(r, s) ==
    /\ At(r, "create")
    /\ \E date \in SentAt(r) : Create(s, req[r].user, req[r].family, date)
    /\ Answer(r)
    /\ UNCHANGED <<now, users, families>>

\* JwtAuthGuard: the JWT signed once session s was created has not expired, and
\* findActive returns the row.  The handler then runs with req.user = (user, s).
CanActivate(r, s, step) ==
    /\ req[r] = Idle
    /\ Live(s)
    /\ sessions[s].expiresAt > now
    /\ now < sessions[s].createdAt + AccessTtl
    /\ Reads(r, s, step)
    /\ UNCHANGED <<now, users, sessions, minted, families>>

Logout(r) ==
    /\ At(r, "logout")
    /\ \E date \in SentAt(r) : Revoke({req[r].sid}, date)
    /\ Answer(r)
    /\ UNCHANGED <<now, users, minted, families>>

LogoutAll(r) ==
    /\ At(r, "logoutAll")
    /\ \E date \in SentAt(r) : Revoke(OfUser(req[r].user), date)
    /\ Answer(r)
    /\ UNCHANGED <<now, users, minted, families>>

\* The last statement of changePassword: every session but the caller's.
RevokeOthers(r) ==
    /\ At(r, "revokeOthers")
    /\ \E date \in SentAt(r) : Revoke(OfUser(req[r].user) \ {req[r].sid}, date)
    /\ Answer(r)
    /\ UNCHANGED <<now, users, minted, families>>

\* Mutant of DeleteAccount: the rows of sessions stay.
DeleteAccountOnly(r) ==
    /\ At(r, "delete")
    /\ users' = users \ {req[r].user}
    /\ Answer(r)
    /\ UNCHANGED <<now, sessions, minted, families>>

\* users.delete, with the cascade of sessions_userId_fkey.
DeleteAccount(r) ==
    /\ At(r, "delete")
    /\ users' = users \ {req[r].user}
    /\ sessions' = [s \in DOMAIN sessions \ OfUser(req[r].user) |-> sessions[s]]
    /\ Answer(r)
    /\ UNCHANGED <<now, minted, families>>

\* A statement fails (lost connection, foreign key, missing row, the process
\* dies): the request ends, what it had written stays.
Fail(r) ==
    /\ req[r] # Idle
    /\ Answer(r)
    /\ UNCHANGED <<now, users, sessions, minted, families>>

\* Time passes; with Lag below MaxTime, no request is left waiting for longer.
Tick ==
    /\ now < MaxTime
    /\ \A r \in Reqs : req[r] # Idle => now - req[r].at < Lag
    /\ now' = now + 1
    /\ UNCHANGED <<users, sessions, minted, families, req>>

\* The next statement of a request that is being served.
Step(r) ==
    \/ RotateClaim(r) \/ RotateReread(r) \/ RotateRevokeFamily(r)
    \/ \E s \in Sids : RotateCreate(r, s)
    \/ Logout(r) \/ LogoutAll(r) \/ RevokeOthers(r) \/ DeleteAccount(r)
    \/ Fail(r)

Next ==
    \/ \E u \in Users, f \in Families, s \in Sids : StartSession(u, f, s)
    \/ \E r \in Reqs, s \in Sids :
          RotateFind(r, s) \/ \E step \in HandlerSteps : CanActivate(r, s, step)
    \/ \E r \in Reqs : Step(r)
    \/ Tick

Spec == Init /\ [][Next]_vars

\* Node resumes every awaited call: with its result, or with an error.
Fairness == \A r \in Reqs : WF_vars(Step(r))

FairSpec == Spec /\ Fairness

-----------------------------------------------------------------------------
(* Properties *)

LiveIn(s, f) == Live(s) /\ sessions[s].family = f
Moving(r, f) == At(r, "create") /\ req[r].family = f

\* At any time a family has at most one token that can be redeemed, counting
\* the one that a refresh which won its claim is about to create: two
\* refreshes with one token, in any interleaving with logouts and failures,
\* never leave two branches of a family alive.
SingleHolder ==
    \A f \in Families :
        /\ \A s, t \in Sids : LiveIn(s, f) /\ LiveIn(t, f) => s = t
        /\ \A q, r \in Reqs : Moving(q, f) /\ Moving(r, f) => q = r
        /\ ~ \E s \in Sids, r \in Reqs : LiveIn(s, f) /\ Moving(r, f)

\* No session outlives its account, whatever refresh was between its claim
\* and its insert when the account was deleted.
SessionsHaveUsers ==
    \A s \in DOMAIN sessions : sessions[s].user \in users

Dead(f) ==
    /\ f \in families
    /\ \A s \in Sids : ~ LiveIn(s, f)
    /\ \A r \in Reqs : ~ Moving(r, f)

\* A family with no live session and no refresh between claim and create is
\* closed for good: no replay, login or late request brings it back.
DeadFamiliesStayDead ==
    [][\A f \in Families : Dead(f) => Dead(f)']_vars

Redeeming(r, f) == (At(r, "claim") \/ At(r, "create")) /\ req[r].family = f

Expired(f) ==
    /\ f \in families
    /\ \A s \in OfFamily(f) : sessions[s].expiresAt <= now
    /\ \A r \in Reqs : ~ Redeeming(r, f)

\* README.md:80, "de 7 días": once every token of a family has expired, used
\* or not, nobody gets another one of it.  Only a refresh that looked its token
\* up in time, and has not claimed it or created its successor yet, still may.
ExpiredFamiliesStayExpired ==
    [][\A f \in Families : Expired(f) => Expired(f)']_vars

\* The instant a session was revoked is written once.  The grace period is
\* measured from it: were it moved, a replay would look like a double click.
RevocationIsFinal ==
    [][\A s \in DOMAIN sessions \cap DOMAIN sessions' :
          sessions[s].revokedAt # Never =>
              sessions'[s].revokedAt = sessions[s].revokedAt]_vars

\* A refresh that found its token unused (so any other refresh that used it
\* was simultaneous) never costs the family a live session.  It takes a
\* process that answers in time: the winner's date may be Lag older than its
\* claim and the loser's second read Lag younger, so 2 * Lag < Grace.
SimultaneousRefreshIsNotTheft ==
    [][\A r \in Reqs :
          RotateRevokeFamily(r) /\ req[r].unused => UNCHANGED sessions]_vars

\* Every request is eventually answered.
RequestsAreAnswered ==
    \A r \in Reqs : req[r] # Idle ~> req[r] = Idle

-----------------------------------------------------------------------------
(* The table implements the abstract lineage of every family. *)

phaseBar ==
    [f \in Families |->
        CASE f \notin families -> "unopened"
          [] \E s \in Sids : LiveIn(s, f) -> "held"
          [] \E r \in Reqs : Moving(r, f) -> "moving"
          [] OTHER -> "closed"]

holderBar ==
    [f \in Families |->
        IF \E s \in Sids : LiveIn(s, f) THEN CHOOSE s \in Sids : LiveIn(s, f)
                                        ELSE NoToken]

Lineage == INSTANCE RefreshLineage
              WITH Tokens <- Sids, phase <- phaseBar, holder <- holderBar

\* Sessions implements RefreshLineage.
ImplementsLineage == Lineage!Spec
=============================================================================
