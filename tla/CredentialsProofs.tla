------------------------- MODULE CredentialsProofs -------------------------
(***************************************************************************)
(* Proofs about Credentials.                                               *)
(***************************************************************************)
EXTENDS Credentials, FiniteSetTheorems, TLAPS

\* What a request means to write is of the kind of its column.
Shaped ==
    \A r \in Reqs :
        /\ At(r, "checkEmail") \/ At(r, "updateEmail") => req[r].new \in Emails
        /\ At(r, "checkPassword") \/ At(r, "updatePassword") => req[r].new \in Passwords

EnteringSteps == {"record", "lock", "clear", "rehash", "start"}
ManagingSteps == {"checkEmail", "updateEmail", "checkPassword", "updatePassword",
                  "revokeOthers", "checkDelete", "delete"}

-----------------------------------------------------------------------------
(* What the helpers of the handlers do. *)

\* A request is what its step says it is.
LEMMA Kinds ==
    ASSUME TypeOK, NEW r \in Reqs
    PROVE  /\ req[r] = Idle \/ req[r] \in Entering \/ req[r] \in Managing
           /\ req[r] \in Entering <=> req[r].pc \in EnteringSteps
           /\ req[r] \in Managing <=> req[r].pc \in ManagingSteps
           /\ req[r] = Idle <=> req[r].pc = "idle"
BY DEF TypeOK, Idle, Entering, Managing, EnteringSteps, ManagingSteps

\* The request goes on with another of its steps.
LEMMA GoToEffect ==
    ASSUME TypeOK, NEW r \in Reqs, NEW step, GoTo(r, step),
           \/ req[r] \in Entering /\ step \in EnteringSteps
           \/ req[r] \in Managing /\ step \in ManagingSteps
    PROVE  /\ req' \in [Reqs -> {Idle} \cup Entering \cup Managing]
           /\ \A q \in Reqs \ {r} : req'[q] = req[q]
           /\ req'[r].pc = step
           /\ req[r] \in Entering =>
                 /\ req'[r] \in Entering
                 /\ req'[r].user = req[r].user /\ req'[r].given = req[r].given
                 /\ req'[r].weak = req[r].weak /\ req'[r].at = req[r].at
           /\ req[r] \in Managing =>
                 /\ req'[r] \in Managing
                 /\ req'[r].user = req[r].user /\ req'[r].given = req[r].given
                 /\ req'[r].sid = req[r].sid /\ req'[r].new = req[r].new
<1>1. /\ req'[r] = [req[r] EXCEPT !.pc = step]
      /\ \A q \in Reqs \ {r} : req'[q] = req[q]
      /\ DOMAIN req' = Reqs /\ req' = [q \in Reqs |-> req'[q]]
  BY DEF GoTo, TypeOK
<1>2. CASE req[r] \in Entering
  <2>1. step \in EnteringSteps
    BY <1>2 DEF Entering, Managing, EnteringSteps, ManagingSteps
  <2>2. /\ req'[r] \in Entering /\ req'[r].pc = step
        /\ req'[r].user = req[r].user /\ req'[r].given = req[r].given
        /\ req'[r].weak = req[r].weak /\ req'[r].at = req[r].at
    BY <1>1, <1>2, <2>1 DEF Entering, EnteringSteps
  <2>3. req[r] \notin Managing
    BY <1>2 DEF Entering, Managing
  <2> QED
    BY <1>1, <2>2, <2>3 DEF TypeOK
<1>3. CASE req[r] \in Managing
  <2>1. step \in ManagingSteps
    BY <1>3 DEF Entering, Managing, EnteringSteps, ManagingSteps
  <2>2. /\ req'[r] \in Managing /\ req'[r].pc = step
        /\ req'[r].user = req[r].user /\ req'[r].given = req[r].given
        /\ req'[r].sid = req[r].sid /\ req'[r].new = req[r].new
    BY <1>1, <1>3, <2>1 DEF Managing, ManagingSteps
  <2>3. req[r] \notin Entering
    BY <1>3 DEF Entering, Managing
  <2> QED
    BY <1>1, <2>2, <2>3 DEF TypeOK
<1> QED
  BY <1>2, <1>3

\* What answering a request does: it is idle, the others stay.
LEMMA AnswerEffect ==
    ASSUME TypeOK, NEW r \in Reqs, Answer(r)
    PROVE  /\ req' \in [Reqs -> {Idle} \cup Entering \cup Managing]
           /\ \A q \in Reqs \ {r} : req'[q] = req[q]
           /\ req'[r] = Idle
BY DEF TypeOK, Answer

\* A statement on one row leaves the others alone.
LEMMA UpdateEffect ==
    ASSUME TypeOK, NEW u, NEW row \in Account, Update(u, row)
    PROVE  /\ u \in DOMAIN accounts
           /\ DOMAIN accounts' = DOMAIN accounts
           /\ accounts' \in [DOMAIN accounts' -> Account]
           /\ accounts'[u] = row
           /\ \A v \in DOMAIN accounts \ {u} : accounts'[v] = accounts[v]
BY DEF TypeOK, Update

\* End: the sessions of S stop being live, and nothing else of any changes.
LEMMA EndEffect ==
    ASSUME TypeOK, NEW S, End(S)
    PROVE  /\ DOMAIN sessions' = DOMAIN sessions
           /\ sessions' \in [DOMAIN sessions' -> Session]
           /\ \A s \in DOMAIN sessions :
                 /\ sessions'[s].user = sessions[s].user
                 /\ sessions'[s].password = sessions[s].password
                 /\ sessions'[s].late = sessions[s].late
                 /\ sessions'[s].live <=> sessions[s].live /\ s \notin S
<1>1. \A s \in DOMAIN sessions : sessions[s] \in Session
  BY DEF TypeOK
<1>2. DOMAIN sessions' = DOMAIN sessions
  BY DEF End
<1>3. \A s \in DOMAIN sessions :
         sessions'[s] = [sessions[s] EXCEPT !.live = sessions[s].live /\ s \notin S]
  BY DEF End
<1>4. \A s \in DOMAIN sessions :
         /\ sessions'[s] \in Session
         /\ sessions'[s].user = sessions[s].user
         /\ sessions'[s].password = sessions[s].password
         /\ sessions'[s].late = sessions[s].late
         /\ sessions'[s].live <=> sessions[s].live /\ s \notin S
  BY <1>1, <1>3 DEF Session
<1> QED
  BY <1>2, <1>4 DEF End

\* The session of a change of password proves the new one.
Proves(s, p) == sessions' = [sessions EXCEPT ![s].password = p]

\* Proves: one session is marked with the password that was given.
LEMMA ProvesEffect ==
    ASSUME TypeOK, NEW s, NEW p \in Passwords, Proves(s, p)
    PROVE  /\ DOMAIN sessions' = DOMAIN sessions
           /\ sessions' \in [DOMAIN sessions' -> Session]
           /\ \A t \in DOMAIN sessions :
                 /\ sessions'[t].user = sessions[t].user
                 /\ sessions'[t].late = sessions[t].late
                 /\ sessions'[t].live = sessions[t].live
                 /\ sessions'[t].password =
                       IF t = s THEN p ELSE sessions[t].password
<1>1. \A t \in DOMAIN sessions : sessions[t] \in Session
  BY DEF TypeOK
<1>2. DOMAIN sessions' = DOMAIN sessions
  BY DEF Proves
<1>3. \A t \in DOMAIN sessions : sessions'[t] =
         IF t = s THEN [sessions[t] EXCEPT !.password = p] ELSE sessions[t]
  BY DEF Proves
<1>4. \A t \in DOMAIN sessions :
         /\ sessions'[t] \in Session
         /\ sessions'[t].user = sessions[t].user
         /\ sessions'[t].late = sessions[t].late
         /\ sessions'[t].live = sessions[t].live
         /\ sessions'[t].password = IF t = s THEN p ELSE sessions[t].password
  BY <1>1, <1>3 DEF Session
<1> QED
  BY <1>2, <1>4 DEF TypeOK, Proves

\* The insert of register.
LEMMA AddAccountEffect ==
    ASSUME TypeOK, NEW u \in Users, NEW e \in Emails, NEW p \in Passwords,
           AddAccount(u, e, p)
    PROVE  /\ u \notin born /\ born' = born \cup {u} /\ born' \subseteq Users
           /\ DOMAIN accounts' = DOMAIN accounts \cup {u}
           /\ accounts' \in [DOMAIN accounts' -> Account]
           /\ accounts'[u].email = e
           /\ accounts'[u].password = p /\ accounts'[u].chosen = p
           /\ accounts'[u].weak = FALSE
           /\ accounts'[u].failed = 0
           /\ accounts'[u].lockedUntil = Never
           /\ \A v \in DOMAIN accounts \ {u} : accounts'[v] = accounts[v]
<1> DEFINE row == [email |-> e, password |-> p, weak |-> FALSE, failed |-> 0,
                   lockedUntil |-> Never, chosen |-> p]
<1>1. row \in Account
  BY DEF Account
<1>2. accounts' = [v \in DOMAIN accounts \cup {u} |-> IF v = u THEN row ELSE accounts[v]]
  BY DEF AddAccount
<1>3. accounts'[u] = row
  BY <1>2
<1>4. /\ row.email = e /\ row.password = p /\ row.chosen = p
      /\ row.weak = FALSE /\ row.failed = 0 /\ row.lockedUntil = Never
  OBVIOUS
<1> HIDE DEF row
<1>5. accounts' \in [DOMAIN accounts \cup {u} -> Account]
  BY <1>1, <1>2 DEF TypeOK
<1> QED
  BY <1>2, <1>3, <1>4, <1>5 DEF AddAccount, TypeOK

-----------------------------------------------------------------------------
(* What each action does, read off row by row and request by request. *)

\* Request r is the only one that moves, and it goes on with `step`.
Went(r, step) ==
    /\ \A q \in Reqs \ {r} : req'[q] = req[q]
    /\ req'[r].pc = step
    /\ req'[r].user = req[r].user
    /\ req'[r].given = req[r].given
    /\ req'[r] \in Entering <=> req[r] \in Entering
    /\ req'[r] \in Managing <=> req[r] \in Managing
    /\ req[r] \in Entering => req'[r].weak = req[r].weak
    /\ req[r] \in Managing => req'[r].sid = req[r].sid /\ req'[r].new = req[r].new

\* Or it ends.
Left(r) ==
    /\ \A q \in Reqs \ {r} : req'[q] = req[q]
    /\ req'[r] = Idle
    /\ lockedSince' = lockedSince \ {r}
    /\ changedSince' = changedSince \ {r}

\* The row of u is the only one that a statement changes.
Wrote(u) ==
    /\ u \in DOMAIN accounts
    /\ DOMAIN accounts' = DOMAIN accounts
    /\ accounts' \in [DOMAIN accounts' -> Account]
    /\ \A v \in DOMAIN accounts \ {u} : accounts'[v] = accounts[v]

\* Of the row of u the password is what it was, and who chose it.
SamePassword(u) ==
    /\ accounts'[u].password = accounts[u].password
    /\ accounts'[u].weak = accounts[u].weak
    /\ accounts'[u].chosen = accounts[u].chosen

\* The failures and the lock are.
SameLock(u) ==
    /\ accounts'[u].failed = accounts[u].failed
    /\ accounts'[u].lockedUntil = accounts[u].lockedUntil

SameEmail(u) == accounts'[u].email = accounts[u].email

\* The sessions are what they were, but for those of S that end.
Ended(S) ==
    /\ DOMAIN sessions' = DOMAIN sessions
    /\ \A s \in DOMAIN sessions :
          /\ sessions'[s].user = sessions[s].user
          /\ sessions'[s].password = sessions[s].password
          /\ sessions'[s].late = sessions[s].late
          /\ sessions'[s].live <=> sessions[s].live /\ s \notin S

\* GoTo: the request awaits its next statement and keeps what it read.
LEMMA GoToWent ==
    ASSUME TypeOK, NEW r \in Reqs, NEW step, GoTo(r, step),
           \/ req[r] \in Entering /\ step \in EnteringSteps
           \/ req[r] \in Managing /\ step \in ManagingSteps
    PROVE  Went(r, step) /\ req' \in [Reqs -> {Idle} \cup Entering \cup Managing]
<1>1. \A x : ~ (x \in Entering /\ x \in Managing)
  BY DEF Entering, Managing
<1> QED
  BY <1>1, GoToEffect DEF Went

\* Leave: the request is answered and the account's history forgets it.
LEMMA LeaveLeft ==
    ASSUME TypeOK, NEW r \in Reqs, Leave(r)
    PROVE  Left(r) /\ req' \in [Reqs -> {Idle} \cup Entering \cup Managing]
BY AnswerEffect DEF Leave, Left

\* Update writes one row and no other.
LEMMA UpdateWrote ==
    ASSUME TypeOK, NEW u, NEW row \in Account, Update(u, row)
    PROVE  Wrote(u) /\ accounts'[u] = row
BY UpdateEffect DEF Wrote

\* What LoginFind does to each part of the state.
LEMMA LoginFindEffect ==
    ASSUME TypeOK, NEW r \in Reqs, NEW e \in Emails, NEW p \in Passwords, LoginFind(r, e, p)
    PROVE  \E u \in DOMAIN accounts :
              /\ ~ Locked(u)
              /\ req[r] = Idle
              /\ req'[r] \in Entering
              /\ req'[r].pc = AfterVerify(accounts[u], p)
              /\ req'[r].user = u
              /\ req'[r].given = p
              /\ req'[r].weak = accounts[u].weak
              /\ \A q \in Reqs \ {r} : req'[q] = req[q]
              /\ req' \in [Reqs -> {Idle} \cup Entering \cup Managing]
<1> DEFINE x(u) == [pc |-> AfterVerify(accounts[u], p), user |-> u, given |-> p,
                    weak |-> NeedsRehash(accounts[u]), at |-> now]
<1>1. PICK u \in DOMAIN accounts :
         ~ Locked(u) /\ req[r] = Idle /\ req' = [req EXCEPT ![r] = x(u)]
  BY DEF LoginFind
<1>2. AfterVerify(accounts[u], p) \in EnteringSteps
  BY DEF AfterVerify, EnteringSteps
<1>3. accounts[u] \in Account /\ u \in Users /\ now \in Nat
  BY DEF TypeOK
<1>4. x(u) \in Entering /\ x(u).weak = accounts[u].weak
  BY <1>2, <1>3 DEF Entering, EnteringSteps, NeedsRehash, Account
<1>5. req'[r] = x(u) /\ \A q \in Reqs \ {r} : req'[q] = req[q]
  BY <1>1 DEF TypeOK
<1>6. req' \in [Reqs -> {Idle} \cup Entering \cup Managing]
  BY <1>1, <1>4 DEF TypeOK
<1> QED
  BY <1>1, <1>4, <1>5, <1>6

\* What Register does to each part of the state.
LEMMA RegisterEffect ==
    ASSUME TypeOK, NEW r \in Reqs, NEW e \in Emails, NEW p \in Passwords, NEW u \in Users,
           Register(r, u, e, p)
    PROVE  /\ req[r] = Idle
           /\ req'[r] \in Entering
           /\ req'[r].pc = "start"
           /\ req'[r].user = u
           /\ req'[r].given = p
           /\ req'[r].weak = FALSE
           /\ \A q \in Reqs \ {r} : req'[q] = req[q]
           /\ req' \in [Reqs -> {Idle} \cup Entering \cup Managing]
<1> DEFINE x == [pc |-> "start", user |-> u, given |-> p, weak |-> FALSE, at |-> now]
<1>1. x \in Entering
  BY DEF Entering, TypeOK
<1>2. req[r] = Idle /\ req' = [req EXCEPT ![r] = x]
  BY DEF Register
<1>3. req'[r] = x /\ \A q \in Reqs \ {r} : req'[q] = req[q]
  BY <1>2 DEF TypeOK
<1>4. req' \in [Reqs -> {Idle} \cup Entering \cup Managing]
  BY <1>1, <1>2 DEF TypeOK
<1> QED
  BY <1>1, <1>2, <1>3, <1>4

\* The three handlers of the profile that ask for the password.
CheckSteps == {"checkEmail", "checkPassword", "checkDelete"}

\* What CanActivate does to each part of the state.
LEMMA CanActivateEffect ==
    ASSUME TypeOK, NEW r \in Reqs, NEW s \in Sids, NEW p \in Passwords,
           NEW step \in CheckSteps, NEW new \in Emails \cup Passwords,
           CanActivate(r, s, step, p, new)
    PROVE  /\ s \in DOMAIN sessions
           /\ sessions[s].live
           /\ req[r] = Idle
           /\ req'[r] \in Managing
           /\ req'[r].pc = step
           /\ req'[r].user = sessions[s].user
           /\ req'[r].sid = s
           /\ req'[r].new = new
           /\ \A q \in Reqs \ {r} : req'[q] = req[q]
           /\ req' \in [Reqs -> {Idle} \cup Entering \cup Managing]
<1> DEFINE x == [pc |-> step, user |-> sessions[s].user, sid |-> s, given |-> p, new |-> new]
<1>1. s \in DOMAIN sessions /\ sessions[s] \in Session
  BY DEF TypeOK, CanActivate
<1>2. x \in Managing
  BY <1>1 DEF Managing, Session, CheckSteps
<1>3. req[r] = Idle /\ sessions[s].live /\ req' = [req EXCEPT ![r] = x]
  BY DEF CanActivate
<1>4. req'[r] = x /\ \A q \in Reqs \ {r} : req'[q] = req[q]
  BY <1>3 DEF TypeOK
<1>5. req' \in [Reqs -> {Idle} \cup Entering \cup Managing]
  BY <1>2, <1>3 DEF TypeOK
<1> QED
  BY <1>1, <1>2, <1>3, <1>4, <1>5

\* What RecordFailedLogin does to each part of the state.
LEMMA RecordFailedLoginEffect ==
    ASSUME TypeOK, NEW r \in Reqs, RecordFailedLogin(r)
    PROVE  LET u == req[r].user IN
           /\ req[r] \in Entering
           /\ Wrote(u) /\ SamePassword(u) /\ SameEmail(u)
           /\ accounts'[u].failed = accounts[u].failed + 1
           /\ accounts'[u].lockedUntil = accounts[u].lockedUntil
           /\ req' \in [Reqs -> {Idle} \cup Entering \cup Managing]
           /\ IF accounts'[u].failed >= MaxFailed
                THEN Went(r, "lock") /\ UNCHANGED <<lockedSince, changedSince>>
                ELSE Left(r)
<1> DEFINE u == req[r].user
           row == [accounts[u] EXCEPT !.failed = accounts[u].failed + 1]
<1>1. req[r] \in Entering
  BY Kinds DEF RecordFailedLogin, At, EnteringSteps
<1>2. Update(u, row) /\ accounts[u] \in Account
  BY DEF RecordFailedLogin, Update, TypeOK
<1>3. row \in Account
  BY <1>2 DEF Account
<1>4. Wrote(u) /\ accounts'[u] = row
  BY <1>2, <1>3, UpdateWrote
<1>5. /\ SamePassword(u) /\ SameEmail(u)
      /\ accounts'[u].failed = accounts[u].failed + 1
      /\ accounts'[u].lockedUntil = accounts[u].lockedUntil
  BY <1>2, <1>4 DEF SamePassword, SameEmail, Account
<1>6. CASE accounts'[u].failed >= MaxFailed
  <2>1. /\ req' = [req EXCEPT ![r].pc = "lock", ![r].at = now]
        /\ UNCHANGED <<lockedSince, changedSince>>
    BY <1>5, <1>6 DEF RecordFailedLogin
  <2> DEFINE x == [[req[r] EXCEPT !.pc = "lock"] EXCEPT !.at = now]
  <2>2. /\ x \in Entering /\ x.pc = "lock" /\ x.user = req[r].user
        /\ x.given = req[r].given /\ x.weak = req[r].weak
    BY <1>1 DEF TypeOK, Entering
  <2>3. x \notin Managing /\ req[r] \notin Managing
    BY <1>1, <2>2 DEF Entering, Managing
  <2>4. req'[r] = x /\ \A q \in Reqs \ {r} : req'[q] = req[q]
    BY <2>1 DEF TypeOK
  <2>5. req' \in [Reqs -> {Idle} \cup Entering \cup Managing]
    BY <2>1, <2>2 DEF TypeOK
  <2> QED
    BY <1>1, <1>4, <1>5, <1>6, <2>1, <2>2, <2>3, <2>4, <2>5 DEF Went
<1>7. CASE ~ (accounts'[u].failed >= MaxFailed)
  BY <1>1, <1>4, <1>5, <1>7, LeaveLeft DEF RecordFailedLogin
<1> QED
  BY <1>6, <1>7

\* What Lock does to each part of the state.
LEMMA LockEffect ==
    ASSUME TypeOK, NEW r \in Reqs, Lock(r)
    PROVE  LET u == req[r].user IN
           /\ req[r] \in Entering
           /\ Wrote(u) /\ SamePassword(u) /\ SameEmail(u)
           /\ accounts'[u].failed = 0
           /\ req' \in [Reqs -> {Idle} \cup Entering \cup Managing]
           /\ req'[r] = Idle
           /\ \A q \in Reqs \ {r} : req'[q] = req[q]
           /\ lost' \in [Users -> 0 .. MaxLost]
           /\ lost'[u] = 0
           /\ \A v \in Users \ {u} : lost'[v] = lost[v]
<1> DEFINE u == req[r].user
<1>1. req[r] \in Entering
  BY Kinds DEF Lock, At, EnteringSteps
<1>2. PICK date \in req[r].at .. now :
         Update(u, [accounts[u] EXCEPT !.failed = 0, !.lockedUntil = date + LockTime])
  BY DEF Lock
<1>3. accounts[u] \in Account /\ date + LockTime \in Nat
  BY <1>1, <1>2, CredentialsAssumption DEF Update, TypeOK, Entering
<1> DEFINE row == [[accounts[u] EXCEPT !.failed = 0] EXCEPT !.lockedUntil = date + LockTime]
<1>4. row \in Account
  BY <1>3 DEF Account
<1>5. Wrote(u) /\ accounts'[u] = row
  BY <1>2, <1>4, UpdateWrote
<1>6. SamePassword(u) /\ SameEmail(u) /\ accounts'[u].failed = 0
  BY <1>3, <1>5 DEF SamePassword, SameEmail, Account
<1>7. lost' = [lost EXCEPT ![u] = 0] /\ 0 \in 0 .. MaxLost
  BY CredentialsAssumption DEF Lock
<1>8. /\ lost' \in [Users -> 0 .. MaxLost] /\ u \in Users
      /\ lost'[u] = 0 /\ \A v \in Users \ {u} : lost'[v] = lost[v]
  BY <1>1, <1>7 DEF TypeOK, Entering
<1>9. Answer(r)
  BY DEF Lock
<1> QED
  BY <1>1, <1>5, <1>6, <1>8, <1>9, AnswerEffect

\* What ClearFailedLogins does to each part of the state.
LEMMA ClearFailedLoginsEffect ==
    ASSUME TypeOK, NEW r \in Reqs, ClearFailedLogins(r)
    PROVE  LET u == req[r].user IN
           /\ req[r] \in Entering
           /\ Wrote(u) /\ SamePassword(u) /\ SameEmail(u)
           /\ accounts'[u].failed = 0
           /\ accounts'[u].lockedUntil = Never
           /\ req' \in [Reqs -> {Idle} \cup Entering \cup Managing]
           /\ Went(r, IF req[r].weak THEN "rehash" ELSE "start")
           /\ lost' \in [Users -> 0 .. MaxLost]
           /\ lost'[u] = 0
           /\ \A v \in Users \ {u} : lost'[v] = lost[v]
<1> DEFINE u == req[r].user
           row == [[accounts[u] EXCEPT !.failed = 0] EXCEPT !.lockedUntil = Never]
<1>1. req[r] \in Entering
  BY Kinds DEF ClearFailedLogins, At, EnteringSteps
<1>2. Update(u, row) /\ accounts[u] \in Account
  BY DEF ClearFailedLogins, Update, TypeOK
<1>3. row \in Account
  BY <1>2 DEF Account
<1>4. Wrote(u) /\ accounts'[u] = row
  BY <1>2, <1>3, UpdateWrote
<1>5. /\ SamePassword(u) /\ SameEmail(u)
      /\ accounts'[u].failed = 0 /\ accounts'[u].lockedUntil = Never
  BY <1>2, <1>4 DEF SamePassword, SameEmail, Account
<1>6. lost' = [lost EXCEPT ![u] = 0] /\ 0 \in 0 .. MaxLost
  BY CredentialsAssumption DEF ClearFailedLogins
<1>7. /\ lost' \in [Users -> 0 .. MaxLost] /\ u \in Users
      /\ lost'[u] = 0 /\ \A v \in Users \ {u} : lost'[v] = lost[v]
  BY <1>1, <1>6 DEF TypeOK, Entering
<1>8. GoTo(r, IF req[r].weak THEN "rehash" ELSE "start")
  BY DEF ClearFailedLogins
<1>9. /\ Went(r, IF req[r].weak THEN "rehash" ELSE "start")
      /\ req' \in [Reqs -> {Idle} \cup Entering \cup Managing]
  BY <1>1, <1>8, GoToWent DEF EnteringSteps
<1> QED
  BY <1>1, <1>4, <1>5, <1>7, <1>9

\* What Rehash does to each part of the state.
LEMMA RehashEffect ==
    ASSUME TypeOK, NEW r \in Reqs, Rehash(r)
    PROVE  LET u == req[r].user IN
           /\ req[r] \in Entering
           /\ Wrote(u) /\ SameLock(u) /\ SameEmail(u)
           /\ accounts'[u].password = req[r].given
           /\ accounts'[u].chosen = accounts[u].chosen
           /\ req' \in [Reqs -> {Idle} \cup Entering \cup Managing]
           /\ Went(r, "start")
<1> DEFINE u == req[r].user
           row == [[accounts[u] EXCEPT !.password = req[r].given] EXCEPT !.weak = FALSE]
<1>1. req[r] \in Entering
  BY Kinds DEF Rehash, At, EnteringSteps
<1>2. Update(u, row) /\ accounts[u] \in Account
  BY DEF Rehash, Update, TypeOK
<1>3. row \in Account
  BY <1>1, <1>2 DEF Account, Entering
<1>4. Wrote(u) /\ accounts'[u] = row
  BY <1>2, <1>3, UpdateWrote
<1>5. /\ SameLock(u) /\ SameEmail(u)
      /\ accounts'[u].password = req[r].given
      /\ accounts'[u].chosen = accounts[u].chosen
  BY <1>2, <1>4 DEF SameLock, SameEmail, Account
<1>6. GoTo(r, "start")
  BY DEF Rehash
<1>7. Went(r, "start") /\ req' \in [Reqs -> {Idle} \cup Entering \cup Managing]
  BY <1>1, <1>6, GoToWent DEF EnteringSteps
<1> QED
  BY <1>1, <1>4, <1>5, <1>7

\* What StartSession does to each part of the state.
LEMMA StartSessionEffect ==
    ASSUME TypeOK, NEW r \in Reqs, NEW s \in Sids, StartSession(r, s)
    PROVE  /\ req[r] \in Entering
           /\ s \notin DOMAIN sessions
           /\ DOMAIN sessions' = DOMAIN sessions \cup {s}
           /\ sessions' \in [DOMAIN sessions' -> Session]
           /\ \A t \in DOMAIN sessions : sessions'[t] = sessions[t]
           /\ sessions'[s].user = req[r].user
           /\ sessions'[s].password = req[r].given
           /\ sessions'[s].late <=> r \in changedSince
           /\ Left(r)
           /\ req' \in [Reqs -> {Idle} \cup Entering \cup Managing]
<1> DEFINE new == [user |-> req[r].user, password |-> req[r].given,
                   late |-> r \in changedSince, live |-> TRUE]
<1>1. req[r] \in Entering
  BY Kinds DEF StartSession, At, EnteringSteps
<1>2. new \in Session
  BY <1>1 DEF Session, Entering
<1>3. /\ sessions' = [t \in DOMAIN sessions \cup {s} |-> IF t = s THEN new ELSE sessions[t]]
      /\ s \notin DOMAIN sessions
      /\ Leave(r)
  BY DEF StartSession
<1>4. sessions' \in [DOMAIN sessions \cup {s} -> Session] /\ sessions'[s] = new
  BY <1>2, <1>3 DEF TypeOK
<1> QED
  BY <1>1, <1>3, <1>4, LeaveLeft

\* What VerifyCurrentPassword does to each part of the state.
LEMMA VerifyCurrentPasswordEffect ==
    ASSUME TypeOK, NEW r \in Reqs, VerifyCurrentPassword(r)
    PROVE  /\ req[r] \in Managing
           /\ req' \in [Reqs -> {Idle} \cup Entering \cup Managing]
           /\ \/ Left(r)
              \/ /\ req[r].user \in DOMAIN accounts
                 /\ accounts[req[r].user].password = req[r].given
                 /\ UNCHANGED <<lockedSince, changedSince>>
                 /\ \/ At(r, "checkEmail") /\ Went(r, "updateEmail")
                    \/ At(r, "checkPassword") /\ Went(r, "updatePassword")
                    \/ At(r, "checkDelete") /\ Went(r, "delete")
<1>1. req[r] \in Managing
  BY Kinds DEF VerifyCurrentPassword, At, ManagingSteps
<1>2. CASE Leave(r)
  BY <1>1, <1>2, LeaveLeft
<1>3. CASE /\ req[r].user \in DOMAIN accounts
           /\ accounts[req[r].user].password = req[r].given
           /\ AfterCheck(r) # "refused"
           /\ GoTo(r, AfterCheck(r))
           /\ UNCHANGED <<lockedSince, changedSince>>
  <2>1. /\ At(r, "checkEmail") => AfterCheck(r) = "updateEmail"
        /\ At(r, "checkDelete") => AfterCheck(r) = "delete"
        /\ At(r, "checkPassword") => AfterCheck(r) = "updatePassword"
    BY <1>3 DEF AfterCheck, At
  <2>2. At(r, "checkEmail") \/ At(r, "checkPassword") \/ At(r, "checkDelete")
    BY DEF VerifyCurrentPassword
  <2>3. AfterCheck(r) \in ManagingSteps
    BY <2>1, <2>2 DEF ManagingSteps
  <2>4. Went(r, AfterCheck(r)) /\ req' \in [Reqs -> {Idle} \cup Entering \cup Managing]
    BY <1>1, <1>3, <2>3, GoToWent
  <2> QED
    BY <1>1, <1>3, <2>1, <2>2, <2>4
<1> QED
  BY <1>2, <1>3 DEF VerifyCurrentPassword

\* What UpdateEmail does to each part of the state.
LEMMA UpdateEmailEffect ==
    ASSUME TypeOK, Shaped, NEW r \in Reqs, UpdateEmail(r)
    PROVE  LET u == req[r].user IN
           /\ req[r] \in Managing
           /\ Wrote(u) /\ SamePassword(u) /\ SameLock(u)
           /\ Left(r)
           /\ req' \in [Reqs -> {Idle} \cup Entering \cup Managing]
<1> DEFINE u == req[r].user
           row == [accounts[u] EXCEPT !.email = req[r].new]
<1>1. req[r] \in Managing /\ req[r].new \in Emails
  BY Kinds DEF UpdateEmail, Shaped, At, ManagingSteps
<1>2. Update(u, row) /\ accounts[u] \in Account
  BY DEF UpdateEmail, Update, TypeOK
<1>3. row \in Account
  BY <1>1, <1>2 DEF Account
<1>4. Wrote(u) /\ accounts'[u] = row
  BY <1>2, <1>3, UpdateWrote
<1>5. SamePassword(u) /\ SameLock(u)
  BY <1>2, <1>4 DEF SamePassword, SameLock, Account
<1> QED
  BY <1>1, <1>4, <1>5, LeaveLeft DEF UpdateEmail

\* What UpdatePasswordHash does to each part of the state.
LEMMA UpdatePasswordHashEffect ==
    ASSUME TypeOK, Shaped, NEW r \in Reqs, UpdatePasswordHash(r)
    PROVE  LET u == req[r].user IN
           /\ req[r] \in Managing
           /\ Wrote(u) /\ SameLock(u) /\ SameEmail(u)
           /\ accounts'[u].password = req[r].new
           /\ accounts'[u].chosen = req[r].new
           /\ accounts'[u].weak = FALSE
           /\ DOMAIN sessions' = DOMAIN sessions
           /\ sessions' \in [DOMAIN sessions' -> Session]
           /\ \A t \in DOMAIN sessions :
                 /\ sessions'[t].user = sessions[t].user
                 /\ sessions'[t].late = sessions[t].late
                 /\ sessions'[t].live = sessions[t].live
                 /\ sessions'[t].password =
                       IF t = req[r].sid THEN req[r].new ELSE sessions[t].password
           /\ Went(r, "revokeOthers")
           /\ req' \in [Reqs -> {Idle} \cup Entering \cup Managing]
<1> DEFINE u == req[r].user
           row == [[[accounts[u] EXCEPT !.password = req[r].new]
                       EXCEPT !.weak = FALSE] EXCEPT !.chosen = req[r].new]
<1>1. req[r] \in Managing /\ req[r].new \in Passwords
  BY Kinds DEF UpdatePasswordHash, Shaped, At, ManagingSteps
<1>2. Update(u, row) /\ accounts[u] \in Account
  BY DEF UpdatePasswordHash, Update, TypeOK
<1>3. row \in Account
  BY <1>1, <1>2 DEF Account
<1>4. Wrote(u) /\ accounts'[u] = row
  BY <1>2, <1>3, UpdateWrote
<1>5. /\ SameLock(u) /\ SameEmail(u) /\ accounts'[u].weak = FALSE
      /\ accounts'[u].password = req[r].new /\ accounts'[u].chosen = req[r].new
  BY <1>2, <1>4 DEF SameLock, SameEmail, Account
<1>6. GoTo(r, "revokeOthers") /\ Proves(req[r].sid, req[r].new)
  BY DEF UpdatePasswordHash, Proves
<1>7. Went(r, "revokeOthers") /\ req' \in [Reqs -> {Idle} \cup Entering \cup Managing]
  BY <1>1, <1>6, GoToWent DEF ManagingSteps
<1>8. /\ DOMAIN sessions' = DOMAIN sessions
      /\ sessions' \in [DOMAIN sessions' -> Session]
      /\ \A t \in DOMAIN sessions :
            /\ sessions'[t].user = sessions[t].user
            /\ sessions'[t].late = sessions[t].late
            /\ sessions'[t].live = sessions[t].live
            /\ sessions'[t].password =
                  IF t = req[r].sid THEN req[r].new ELSE sessions[t].password
  BY <1>1, <1>6, ProvesEffect
<1> QED
  BY <1>1, <1>4, <1>5, <1>7, <1>8

\* What RevokeOthers does to each part of the state.
LEMMA RevokeOthersEffect ==
    ASSUME TypeOK, NEW r \in Reqs, RevokeOthers(r)
    PROVE  /\ req[r] \in Managing
           /\ Ended(OfUser(req[r].user) \ {req[r].sid})
           /\ sessions' \in [DOMAIN sessions' -> Session]
           /\ Left(r)
           /\ req' \in [Reqs -> {Idle} \cup Entering \cup Managing]
<1>1. req[r] \in Managing
  BY Kinds DEF RevokeOthers, At, ManagingSteps
<1>2. End(OfUser(req[r].user) \ {req[r].sid}) /\ Leave(r)
  BY DEF RevokeOthers
<1> QED
  BY <1>1, <1>2, EndEffect, LeaveLeft DEF Ended

\* What DeleteAccount does to each part of the state.
LEMMA DeleteAccountEffect ==
    ASSUME TypeOK, NEW r \in Reqs, DeleteAccount(r)
    PROVE  LET u == req[r].user IN
           /\ req[r] \in Managing
           /\ u \in DOMAIN accounts
           /\ DOMAIN accounts' = DOMAIN accounts \ {u}
           /\ accounts' \in [DOMAIN accounts' -> Account]
           /\ \A v \in DOMAIN accounts' : accounts'[v] = accounts[v]
           /\ Ended(OfUser(u))
           /\ sessions' \in [DOMAIN sessions' -> Session]
           /\ Left(r)
           /\ req' \in [Reqs -> {Idle} \cup Entering \cup Managing]
<1> DEFINE u == req[r].user
<1>1. req[r] \in Managing
  BY Kinds DEF DeleteAccount, At, ManagingSteps
<1>2. /\ u \in DOMAIN accounts
      /\ accounts' = [v \in DOMAIN accounts \ {u} |-> accounts[v]]
      /\ End(OfUser(u)) /\ Leave(r)
  BY DEF DeleteAccount
<1>3. accounts' \in [DOMAIN accounts' -> Account]
  BY <1>2 DEF TypeOK
<1> QED
  BY <1>1, <1>2, <1>3, EndEffect, LeaveLeft DEF Ended

\* What Fail does to each part of the state.
LEMMA FailEffect ==
    ASSUME TypeOK, NEW r \in Reqs, Fail(r)
    PROVE  /\ Left(r)
           /\ req[r] # Idle
           /\ req' \in [Reqs -> {Idle} \cup Entering \cup Managing]
           /\ lost' \in [Users -> 0 .. MaxLost]
           /\ \A v \in Users : lost'[v] =
                 IF At(r, "lock") /\ v = req[r].user THEN lost[v] + 1 ELSE lost[v]
<1>1. Left(r) /\ req[r] # Idle /\ req' \in [Reqs -> {Idle} \cup Entering \cup Managing]
  BY LeaveLeft DEF Fail
<1>2. CASE At(r, "lock")
  <2>1. lost[req[r].user] < MaxLost /\ lost' = [lost EXCEPT ![req[r].user] = @ + 1]
    BY <1>2 DEF Fail
  <2>2. \A v \in Users : lost'[v] = IF v = req[r].user THEN lost[v] + 1 ELSE lost[v]
    BY <2>1 DEF TypeOK
  <2>3. \A v \in Users : lost'[v] \in 0 .. MaxLost
    BY <2>1, <2>2, CredentialsAssumption DEF TypeOK
  <2>4. lost' \in [Users -> 0 .. MaxLost]
    BY <2>1, <2>3 DEF TypeOK
  <2> QED
    BY <1>1, <1>2, <2>2, <2>4
<1>3. CASE ~ At(r, "lock")
  BY <1>1, <1>3 DEF Fail, TypeOK
<1> QED
  BY <1>2, <1>3

-----------------------------------------------------------------------------
(* Type correctness *)

\* What the statements read and write besides is of the right type as well.
Typed == TypeOK /\ Shaped

\* The shapes hold initially.
LEMMA TypedInit == Init => Typed
<1> SUFFICES ASSUME Init PROVE Typed
  OBVIOUS
<1>1. PICK em \in [Registered -> Emails], pw \in [Registered -> Passwords] :
         accounts = [u \in Registered |->
                       [email |-> em[u], password |-> pw[u], weak |-> OldHashes,
                        failed |-> 0, lockedUntil |-> Never, chosen |-> pw[u]]]
  BY DEF Init
<1>2. accounts \in [Registered -> Account]
  BY <1>1, CredentialsAssumption DEF Account
<1>3. sessions \in [DOMAIN sessions -> Session] /\ DOMAIN sessions = {}
  BY DEF Init
<1>4. lost \in [Users -> 0 .. MaxLost]
  BY CredentialsAssumption DEF Init
<1>5. TypeOK
  BY <1>1, <1>2, <1>3, <1>4, CredentialsAssumption DEF Init, TypeOK
<1>6. Shaped
  BY DEF Init, Shaped, At
<1> QED
  BY <1>5, <1>6 DEF Typed

\* The request r alone moves, and to a well formed state.
LEMMA TypedReq ==
    ASSUME Typed, NEW r \in Reqs,
           req' \in [Reqs -> {Idle} \cup Entering \cup Managing],
           \A q \in Reqs \ {r} : req'[q] = req[q],
           \/ req'[r] = Idle
           \/ req'[r] \in Entering
           \/ req'[r].pc = "revokeOthers" \/ req'[r].pc = "delete" \/ req'[r].pc = "checkDelete"
           \/ req'[r].pc \in {"checkEmail", "updateEmail"} /\ req'[r].new \in Emails
           \/ req'[r].pc \in {"checkPassword", "updatePassword"} /\ req'[r].new \in Passwords
    PROVE  Shaped'
<1>1. req'[r] = Idle => req'[r].pc = "idle"
  BY DEF Idle
<1>2. req'[r] \in Entering => req'[r].pc \in EnteringSteps
  BY DEF Entering, EnteringSteps
<1> QED
  BY <1>1, <1>2 DEF Typed, Shaped, At, EnteringSteps

\* A request that leaves keeps the shapes of the others.
LEMMA LeftTyped ==
    ASSUME Typed, NEW r \in Reqs, Left(r),
           req' \in [Reqs -> {Idle} \cup Entering \cup Managing]
    PROVE  Shaped' /\ lockedSince' \subseteq Reqs /\ changedSince' \subseteq Reqs
BY TypedReq DEF Left, Typed, TypeOK

\* Every step keeps the shapes.
LEMMA TypedNext == Typed /\ [Next]_vars => Typed'
<1> SUFFICES ASSUME Typed, [Next]_vars PROVE Typed'
  OBVIOUS
<1> USE CredentialsAssumption
<1>0. TypeOK /\ Shaped
  BY DEF Typed
<1>1. ASSUME NEW r \in Reqs, NEW e \in Emails, NEW p \in Passwords, LoginFind(r, e, p)
      PROVE  Typed'
  <2>1. Shaped'
    BY <1>0, <1>1, LoginFindEffect, TypedReq
  <2> QED
    BY <1>0, <1>1, <2>1, LoginFindEffect DEF LoginFind, TypeOK, Typed
<1>2. ASSUME NEW r \in Reqs, NEW e \in Emails, NEW p \in Passwords, NEW u \in Users,
             Register(r, u, e, p)
      PROVE  Typed'
  <2>1. Shaped'
    BY <1>0, <1>2, RegisterEffect, TypedReq
  <2>2. AddAccount(u, e, p)
    BY <1>2 DEF Register
  <2> QED
    BY <1>0, <1>2, <2>1, <2>2, RegisterEffect, AddAccountEffect DEF Register, TypeOK, Typed
<1>3. ASSUME NEW r \in Reqs, NEW s \in Sids, NEW p \in Passwords, NEW step \in CheckSteps,
             NEW new \in Emails \cup Passwords, CanActivate(r, s, step, p, new),
             step = "checkEmail" => new \in Emails,
             step = "checkPassword" => new \in Passwords
      PROVE  Typed'
  <2>1. Shaped'
    BY <1>0, <1>3, CanActivateEffect, TypedReq DEF CheckSteps
  <2> QED
    BY <1>0, <1>3, <2>1, CanActivateEffect DEF CanActivate, TypeOK, Typed
<1>4. ASSUME NEW r \in Reqs, RecordFailedLogin(r)
      PROVE  Typed'
  <2>1. Shaped' /\ lockedSince' \subseteq Reqs /\ changedSince' \subseteq Reqs
    BY <1>0, <1>4, RecordFailedLoginEffect, LeftTyped, TypedReq DEF Went, TypeOK
  <2> QED
    BY <1>0, <1>4, <2>1, RecordFailedLoginEffect DEF RecordFailedLogin, Wrote, TypeOK, Typed
<1>5. ASSUME NEW r \in Reqs, Lock(r)
      PROVE  Typed'
  <2>1. Shaped'
    BY <1>0, <1>5, LockEffect, TypedReq
  <2> QED
    BY <1>0, <1>5, <2>1, LockEffect DEF Lock, Wrote, TypeOK, Typed
<1>6. ASSUME NEW r \in Reqs, ClearFailedLogins(r)
      PROVE  Typed'
  <2>1. Shaped'
    BY <1>0, <1>6, ClearFailedLoginsEffect, TypedReq DEF Went
  <2> QED
    BY <1>0, <1>6, <2>1, ClearFailedLoginsEffect DEF ClearFailedLogins, Wrote, TypeOK, Typed
<1>7. ASSUME NEW r \in Reqs, Rehash(r)
      PROVE  Typed'
  <2>1. Shaped'
    BY <1>0, <1>7, RehashEffect, TypedReq DEF Went
  <2> QED
    BY <1>0, <1>7, <2>1, RehashEffect DEF Rehash, Wrote, TypeOK, Typed
<1>8. ASSUME NEW r \in Reqs, NEW s \in Sids, StartSession(r, s)
      PROVE  Typed'
  BY <1>0, <1>8, StartSessionEffect, LeftTyped DEF StartSession, TypeOK, Typed
<1>9. ASSUME NEW r \in Reqs, VerifyCurrentPassword(r)
      PROVE  Typed'
  <2>1. Shaped' /\ lockedSince' \subseteq Reqs /\ changedSince' \subseteq Reqs
    BY <1>0, <1>9, VerifyCurrentPasswordEffect, LeftTyped, TypedReq DEF Went, Shaped, TypeOK
  <2> QED
    BY <1>0, <1>9, <2>1, VerifyCurrentPasswordEffect DEF VerifyCurrentPassword, TypeOK, Typed
<1>10. ASSUME NEW r \in Reqs, UpdateEmail(r)
       PROVE  Typed'
  BY <1>0, <1>10, UpdateEmailEffect, LeftTyped DEF UpdateEmail, Wrote, TypeOK, Typed
<1>11. ASSUME NEW r \in Reqs, UpdatePasswordHash(r)
       PROVE  Typed'
  <2>1. Shaped'
    BY <1>0, <1>11, UpdatePasswordHashEffect, TypedReq DEF Went
  <2> QED
    BY <1>0, <1>11, <2>1, UpdatePasswordHashEffect DEF UpdatePasswordHash, Wrote, TypeOK, Typed
<1>12. ASSUME NEW r \in Reqs, RevokeOthers(r)
       PROVE  Typed'
  BY <1>0, <1>12, RevokeOthersEffect, LeftTyped DEF RevokeOthers, Ended, TypeOK, Typed
<1>13. ASSUME NEW r \in Reqs, DeleteAccount(r)
       PROVE  Typed'
  BY <1>0, <1>13, DeleteAccountEffect, LeftTyped DEF DeleteAccount, Ended, TypeOK, Typed
<1>14. ASSUME NEW r \in Reqs, Fail(r)
       PROVE  Typed'
  <2>1. cut' \subseteq Sids
    BY <1>0, <1>14 DEF Fail, TypeOK, OfUser
  <2>2. UNCHANGED <<now, accounts, sessions, born>>
    BY <1>14 DEF Fail
  <2> QED
    BY <1>0, <1>14, <2>1, <2>2, FailEffect, LeftTyped DEF TypeOK, Typed
<1>15. CASE Tick \/ UNCHANGED vars
  BY <1>0, <1>15 DEF Tick, vars, TypeOK, Typed, Shaped, At
<1> QED
  BY <1>1, <1>2, <1>3, <1>4, <1>5, <1>6, <1>7, <1>8, <1>9, <1>10, <1>11, <1>12,
     <1>13, <1>14, <1>15 DEF Next, CheckSteps

\* Every state of every behaviour is well typed.
THEOREM TypeCorrect == Spec => []TypeOK
<1>1. Typed => TypeOK
  BY DEF Typed
<1> QED
  BY <1>1, TypedInit, TypedNext, PTL DEF Spec

-----------------------------------------------------------------------------
(* What is about what *)

\* Whatever speaks of an account speaks of one that there was, and a handler of
\* the profile about the account of its session.
Linked ==
    /\ DOMAIN accounts \subseteq born
    /\ \A s \in DOMAIN sessions : sessions[s].user \in born
    /\ \A r \in Reqs : req[r] # Idle => req[r].user \in born
    /\ \A r \in Reqs : req[r] \in Managing =>
          /\ req[r].sid \in DOMAIN sessions
          /\ sessions[req[r].sid].user = req[r].user

\* Initially: the links of requests to rows.
LEMMA LinkedInit == Init => Linked
BY DEF Init, Linked, Idle, Managing

\* Request r moves, and is about what it was about.
Moved(r) ==
    \/ Left(r)
    \/ req'[r] = Idle /\ \A q \in Reqs \ {r} : req'[q] = req[q]
    \/ req[r] # Idle /\ \E step : Went(r, step)

\* Of the sessions there are none ends up with another account.
SameUsers ==
    /\ DOMAIN sessions \subseteq DOMAIN sessions'
    /\ \A s \in DOMAIN sessions : sessions'[s].user = sessions[s].user
    /\ \A s \in DOMAIN sessions' \ DOMAIN sessions : sessions'[s].user \in born

\* A step that leaves the requests to what they are about.
LEMMA LinkedStep ==
    ASSUME Typed, Linked, NEW r \in Reqs, Moved(r), SameUsers,
           DOMAIN accounts' \subseteq DOMAIN accounts, born' = born
    PROVE  Linked'
<1>1. \A q \in Reqs : req'[q] # Idle =>
         /\ req[q] # Idle
         /\ req'[q].user = req[q].user
         /\ req'[q] \in Managing => req[q] \in Managing /\ req'[q].sid = req[q].sid
  BY DEF Moved, Left, Went
<1>2. \A q \in Reqs : req'[q] \in Managing => req'[q] # Idle
  BY DEF Managing, Idle
<1> QED
  BY <1>1, <1>2 DEF Linked, SameUsers

\* Every step keeps the links of requests to rows.
LEMMA LinkedNext == Typed /\ Linked /\ [Next]_vars => Linked'
<1> SUFFICES ASSUME Typed, Linked, [Next]_vars PROVE Linked'
  OBVIOUS
<1>0. TypeOK /\ Shaped /\ \A x : ~ (x \in Entering /\ x \in Managing)
  BY DEF Typed, Entering, Managing
<1>a. \A q \in Reqs : /\ req[q] \in Entering => req[q] # Idle
                      /\ req[q] \in Managing => req[q] # Idle
  BY DEF Entering, Managing, Idle
<1>1. ASSUME NEW r \in Reqs, NEW e \in Emails, NEW p \in Passwords, LoginFind(r, e, p)
      PROVE  Linked'
  <2>1. UNCHANGED <<accounts, sessions, born>>
    BY <1>1 DEF LoginFind
  <2>2. PICK u \in DOMAIN accounts :
           /\ req'[r] \in Entering /\ req'[r].user = u
           /\ \A q \in Reqs \ {r} : req'[q] = req[q]
    BY <1>0, <1>1, LoginFindEffect
  <2> QED
    BY <1>0, <2>1, <2>2 DEF Linked
<1>2. ASSUME NEW r \in Reqs, NEW e \in Emails, NEW p \in Passwords, NEW u \in Users,
             Register(r, u, e, p)
      PROVE  Linked'
  <2>1. AddAccount(u, e, p) /\ UNCHANGED sessions
    BY <1>2 DEF Register
  <2>2. /\ req'[r] \in Entering /\ req'[r].user = u
        /\ \A q \in Reqs \ {r} : req'[q] = req[q]
    BY <1>0, <1>2, RegisterEffect
  <2>3. DOMAIN accounts' = DOMAIN accounts \cup {u} /\ born' = born \cup {u}
    BY <1>0, <2>1, AddAccountEffect
  <2> QED
    BY <1>0, <2>1, <2>2, <2>3 DEF Linked
<1>3. ASSUME NEW r \in Reqs, NEW s \in Sids, NEW p \in Passwords, NEW step \in CheckSteps,
             NEW new \in Emails \cup Passwords, CanActivate(r, s, step, p, new)
      PROVE  Linked'
  BY <1>0, <1>3, CanActivateEffect DEF CanActivate, Linked
<1>4. ASSUME NEW r \in Reqs, RecordFailedLogin(r)
      PROVE  Linked'
  <2>1. Moved(r)
    BY <1>0, <1>a, <1>4, RecordFailedLoginEffect DEF Moved
  <2>2. SameUsers
    BY <1>4 DEF RecordFailedLogin, SameUsers
  <2>3. DOMAIN accounts' \subseteq DOMAIN accounts /\ UNCHANGED born
    BY <1>0, <1>4, RecordFailedLoginEffect DEF RecordFailedLogin, Wrote
  <2> QED
    BY <2>1, <2>2, <2>3, LinkedStep
<1>5. ASSUME NEW r \in Reqs, Lock(r)
      PROVE  Linked'
  <2>1. Moved(r)
    BY <1>0, <1>a, <1>5, LockEffect DEF Moved
  <2>2. SameUsers
    BY <1>5 DEF Lock, SameUsers
  <2>3. DOMAIN accounts' \subseteq DOMAIN accounts /\ UNCHANGED born
    BY <1>0, <1>5, LockEffect DEF Lock, Wrote
  <2> QED
    BY <2>1, <2>2, <2>3, LinkedStep
<1>6. ASSUME NEW r \in Reqs, ClearFailedLogins(r)
      PROVE  Linked'
  <2>1. Moved(r)
    BY <1>0, <1>a, <1>6, ClearFailedLoginsEffect DEF Moved
  <2>2. SameUsers
    BY <1>6 DEF ClearFailedLogins, SameUsers
  <2>3. DOMAIN accounts' \subseteq DOMAIN accounts /\ UNCHANGED born
    BY <1>0, <1>6, ClearFailedLoginsEffect DEF ClearFailedLogins, Wrote
  <2> QED
    BY <2>1, <2>2, <2>3, LinkedStep
<1>7. ASSUME NEW r \in Reqs, Rehash(r)
      PROVE  Linked'
  <2>1. Moved(r)
    BY <1>0, <1>a, <1>7, RehashEffect DEF Moved
  <2>2. SameUsers
    BY <1>7 DEF Rehash, SameUsers
  <2>3. DOMAIN accounts' \subseteq DOMAIN accounts /\ UNCHANGED born
    BY <1>0, <1>7, RehashEffect DEF Rehash, Wrote
  <2> QED
    BY <2>1, <2>2, <2>3, LinkedStep
<1>8. ASSUME NEW r \in Reqs, NEW s \in Sids, StartSession(r, s)
      PROVE  Linked'
  <2>1. Moved(r)
    BY <1>0, <1>a, <1>8, StartSessionEffect DEF Moved
  <2>0. req[r].user \in born
    BY <1>0, <1>a, <1>8, StartSessionEffect DEF Linked
  <2>2. /\ DOMAIN sessions' = DOMAIN sessions \cup {s}
        /\ \A t \in DOMAIN sessions : sessions'[t] = sessions[t]
        /\ sessions'[s].user = req[r].user
    BY <1>0, <1>8, StartSessionEffect
  <2>4. SameUsers
    BY <2>0, <2>2 DEF SameUsers
  <2>3. DOMAIN accounts' \subseteq DOMAIN accounts /\ UNCHANGED born
    BY <1>8 DEF StartSession
  <2> QED
    BY <2>1, <2>3, <2>4, LinkedStep
<1>9. ASSUME NEW r \in Reqs, VerifyCurrentPassword(r)
      PROVE  Linked'
  <2>1. Moved(r)
    BY <1>0, <1>a, <1>9, VerifyCurrentPasswordEffect DEF Moved
  <2>2. SameUsers
    BY <1>9 DEF VerifyCurrentPassword, SameUsers
  <2>3. DOMAIN accounts' \subseteq DOMAIN accounts /\ UNCHANGED born
    BY <1>9 DEF VerifyCurrentPassword
  <2> QED
    BY <2>1, <2>2, <2>3, LinkedStep
<1>10. ASSUME NEW r \in Reqs, UpdateEmail(r)
       PROVE  Linked'
  <2>1. Moved(r)
    BY <1>0, <1>a, <1>10, UpdateEmailEffect DEF Moved
  <2>2. SameUsers
    BY <1>10 DEF UpdateEmail, SameUsers
  <2>3. DOMAIN accounts' \subseteq DOMAIN accounts /\ UNCHANGED born
    BY <1>0, <1>10, UpdateEmailEffect DEF UpdateEmail, Wrote
  <2> QED
    BY <2>1, <2>2, <2>3, LinkedStep
<1>11. ASSUME NEW r \in Reqs, UpdatePasswordHash(r)
       PROVE  Linked'
  <2>1. Moved(r)
    BY <1>0, <1>a, <1>11, UpdatePasswordHashEffect DEF Moved
  <2>2. SameUsers
    BY <1>0, <1>11, UpdatePasswordHashEffect DEF SameUsers
  <2>3. DOMAIN accounts' \subseteq DOMAIN accounts /\ UNCHANGED born
    BY <1>0, <1>11, UpdatePasswordHashEffect DEF UpdatePasswordHash, Wrote
  <2> QED
    BY <2>1, <2>2, <2>3, LinkedStep
<1>12. ASSUME NEW r \in Reqs, RevokeOthers(r)
       PROVE  Linked'
  <2>1. Moved(r)
    BY <1>0, <1>a, <1>12, RevokeOthersEffect DEF Moved
  <2>2. SameUsers
    BY <1>0, <1>12, RevokeOthersEffect DEF SameUsers, Ended
  <2>3. DOMAIN accounts' \subseteq DOMAIN accounts /\ UNCHANGED born
    BY <1>12 DEF RevokeOthers
  <2> QED
    BY <2>1, <2>2, <2>3, LinkedStep
<1>13. ASSUME NEW r \in Reqs, DeleteAccount(r)
       PROVE  Linked'
  <2>1. Moved(r)
    BY <1>0, <1>a, <1>13, DeleteAccountEffect DEF Moved
  <2>2. SameUsers
    BY <1>0, <1>13, DeleteAccountEffect DEF SameUsers, Ended
  <2>3. DOMAIN accounts' \subseteq DOMAIN accounts /\ UNCHANGED born
    BY <1>0, <1>13 DEF DeleteAccount
  <2> QED
    BY <2>1, <2>2, <2>3, LinkedStep
<1>14. ASSUME NEW r \in Reqs, Fail(r)
       PROVE  Linked'
  <2>1. UNCHANGED <<accounts, sessions, born>>
    BY <1>14 DEF Fail
  <2> QED
    BY <1>0, <1>14, <2>1, FailEffect, LinkedStep DEF Moved, SameUsers
<1>15. CASE Tick
  BY <1>15 DEF Tick, Linked
<1>16. CASE UNCHANGED vars
  BY <1>16 DEF vars, Linked
<1> QED
  BY <1>1, <1>2, <1>3, <1>4, <1>5, <1>6, <1>7, <1>8, <1>9, <1>10, <1>11, <1>12,
     <1>13, <1>14, <1>15, <1>16 DEF Next, CheckSteps

-----------------------------------------------------------------------------
(* The lock *)

\* A step that locks no account and lets no request in.
LEMMA NoNewLock ==
    ASSUME Typed, LockAdmitsNoAttempt, NEW r \in Reqs,
           Left(r) \/ (UNCHANGED lockedSince /\ \E step : Went(r, step)),
           now' = now,
           DOMAIN accounts' \subseteq DOMAIN accounts,
           \A v \in DOMAIN accounts' :
              \/ accounts'[v].lockedUntil = accounts[v].lockedUntil
              \/ accounts'[v].lockedUntil = Never
    PROVE  LockAdmitsNoAttempt'
<1>1. \A q \in Reqs, v \in DOMAIN accounts' : Enters(q, v)' =>
         Enters(q, v) /\ (q \in lockedSince => q \in lockedSince')
  BY DEF Enters, Concerns, Left, Went, Idle, Entering
<1>2. \A v \in DOMAIN accounts' : Locked(v)' => Locked(v)
  BY DEF Locked, Never, Typed, TypeOK
<1> QED
  BY <1>1, <1>2 DEF LockAdmitsNoAttempt

\* Initially: the lock.
LEMMA LockAdmitsInit == Init => LockAdmitsNoAttempt
BY DEF Init, LockAdmitsNoAttempt, Enters, Concerns

\* Every step keeps the lock.
LEMMA LockAdmitsNext ==
    Typed /\ Linked /\ LockAdmitsNoAttempt /\ [Next]_vars => LockAdmitsNoAttempt'
<1> SUFFICES ASSUME Typed, Linked, LockAdmitsNoAttempt, [Next]_vars
             PROVE  LockAdmitsNoAttempt'
  OBVIOUS
<1>0. TypeOK /\ Shaped /\ \A x : x \in Entering => x \notin Managing
  BY DEF Typed, Entering, Managing
<1>1. ASSUME NEW r \in Reqs, NEW e \in Emails, NEW p \in Passwords, LoginFind(r, e, p)
      PROVE  LockAdmitsNoAttempt'
  <2>1. UNCHANGED <<now, accounts, lockedSince>>
    BY <1>1 DEF LoginFind
  <2>2. PICK u \in DOMAIN accounts :
           /\ ~ Locked(u) /\ req'[r].user = u
           /\ \A q \in Reqs \ {r} : req'[q] = req[q]
    BY <1>0, <1>1, LoginFindEffect
  <2> QED
    BY <2>1, <2>2 DEF LockAdmitsNoAttempt, Enters, Concerns, Locked
<1>2. ASSUME NEW r \in Reqs, NEW e \in Emails, NEW p \in Passwords, NEW u \in Users,
             Register(r, u, e, p)
      PROVE  LockAdmitsNoAttempt'
  <2>1. AddAccount(u, e, p) /\ UNCHANGED <<now, lockedSince>>
    BY <1>2 DEF Register
  <2>2. /\ req'[r].user = u
        /\ \A q \in Reqs \ {r} : req'[q] = req[q]
    BY <1>0, <1>2, RegisterEffect
  <2>3. /\ accounts'[u].lockedUntil = Never
        /\ DOMAIN accounts' = DOMAIN accounts \cup {u}
        /\ \A v \in DOMAIN accounts \ {u} : accounts'[v] = accounts[v]
    BY <1>0, <2>1, AddAccountEffect
  <2>4. ~ Locked(u)' /\ \A v \in DOMAIN accounts \ {u} : Locked(v)' <=> Locked(v)
    BY <1>0, <2>1, <2>3 DEF Locked, Never, TypeOK
  <2> QED
    BY <2>1, <2>2, <2>3, <2>4 DEF LockAdmitsNoAttempt, Enters, Concerns
<1>3. ASSUME NEW r \in Reqs, NEW s \in Sids, NEW p \in Passwords, NEW step \in CheckSteps,
             NEW new \in Emails \cup Passwords, CanActivate(r, s, step, p, new)
      PROVE  LockAdmitsNoAttempt'
  <2>1. UNCHANGED <<now, accounts, lockedSince>>
    BY <1>3 DEF CanActivate
  <2>2. req'[r] \notin Entering /\ \A q \in Reqs \ {r} : req'[q] = req[q]
    BY <1>0, <1>3, CanActivateEffect
  <2> QED
    BY <2>1, <2>2 DEF LockAdmitsNoAttempt, Enters, Concerns, Locked
<1>4. ASSUME NEW r \in Reqs, RecordFailedLogin(r)
      PROVE  LockAdmitsNoAttempt'
  BY <1>0, <1>4, RecordFailedLoginEffect, NoNewLock DEF RecordFailedLogin, Wrote, SameLock
<1>5. ASSUME NEW r \in Reqs, Lock(r)
      PROVE  LockAdmitsNoAttempt'
  <2> DEFINE u == req[r].user
  <2>1. /\ now' = now
        /\ lockedSince' = (lockedSince \cup {q \in Reqs : Enters(q, u)}) \ {r}
    BY <1>5 DEF Lock
  <2>2. /\ req'[r] = Idle
        /\ \A q \in Reqs \ {r} : req'[q] = req[q]
        /\ DOMAIN accounts' = DOMAIN accounts
        /\ \A v \in DOMAIN accounts \ {u} : accounts'[v] = accounts[v]
    BY <1>0, <1>5, LockEffect DEF Wrote
  <2> QED
    BY <2>1, <2>2 DEF LockAdmitsNoAttempt, Enters, Concerns, Locked
<1>6. ASSUME NEW r \in Reqs, ClearFailedLogins(r)
      PROVE  LockAdmitsNoAttempt'
  BY <1>0, <1>6, ClearFailedLoginsEffect, NoNewLock DEF ClearFailedLogins, Wrote, SameLock
<1>7. ASSUME NEW r \in Reqs, Rehash(r)
      PROVE  LockAdmitsNoAttempt'
  BY <1>0, <1>7, RehashEffect, NoNewLock DEF Rehash, Wrote, SameLock
<1>8. ASSUME NEW r \in Reqs, NEW s \in Sids, StartSession(r, s)
      PROVE  LockAdmitsNoAttempt'
  BY <1>0, <1>8, StartSessionEffect, NoNewLock DEF StartSession, Wrote, SameLock
<1>9. ASSUME NEW r \in Reqs, VerifyCurrentPassword(r)
      PROVE  LockAdmitsNoAttempt'
  <2>1. UNCHANGED <<now, accounts>>
    BY <1>9 DEF VerifyCurrentPassword
  <2> QED
    BY <1>0, <1>9, <2>1, VerifyCurrentPasswordEffect, NoNewLock
<1>10. ASSUME NEW r \in Reqs, UpdateEmail(r)
       PROVE  LockAdmitsNoAttempt'
  BY <1>0, <1>10, UpdateEmailEffect, NoNewLock DEF UpdateEmail, Wrote, SameLock
<1>11. ASSUME NEW r \in Reqs, UpdatePasswordHash(r)
       PROVE  LockAdmitsNoAttempt'
  BY <1>0, <1>11, UpdatePasswordHashEffect, NoNewLock DEF UpdatePasswordHash, Wrote, SameLock
<1>12. ASSUME NEW r \in Reqs, RevokeOthers(r)
       PROVE  LockAdmitsNoAttempt'
  BY <1>0, <1>12, RevokeOthersEffect, NoNewLock DEF RevokeOthers, Wrote, SameLock
<1>13. ASSUME NEW r \in Reqs, DeleteAccount(r)
       PROVE  LockAdmitsNoAttempt'
  BY <1>0, <1>13, DeleteAccountEffect, NoNewLock DEF DeleteAccount, Wrote, SameLock
<1>14. ASSUME NEW r \in Reqs, Fail(r)
       PROVE  LockAdmitsNoAttempt'
  <2>1. UNCHANGED <<now, accounts>>
    BY <1>14 DEF Fail
  <2> QED
    BY <1>0, <1>14, <2>1, FailEffect, NoNewLock
<1>15. CASE Tick
  <2>1. now' = now + 1 /\ UNCHANGED <<accounts, req, lockedSince>>
    BY <1>15 DEF Tick
  <2>2. \A u \in DOMAIN accounts : Locked(u)' => Locked(u)
    BY <1>0, <2>1 DEF Locked, TypeOK, Account, Never
  <2> QED
    BY <2>1, <2>2 DEF LockAdmitsNoAttempt, Enters, Concerns
<1>16. CASE UNCHANGED vars
  BY <1>16 DEF vars, LockAdmitsNoAttempt, Enters, Concerns, Locked
<1> QED
  BY <1>1, <1>2, <1>3, <1>4, <1>5, <1>6, <1>7, <1>8, <1>9, <1>10, <1>11, <1>12,
     <1>13, <1>14, <1>15, <1>16 DEF Next, CheckSteps

CredInv == Typed /\ Linked /\ LockAdmitsNoAttempt

\* The inductive invariant without an assumption on the hashes.
LEMMA CredInvHolds == Spec => []CredInv
<1>1. Init => CredInv
  BY TypedInit, LinkedInit, LockAdmitsInit DEF CredInv
<1>2. CredInv /\ [Next]_vars => CredInv'
  BY TypedNext, LinkedNext, LockAdmitsNext DEF CredInv
<1> QED
  BY <1>1, <1>2, PTL DEF Spec

\* While an account is locked, the only logins under way are those that had
\* read it before it was locked.
THEOREM LockAdmits == Spec => []LockAdmitsNoAttempt
<1>1. CredInv => LockAdmitsNoAttempt
  BY DEF CredInv
<1> QED
  BY <1>1, CredInvHolds, PTL

-----------------------------------------------------------------------------
(* The count of failures *)

\* Only so many requests are about to lock an account.
FewLocking == \A u \in Users : IsFiniteSet(Locking(u))

CountInv == FewLocking /\ FailuresLeadToALock

\* Initially: the count of failures.
LEMMA CountInit == Init => CountInv
<1> SUFFICES ASSUME Init PROVE CountInv
  OBVIOUS
<1>1. Typed
  BY TypedInit
<1>2. \A u \in Users : Locking(u) = {} /\ lost[u] = 0
  BY DEF Init, Locking, At
<1>3. \A u \in DOMAIN accounts : u \in Users /\ accounts[u].failed = 0
  BY <1>1 DEF Init, Typed, TypeOK
<1>4. IsFiniteSet({}) /\ Cardinality({}) = 0
  BY FS_EmptySet
<1>5. MaxFailed \in Nat \ {0}
  BY CredentialsAssumption
<1>6. ASSUME NEW u \in DOMAIN accounts
      PROVE  accounts[u].failed < MaxFailed + Cardinality(Locking(u)) + lost[u]
  <2>1. accounts[u].failed = 0 /\ lost[u] = 0 /\ Cardinality(Locking(u)) = 0
    BY <1>2, <1>3, <1>4
  <2> QED
    BY <1>5, <2>1
<1> QED
  BY <1>2, <1>4, <1>6 DEF CountInv, FewLocking, FailuresLeadToALock

\* A step of r that is not about the lock.
LEMMA NoCount ==
    ASSUME Typed, CountInv, NEW r \in Reqs,
           \A q \in Reqs \ {r} : req'[q] = req[q],
           ~ At(r, "lock"), ~ At(r, "lock")',
           DOMAIN accounts' \subseteq Users,
           \A v \in DOMAIN accounts' :
              \/ v \in DOMAIN accounts /\ accounts'[v].failed = accounts[v].failed
              \/ accounts'[v].failed = 0,
           \A v \in Users : lost'[v] = lost[v]
    PROVE  CountInv'
<1>1. \A u \in Users : Locking(u)' = Locking(u)
  BY DEF Locking, At
<1>2. \A u \in Users : Cardinality(Locking(u)) \in Nat
  BY FS_CardinalityType DEF CountInv, FewLocking
<1>3. \A v \in Users : lost[v] \in Nat
  BY DEF Typed, TypeOK
<1>4. MaxFailed \in Nat \ {0}
  BY CredentialsAssumption
<1>5. FewLocking'
  BY <1>1 DEF CountInv, FewLocking
<1>6. \A u \in Users : Cardinality(Locking(u))' = Cardinality(Locking(u))
  BY <1>1
<1>7. FailuresLeadToALock'
  BY <1>2, <1>3, <1>4, <1>6 DEF CountInv, FailuresLeadToALock
<1> QED
  BY <1>5, <1>7 DEF CountInv

\* A step with which r is done with the lock of its account, which has no
\* failures now or one lost request more.
LEMMA LockDone ==
    ASSUME Typed, CountInv, NEW r \in Reqs, NEW u \in Users, req[r].user = u,
           \A q \in Reqs \ {r} : req'[q] = req[q],
           At(r, "lock"), ~ At(r, "lock")',
           DOMAIN accounts' \subseteq DOMAIN accounts,
           \A v \in DOMAIN accounts' :
              IF v = u
                THEN \/ accounts'[v].failed = 0 /\ lost'[v] = 0
                     \/ accounts'[v].failed = accounts[v].failed /\ lost'[v] = lost[v] + 1
                ELSE accounts'[v].failed = accounts[v].failed /\ lost'[v] = lost[v]
    PROVE  CountInv'
<1>1. \A v \in Users : Locking(v)' = IF v = u THEN Locking(v) \ {r} ELSE Locking(v)
  BY DEF Locking, At
<1>2. r \in Locking(u)
  BY DEF Locking
<1>3. \A v \in Users : IsFiniteSet(Locking(v)) /\ Cardinality(Locking(v)) \in Nat
  BY FS_CardinalityType DEF CountInv, FewLocking
<1>4. /\ IsFiniteSet(Locking(u) \ {r})
      /\ Cardinality(Locking(u) \ {r}) = Cardinality(Locking(u)) - 1
  BY <1>2, <1>3, FS_RemoveElement
<1>5. FewLocking'
  BY <1>1, <1>3, <1>4 DEF FewLocking
<1>6. /\ Cardinality(Locking(u))' = Cardinality(Locking(u)) - 1
      /\ Cardinality(Locking(u))' \in Nat
      /\ \A v \in Users \ {u} : Cardinality(Locking(v))' = Cardinality(Locking(v))
  BY <1>1, <1>4, <1>5, FS_CardinalityType DEF FewLocking
<1>7. /\ \A v \in Users : lost[v] \in Nat
      /\ \A v \in DOMAIN accounts : v \in Users /\ accounts[v].failed \in Nat
  BY DEF Typed, TypeOK, Account
<1>8. MaxFailed \in Nat \ {0}
  BY CredentialsAssumption
<1>9. ASSUME NEW v \in DOMAIN accounts'
      PROVE  accounts'[v].failed < MaxFailed + Cardinality(Locking(v))' + lost'[v]
  <2>1. accounts[v].failed < MaxFailed + Cardinality(Locking(v)) + lost[v] /\ v \in Users
    BY <1>7, <1>9 DEF CountInv, FailuresLeadToALock
  <2>2. CASE v = u
    BY <1>3, <1>6, <1>7, <1>8, <1>9, <2>1, <2>2
  <2>3. CASE v # u
    BY <1>3, <1>6, <1>7, <1>8, <1>9, <2>1, <2>3
  <2> QED
    BY <2>2, <2>3
<1> QED
  BY <1>5, <1>9 DEF CountInv, FailuresLeadToALock

\* Every step keeps the count of failures.
LEMMA CountNext == Typed /\ CountInv /\ [Next]_vars => CountInv'
<1> SUFFICES ASSUME Typed, CountInv, [Next]_vars PROVE CountInv'
  OBVIOUS
<1>0. TypeOK /\ Shaped /\ Typed'
  BY TypedNext DEF Typed
<1>a. DOMAIN accounts \subseteq Users /\ DOMAIN accounts' \subseteq Users
  BY <1>0 DEF Typed, TypeOK
<1>1. ASSUME NEW r \in Reqs, NEW e \in Emails, NEW p \in Passwords, LoginFind(r, e, p)
      PROVE  CountInv'
  <2>1. UNCHANGED <<accounts, lost>> /\ ~ At(r, "lock")
    BY <1>1 DEF LoginFind, At
  <2>2. PICK u \in DOMAIN accounts :
           /\ req'[r].pc = AfterVerify(accounts[u], p)
           /\ \A q \in Reqs \ {r} : req'[q] = req[q]
    BY <1>0, <1>1, LoginFindEffect
  <2>3. ~ At(r, "lock")'
    BY <2>2 DEF At, AfterVerify
  <2> QED
    BY <1>a, <2>1, <2>2, <2>3, NoCount
<1>2. ASSUME NEW r \in Reqs, NEW e \in Emails, NEW p \in Passwords, NEW u \in Users,
             Register(r, u, e, p)
      PROVE  CountInv'
  <2>1. AddAccount(u, e, p) /\ UNCHANGED lost
    BY <1>2 DEF Register
  <2>2. /\ DOMAIN accounts' = DOMAIN accounts \cup {u}
        /\ accounts'[u].failed = 0
        /\ \A v \in DOMAIN accounts \ {u} : accounts'[v] = accounts[v]
    BY <1>0, <2>1, AddAccountEffect
  <2>3. /\ ~ At(r, "lock") /\ ~ At(r, "lock")'
        /\ \A q \in Reqs \ {r} : req'[q] = req[q]
    BY <1>0, <1>2, RegisterEffect DEF At
  <2> QED
    BY <1>a, <2>1, <2>2, <2>3, NoCount
<1>3. ASSUME NEW r \in Reqs, NEW s \in Sids, NEW p \in Passwords, NEW step \in CheckSteps,
             NEW new \in Emails \cup Passwords, CanActivate(r, s, step, p, new)
      PROVE  CountInv'
  <2>1. UNCHANGED <<accounts, lost>>
    BY <1>3 DEF CanActivate
  <2>2. /\ ~ At(r, "lock") /\ ~ At(r, "lock")'
        /\ \A q \in Reqs \ {r} : req'[q] = req[q]
    BY <1>0, <1>3, CanActivateEffect DEF At, CheckSteps
  <2> QED
    BY <1>a, <2>1, <2>2, NoCount
<1>4. ASSUME NEW r \in Reqs, RecordFailedLogin(r)
      PROVE  CountInv'
  <2>0. PICK u : u = req[r].user
    OBVIOUS
  <2>1. UNCHANGED lost /\ ~ At(r, "lock")
    BY <1>4 DEF RecordFailedLogin, At
  <2>2. /\ u \in DOMAIN accounts /\ u \in Users
        /\ DOMAIN accounts' = DOMAIN accounts
        /\ accounts'[u].failed = accounts[u].failed + 1
        /\ \A v \in DOMAIN accounts \ {u} : accounts'[v] = accounts[v]
        /\ \A q \in Reqs \ {r} : req'[q] = req[q]
        /\ IF accounts'[u].failed >= MaxFailed
             THEN req'[r].pc = "lock" /\ req'[r].user = u
             ELSE req'[r] = Idle
    BY <1>0, <1>a, <1>4, <2>0, RecordFailedLoginEffect DEF Wrote, Went, Left
  <2>3. \A v \in Users : IsFiniteSet(Locking(v)) /\ Cardinality(Locking(v)) \in Nat
    BY FS_CardinalityType DEF CountInv, FewLocking
  <2>4. /\ \A v \in Users : lost[v] \in Nat
        /\ \A v \in DOMAIN accounts : v \in Users /\ accounts[v].failed \in Nat
        /\ MaxFailed \in Nat \ {0}
    BY <1>0, CredentialsAssumption DEF TypeOK, Account
  <2>5. CASE accounts'[u].failed >= MaxFailed
    <3>1. req'[r].pc = "lock" /\ req'[r].user = u
      BY <2>2, <2>5
    <3>2. At(r, "lock")'
      BY <3>1 DEF At, Idle
    <3>3. \A v \in Users : Locking(v)' = IF v = u THEN Locking(v) \cup {r} ELSE Locking(v)
      BY <2>0, <2>1, <2>2, <3>1, <3>2 DEF Locking, At
    <3>4. r \notin Locking(u)
      BY <2>1 DEF Locking
    <3>5. /\ IsFiniteSet(Locking(u) \cup {r})
          /\ Cardinality(Locking(u) \cup {r}) = Cardinality(Locking(u)) + 1
      BY <2>2, <2>3, <3>4, FS_AddElement
    <3>6. FewLocking'
      BY <2>3, <3>3, <3>5 DEF FewLocking
    <3>7. /\ Cardinality(Locking(u))' = Cardinality(Locking(u)) + 1
          /\ \A v \in Users \ {u} : Cardinality(Locking(v))' = Cardinality(Locking(v))
      BY <2>2, <3>3, <3>5
    <3>8. ASSUME NEW v \in DOMAIN accounts'
          PROVE  accounts'[v].failed < MaxFailed + Cardinality(Locking(v))' + lost'[v]
      <4>1. /\ accounts[v].failed < MaxFailed + Cardinality(Locking(v)) + lost[v]
            /\ v \in Users /\ lost'[v] = lost[v]
        BY <2>1, <2>2, <2>4, <3>8 DEF CountInv, FailuresLeadToALock
      <4>2. CASE v = u
        BY <2>2, <2>3, <2>4, <3>7, <4>1, <4>2
      <4>3. CASE v # u
        BY <2>2, <3>7, <3>8, <4>1, <4>3
      <4> QED
        BY <4>2, <4>3
    <3> QED
      BY <3>6, <3>8 DEF CountInv, FailuresLeadToALock
  <2>6. CASE ~ (accounts'[u].failed >= MaxFailed)
    <3>1. ~ At(r, "lock")'
      BY <2>2, <2>6 DEF At
    <3>2. \A v \in Users : Locking(v)' = Locking(v)
      BY <2>1, <2>2, <3>1 DEF Locking, At
    <3>3. FewLocking'
      BY <2>3, <3>2 DEF FewLocking
    <3>4. \A v \in Users : Cardinality(Locking(v))' = Cardinality(Locking(v))
      BY <3>2
    <3>5. ASSUME NEW v \in DOMAIN accounts'
          PROVE  accounts'[v].failed < MaxFailed + Cardinality(Locking(v))' + lost'[v]
      <4>1. /\ accounts[v].failed < MaxFailed + Cardinality(Locking(v)) + lost[v]
            /\ v \in Users /\ lost'[v] = lost[v]
        BY <2>1, <2>2, <2>4, <3>5 DEF CountInv, FailuresLeadToALock
      <4>2. CASE v = u
        BY <2>2, <2>3, <2>4, <2>6, <3>4, <4>1, <4>2
      <4>3. CASE v # u
        BY <2>2, <3>4, <3>5, <4>1, <4>3
      <4> QED
        BY <4>2, <4>3
    <3> QED
      BY <3>3, <3>5 DEF CountInv, FailuresLeadToALock
  <2> QED
    BY <2>5, <2>6
<1>5. ASSUME NEW r \in Reqs, Lock(r)
      PROVE  CountInv'
  <2>1. At(r, "lock")
    BY <1>5 DEF Lock
  <2>2. req[r] \in Entering /\ Wrote(req[r].user) /\ req'[r] = Idle
    BY <1>0, <1>5, LockEffect
  <2>3. ~ At(r, "lock")' /\ req[r].user \in Users
    BY <2>2 DEF At, Entering
  <2>4. /\ \A q \in Reqs \ {r} : req'[q] = req[q]
        /\ accounts'[req[r].user].failed = 0 /\ lost'[req[r].user] = 0
        /\ \A v \in Users \ {req[r].user} : lost'[v] = lost[v]
    BY <1>0, <1>5, LockEffect
  <2> QED
    BY <1>a, <2>1, <2>2, <2>3, <2>4, LockDone DEF Wrote
<1>6. ASSUME NEW r \in Reqs, ClearFailedLogins(r)
      PROVE  CountInv'
  <2>0. PICK u : u = req[r].user
    OBVIOUS
  <2>1. /\ u \in DOMAIN accounts /\ u \in Users
        /\ DOMAIN accounts' = DOMAIN accounts
        /\ accounts'[u].failed = 0 /\ lost'[u] = 0
        /\ \A v \in DOMAIN accounts \ {u} : accounts'[v] = accounts[v]
        /\ \A v \in Users \ {u} : lost'[v] = lost[v]
        /\ \A q \in Reqs \ {r} : req'[q] = req[q]
        /\ req'[r].pc # "lock"
    BY <1>0, <1>a, <1>6, <2>0, ClearFailedLoginsEffect DEF Wrote, Went
  <2>2. ~ At(r, "lock") /\ ~ At(r, "lock")'
    BY <1>6, <2>1 DEF ClearFailedLogins, At
  <2>3. \A v \in Users : Locking(v)' = Locking(v)
    BY <2>1, <2>2 DEF Locking, At
  <2>4. \A v \in Users : IsFiniteSet(Locking(v)) /\ Cardinality(Locking(v)) \in Nat
    BY FS_CardinalityType DEF CountInv, FewLocking
  <2>5. FewLocking'
    BY <2>3, <2>4 DEF FewLocking
  <2>6. \A v \in Users : Cardinality(Locking(v))' = Cardinality(Locking(v))
    BY <2>3
  <2>7. MaxFailed \in Nat \ {0}
    BY CredentialsAssumption
  <2>8. ASSUME NEW v \in DOMAIN accounts'
        PROVE  accounts'[v].failed < MaxFailed + Cardinality(Locking(v))' + lost'[v]
    BY <1>a, <2>1, <2>4, <2>6, <2>7, <2>8 DEF CountInv, FailuresLeadToALock
  <2> QED
    BY <2>5, <2>8 DEF CountInv, FailuresLeadToALock
<1>7. ASSUME NEW r \in Reqs, Rehash(r)
      PROVE  CountInv'
  <2>1. UNCHANGED lost
    BY <1>7 DEF Rehash
  <2> QED
    BY <1>0, <1>a, <1>7, <2>1, RehashEffect, NoCount DEF Rehash, Wrote, SameLock, Left, Went, At, Idle
<1>8. ASSUME NEW r \in Reqs, NEW s \in Sids, StartSession(r, s)
      PROVE  CountInv'
  <2>1. UNCHANGED lost
    BY <1>8 DEF StartSession
  <2> QED
    BY <1>0, <1>a, <1>8, <2>1, StartSessionEffect, NoCount DEF StartSession, Wrote, SameLock, Left, Went, At, Idle
<1>9. ASSUME NEW r \in Reqs, VerifyCurrentPassword(r)
      PROVE  CountInv'
  <2>1. UNCHANGED <<accounts, lost>>
    BY <1>9 DEF VerifyCurrentPassword
  <2>2. /\ ~ At(r, "lock") /\ ~ At(r, "lock")'
        /\ \A q \in Reqs \ {r} : req'[q] = req[q]
    BY <1>0, <1>9, VerifyCurrentPasswordEffect DEF VerifyCurrentPassword, Left, Went, At, Idle
  <2> QED
    BY <1>a, <2>1, <2>2, NoCount
<1>10. ASSUME NEW r \in Reqs, UpdateEmail(r)
       PROVE  CountInv'
  <2>1. UNCHANGED lost
    BY <1>10 DEF UpdateEmail
  <2> QED
    BY <1>0, <1>a, <1>10, <2>1, UpdateEmailEffect, NoCount DEF UpdateEmail, Wrote, SameLock, Left, Went, At, Idle
<1>11. ASSUME NEW r \in Reqs, UpdatePasswordHash(r)
       PROVE  CountInv'
  <2>1. UNCHANGED lost /\ ~ At(r, "lock")
    BY <1>11 DEF UpdatePasswordHash, At
  <2>2. /\ DOMAIN accounts' = DOMAIN accounts
        /\ \A v \in DOMAIN accounts : accounts'[v].failed = accounts[v].failed
        /\ req'[r].pc = "revokeOthers" /\ \A q \in Reqs \ {r} : req'[q] = req[q]
    BY <1>0, <1>11, UpdatePasswordHashEffect DEF Wrote, SameLock, Went
  <2>3. ~ At(r, "lock")'
    BY <2>2 DEF At
  <2> QED
    BY <1>a, <2>1, <2>2, <2>3, NoCount
<1>12. ASSUME NEW r \in Reqs, RevokeOthers(r)
       PROVE  CountInv'
  <2>1. UNCHANGED lost
    BY <1>12 DEF RevokeOthers
  <2> QED
    BY <1>0, <1>a, <1>12, <2>1, RevokeOthersEffect, NoCount DEF RevokeOthers, Wrote, SameLock, Left, Went, At, Idle
<1>13. ASSUME NEW r \in Reqs, DeleteAccount(r)
       PROVE  CountInv'
  <2>1. UNCHANGED lost
    BY <1>13 DEF DeleteAccount
  <2> QED
    BY <1>0, <1>a, <1>13, <2>1, DeleteAccountEffect, NoCount DEF DeleteAccount, Wrote, SameLock, Left, Went, At, Idle
<1>14. ASSUME NEW r \in Reqs, Fail(r)
       PROVE  CountInv'
  <2>1. UNCHANGED accounts
    BY <1>14 DEF Fail
  <2>2. /\ req'[r] = Idle /\ \A q \in Reqs \ {r} : req'[q] = req[q]
        /\ \A v \in Users : lost'[v] =
              IF At(r, "lock") /\ v = req[r].user THEN lost[v] + 1 ELSE lost[v]
    BY <1>0, <1>14, FailEffect DEF Left
  <2>3. ~ At(r, "lock")'
    BY <2>2 DEF At
  <2>4. CASE At(r, "lock")
    <3>1. req[r].user \in Users
      BY <1>0, <2>4, Kinds DEF At, Entering, EnteringSteps
    <3> QED
      BY <1>a, <2>1, <2>2, <2>3, <2>4, <3>1, LockDone
  <2>5. CASE ~ At(r, "lock")
    BY <1>a, <2>1, <2>2, <2>3, <2>5, NoCount
  <2> QED
    BY <2>4, <2>5
<1>15. CASE Tick
  <2>1. UNCHANGED <<accounts, req, lost>>
    BY <1>15 DEF Tick
  <2> QED
    BY <2>1 DEF CountInv, FewLocking, FailuresLeadToALock, Locking, At
<1>16. CASE UNCHANGED vars
  BY <1>16 DEF vars, CountInv, FewLocking, FailuresLeadToALock, Locking, At
<1> QED
  BY <1>1, <1>2, <1>3, <1>4, <1>5, <1>6, <1>7, <1>8, <1>9, <1>10, <1>11, <1>12,
     <1>13, <1>14, <1>15, <1>16 DEF Next, CheckSteps

\* However many logins fail at once, the count passes MAX_FAILED_LOGINS - 1 only
\* for requests that are about to lock the account, or died before they could.
THEOREM FailuresLock == Spec => []FailuresLeadToALock
<1>1. Typed /\ CountInv /\ [Next]_vars => (Typed /\ CountInv)'
  BY TypedNext, CountNext
<1>2. CountInv => FailuresLeadToALock
  BY DEF CountInv
<1> QED
  BY <1>1, <1>2, TypedInit, CountInit, PTL DEF Spec

-----------------------------------------------------------------------------
(* Logins that re-hash *)

\* Request r is a login to account u that read a hash with weaker parameters and
\* has yet to write it anew.
OldReader(r, u) ==
    /\ req[r] \in Entering
    /\ req[r].pc \in {"clear", "rehash"}
    /\ req[r].weak = TRUE
    /\ req[r].user = u

\* All of them hold one password: the account's, or the one that a change has
\* replaced under all of them, since which no login reads a weak hash any more.
OldReaders ==
    /\ \A r \in Reqs : At(r, "rehash") => req[r].weak = TRUE
    /\ \A u \in DOMAIN accounts, r \in Reqs : OldReader(r, u) =>
          /\ \A q \in Reqs : OldReader(q, u) => req[q].given = req[r].given
          /\ \/ req[r].given = accounts[u].password
             \/ /\ accounts[u].password = accounts[u].chosen
                /\ accounts[u].weak = FALSE
                /\ r \in changedSince

\* No row changes its password or who chose it, and none is new.
SamePasswords ==
    /\ DOMAIN accounts' \subseteq DOMAIN accounts
    /\ \A u \in DOMAIN accounts' : SamePassword(u)

\* Initially no login is under way.
LEMMA OldReadersInit == Init => OldReaders
BY DEF Init, OldReaders, OldReader, At, Idle, Entering

\* A step that writes no password and makes no request an old reader.
LEMMA OldReadersStep ==
    ASSUME OldReaders, SamePasswords, NEW r \in Reqs,
           \A q \in Reqs \ {r} : req'[q] = req[q],
           changedSince \ {r} \subseteq changedSince',
           At(r, "rehash")' => req'[r].weak = TRUE,
           \A u \in DOMAIN accounts : OldReader(r, u)' =>
              /\ OldReader(r, u)
              /\ req'[r].given = req[r].given
              /\ r \in changedSince => r \in changedSince'
    PROVE  OldReaders'
<1>1. \A q \in Reqs : At(q, "rehash")' => req'[q].weak = TRUE
  BY DEF OldReaders, At
<1>2. ASSUME NEW u \in DOMAIN accounts', NEW q \in Reqs, OldReader(q, u)'
      PROVE  /\ u \in DOMAIN accounts /\ SamePassword(u)
             /\ OldReader(q, u)
             /\ req'[q].given = req[q].given
             /\ q \in changedSince => q \in changedSince'
  BY <1>2 DEF SamePasswords, OldReader
<1>3. ASSUME NEW u \in DOMAIN accounts', NEW q \in Reqs, OldReader(q, u)'
      PROVE  /\ \A t \in Reqs : OldReader(t, u)' => req'[t].given = req'[q].given
             /\ \/ req'[q].given = accounts'[u].password
                \/ /\ accounts'[u].password = accounts'[u].chosen
                   /\ accounts'[u].weak = FALSE
                   /\ q \in changedSince'
  <2>1. \A t \in Reqs : OldReader(t, u)' => req'[t].given = req'[q].given
    BY <1>2, <1>3 DEF OldReaders
  <2> QED
    BY <1>2, <1>3, <2>1 DEF OldReaders, SamePassword
<1> QED
  BY <1>1, <1>3 DEF OldReaders

\* A request that ends is an old reader no more.
LEMMA LeftOldReaders ==
    ASSUME OldReaders, SamePasswords, NEW r \in Reqs, req'[r] = Idle,
           \A q \in Reqs \ {r} : req'[q] = req[q],
           changedSince \ {r} \subseteq changedSince'
    PROVE  OldReaders'
<1>1. Idle \notin Entering
  BY DEF Idle, Entering
<1> QED
  BY <1>1, OldReadersStep DEF OldReader, At

\* Nor is one that goes on elsewhere.
LEMMA WentOldReaders ==
    ASSUME OldReaders, SamePasswords, NEW r \in Reqs, NEW step, Went(r, step),
           step \notin {"clear", "rehash"}, changedSince \ {r} \subseteq changedSince'
    PROVE  OldReaders'
BY OldReadersStep DEF Went, OldReader, At

\* Every step keeps what the old readers hold.
LEMMA OldReadersNext == Typed /\ Linked /\ OldReaders /\ [Next]_vars => OldReaders'
<1> SUFFICES ASSUME Typed, Linked, OldReaders, [Next]_vars PROVE OldReaders'
  OBVIOUS
<1>0. TypeOK /\ Shaped
  BY DEF Typed
<1>1. ASSUME NEW r \in Reqs, NEW e \in Emails, NEW p \in Passwords, LoginFind(r, e, p)
      PROVE  OldReaders'
  <2>1. UNCHANGED <<accounts, changedSince>>
    BY <1>1 DEF LoginFind
  <2>2. PICK u \in DOMAIN accounts :
           /\ req'[r].pc = AfterVerify(accounts[u], p)
           /\ req'[r].user = u /\ req'[r].given = p
           /\ req'[r].weak = accounts[u].weak
           /\ \A q \in Reqs \ {r} : req'[q] = req[q]
    BY <1>0, <1>1, LoginFindEffect
  <2>3. accounts[u].weak \in BOOLEAN
    BY <1>0 DEF TypeOK, Account
  <2>4. req'[r].pc = "rehash" => req'[r].weak = TRUE
    BY <2>2, <2>3 DEF AfterVerify, NeedsRehash
  <2>5. req'[r].pc \in {"clear", "rehash"} => p = accounts[u].password
    BY <2>2 DEF AfterVerify
  <2>6. \A q \in Reqs : At(q, "rehash")' => req'[q].weak = TRUE
    BY <2>2, <2>4 DEF OldReaders, At
  <2>7. ASSUME NEW v \in DOMAIN accounts, NEW q \in Reqs, OldReader(q, v)'
        PROVE  \/ q # r /\ OldReader(q, v) /\ req'[q].given = req[q].given
               \/ /\ q = r /\ v = u /\ req'[q].given = accounts[u].password
                  /\ accounts[u].weak = TRUE
    BY <2>2, <2>5, <2>7 DEF OldReader
  <2>8. \A v \in DOMAIN accounts, q \in Reqs : OldReader(q, v) =>
           /\ \A t \in Reqs : OldReader(t, v) => req[t].given = req[q].given
           /\ \/ req[q].given = accounts[v].password
              \/ /\ accounts[v].password = accounts[v].chosen
                 /\ accounts[v].weak = FALSE
                 /\ q \in changedSince
    BY DEF OldReaders
  <2>9. ASSUME NEW q \in Reqs, OldReader(q, u), accounts[u].weak = TRUE
        PROVE  req[q].given = accounts[u].password
    BY <2>8, <2>9
  <2>10. ASSUME NEW v \in DOMAIN accounts, NEW q \in Reqs, OldReader(q, v)'
        PROVE  /\ \A t \in Reqs : OldReader(t, v)' => req'[t].given = req'[q].given
               /\ \/ req'[q].given = accounts[v].password
                  \/ /\ accounts[v].password = accounts[v].chosen
                     /\ accounts[v].weak = FALSE
                     /\ q \in changedSince
    <3>1. CASE v = u /\ accounts[u].weak = TRUE
      <4>1. ASSUME NEW x \in Reqs, OldReader(x, v)'
            PROVE  req'[x].given = accounts[u].password
        BY <2>7, <2>9, <3>1, <4>1
      <4> QED
        BY <2>10, <3>1, <4>1
    <3>2. CASE ~ (v = u /\ accounts[u].weak = TRUE)
      <4>1. ASSUME NEW x \in Reqs, OldReader(x, v)'
            PROVE  OldReader(x, v) /\ req'[x].given = req[x].given
        BY <2>7, <3>2, <4>1
      <4> QED
        BY <2>8, <2>10, <4>1
    <3> QED
      BY <3>1, <3>2
  <2> QED
    BY <2>1, <2>6, <2>10 DEF OldReaders
<1>2. ASSUME NEW r \in Reqs, NEW e \in Emails, NEW p \in Passwords, NEW u \in Users,
             Register(r, u, e, p)
      PROVE  OldReaders'
  <2>1. AddAccount(u, e, p) /\ UNCHANGED changedSince
    BY <1>2 DEF Register
  <2>2. /\ u \notin born
        /\ DOMAIN accounts' = DOMAIN accounts \cup {u}
        /\ \A v \in DOMAIN accounts \ {u} : accounts'[v] = accounts[v]
    BY <1>0, <2>1, AddAccountEffect
  <2>3. req'[r].pc = "start" /\ \A q \in Reqs \ {r} : req'[q] = req[q]
    BY <1>0, <1>2, RegisterEffect
  <2>5. ASSUME NEW v, NEW q \in Reqs, OldReader(q, v)'
        PROVE  q # r /\ OldReader(q, v) /\ req'[q] = req[q] /\ v \in born
    <3>1. q # r /\ req'[q] = req[q] /\ OldReader(q, v)
      BY <2>3, <2>5 DEF OldReader
    <3>2. req[q] # Idle
      BY <3>1 DEF OldReader, Entering, Idle
    <3> QED
      BY <3>1, <3>2 DEF Linked, OldReader
  <2>6. ASSUME NEW v \in DOMAIN accounts', NEW q \in Reqs, OldReader(q, v)'
        PROVE  v \in DOMAIN accounts /\ accounts'[v] = accounts[v]
    BY <2>2, <2>5, <2>6
  <2>7. \A q \in Reqs : At(q, "rehash")' => req'[q].weak = TRUE
    BY <2>3 DEF OldReaders, At
  <2>8. ASSUME NEW v \in DOMAIN accounts', NEW q \in Reqs, OldReader(q, v)'
        PROVE  /\ \A t \in Reqs : OldReader(t, v)' => req'[t].given = req'[q].given
               /\ \/ req'[q].given = accounts'[v].password
                  \/ /\ accounts'[v].password = accounts'[v].chosen
                     /\ accounts'[v].weak = FALSE
                     /\ q \in changedSince'
    BY <2>1, <2>5, <2>6, <2>8 DEF OldReaders
  <2> QED
    BY <2>7, <2>8 DEF OldReaders
<1>3. ASSUME NEW r \in Reqs, NEW s \in Sids, NEW p \in Passwords, NEW step \in CheckSteps,
             NEW new \in Emails \cup Passwords, CanActivate(r, s, step, p, new)
      PROVE  OldReaders'
  <2>1. SamePasswords /\ UNCHANGED changedSince
    BY <1>3 DEF CanActivate, SamePasswords, SamePassword
  <2>2. /\ req'[r].pc \notin {"clear", "rehash"}
        /\ \A q \in Reqs \ {r} : req'[q] = req[q]
    BY <1>0, <1>3, CanActivateEffect DEF CheckSteps
  <2> QED
    BY <2>1, <2>2, OldReadersStep DEF OldReader, At
<1>4. ASSUME NEW r \in Reqs, RecordFailedLogin(r)
      PROVE  OldReaders'
  <2>1. SamePasswords
    BY <1>0, <1>4, RecordFailedLoginEffect DEF Wrote, SamePasswords, SamePassword
  <2>2. Left(r) \/ (Went(r, "lock") /\ UNCHANGED changedSince)
    BY <1>0, <1>4, RecordFailedLoginEffect
  <2> QED
    BY <2>1, <2>2, LeftOldReaders, WentOldReaders DEF Left
<1>5. ASSUME NEW r \in Reqs, Lock(r)
      PROVE  OldReaders'
  <2>1. SamePasswords
    BY <1>0, <1>5, LockEffect DEF Wrote, SamePasswords, SamePassword
  <2>2. req'[r] = Idle /\ \A q \in Reqs \ {r} : req'[q] = req[q]
    BY <1>0, <1>5, LockEffect
  <2>3. changedSince' = changedSince \ {r}
    BY <1>5 DEF Lock
  <2> QED
    BY <2>1, <2>2, <2>3, LeftOldReaders
<1>6. ASSUME NEW r \in Reqs, ClearFailedLogins(r)
      PROVE  OldReaders'
  <2>1. SamePasswords
    BY <1>0, <1>6, ClearFailedLoginsEffect DEF Wrote, SamePasswords, SamePassword
  <2>2. PICK step : step = (IF req[r].weak THEN "rehash" ELSE "start")
    OBVIOUS
  <2>3. Went(r, step) /\ req[r] \in Entering
    BY <1>0, <1>6, <2>2, ClearFailedLoginsEffect
  <2>4. UNCHANGED changedSince /\ req[r].pc = "clear"
    BY <1>6 DEF ClearFailedLogins, At
  <2>5. req[r].weak \in BOOLEAN
    BY <2>3 DEF Entering
  <2>6. /\ \A q \in Reqs \ {r} : req'[q] = req[q]
        /\ req'[r].pc = step /\ req'[r].weak = req[r].weak
        /\ req'[r].given = req[r].given /\ req'[r].user = req[r].user
    BY <2>3 DEF Went
  <2>7. At(r, "rehash")' => req'[r].weak = TRUE
    BY <2>2, <2>5, <2>6 DEF At
  <2>8. \A u \in DOMAIN accounts : OldReader(r, u)' => OldReader(r, u)
    BY <2>3, <2>4, <2>6 DEF OldReader
  <2> QED
    BY <2>1, <2>4, <2>6, <2>7, <2>8, OldReadersStep
<1>7. ASSUME NEW r \in Reqs, Rehash(r)
      PROVE  OldReaders'
  <2>0. PICK u : u = req[r].user
    OBVIOUS
  <2>1. /\ Wrote(u) /\ Went(r, "start") /\ req[r] \in Entering
        /\ accounts'[u].password = req[r].given
        /\ UNCHANGED changedSince
    BY <1>0, <1>7, <2>0, RehashEffect DEF Rehash
  <2>2. OldReader(r, u)
    BY <1>7, <2>0, <2>1 DEF Rehash, OldReaders, OldReader, At
  <2>3. ASSUME NEW v, NEW q \in Reqs, OldReader(q, v)'
        PROVE  q # r /\ req'[q] = req[q] /\ OldReader(q, v)
    BY <2>1, <2>3 DEF Went, OldReader
  <2>4. \A q \in Reqs : At(q, "rehash")' => req'[q].weak = TRUE
    BY <2>1 DEF OldReaders, At, Went
  <2>5. ASSUME NEW v \in DOMAIN accounts', NEW q \in Reqs, OldReader(q, v)'
        PROVE  /\ \A t \in Reqs : OldReader(t, v)' => req'[t].given = req'[q].given
               /\ \/ req'[q].given = accounts'[v].password
                  \/ /\ accounts'[v].password = accounts'[v].chosen
                     /\ accounts'[v].weak = FALSE
                     /\ q \in changedSince'
    <3>1. v \in DOMAIN accounts
      BY <2>1, <2>5 DEF Wrote
    <3>2. \A t \in Reqs : OldReader(t, v)' => req'[t].given = req'[q].given
      BY <2>3, <2>5, <3>1 DEF OldReaders
    <3>3. CASE v = u
      <4>1. req[q].given = req[r].given
        BY <2>2, <2>3, <2>5, <3>1, <3>3 DEF OldReaders
      <4> QED
        BY <2>1, <2>3, <2>5, <3>2, <3>3, <4>1
    <3>4. CASE v # u
      <4>1. accounts'[v] = accounts[v]
        BY <2>1, <3>1, <3>4 DEF Wrote
      <4> QED
        BY <2>1, <2>3, <2>5, <3>1, <3>2, <4>1 DEF OldReaders
    <3> QED
      BY <3>3, <3>4
  <2> QED
    BY <2>4, <2>5 DEF OldReaders
<1>8. ASSUME NEW r \in Reqs, NEW s \in Sids, StartSession(r, s)
      PROVE  OldReaders'
  <2>1. SamePasswords
    BY <1>8 DEF StartSession, SamePasswords, SamePassword
  <2>2. Left(r)
    BY <1>0, <1>8, StartSessionEffect
  <2> QED
    BY <2>1, <2>2, LeftOldReaders DEF Left
<1>9. ASSUME NEW r \in Reqs, VerifyCurrentPassword(r)
      PROVE  OldReaders'
  <2>1. SamePasswords
    BY <1>9 DEF VerifyCurrentPassword, SamePasswords, SamePassword
  <2>2. \/ Left(r)
        \/ /\ UNCHANGED changedSince
           /\ Went(r, "updateEmail") \/ Went(r, "updatePassword") \/ Went(r, "delete")
    BY <1>0, <1>9, VerifyCurrentPasswordEffect
  <2> QED
    BY <2>1, <2>2, LeftOldReaders, WentOldReaders DEF Left
<1>10. ASSUME NEW r \in Reqs, UpdateEmail(r)
       PROVE  OldReaders'
  <2>1. SamePasswords
    BY <1>0, <1>10, UpdateEmailEffect DEF UpdateEmail, Wrote, SamePasswords, SamePassword
  <2> QED
    BY <1>0, <1>10, <2>1, UpdateEmailEffect, LeftOldReaders DEF Left
<1>11. ASSUME NEW r \in Reqs, UpdatePasswordHash(r)
       PROVE  OldReaders'
  <2>0. PICK u : u = req[r].user
    OBVIOUS
  <2>1. /\ Wrote(u) /\ Went(r, "revokeOthers")
        /\ accounts'[u].password = accounts'[u].chosen
        /\ accounts'[u].weak = FALSE
    BY <1>0, <1>11, <2>0, UpdatePasswordHashEffect
  <2>2. changedSince' = (changedSince \cup {q \in Reqs : Concerns(q, u)}) \ {r}
    BY <1>11, <2>0 DEF UpdatePasswordHash
  <2>3. ASSUME NEW v, NEW q \in Reqs, OldReader(q, v)'
        PROVE  q # r /\ req'[q] = req[q] /\ OldReader(q, v)
    BY <2>1, <2>3 DEF Went, OldReader
  <2>4. \A q \in Reqs : At(q, "rehash")' => req'[q].weak = TRUE
    BY <2>1 DEF OldReaders, At, Went
  <2>5. ASSUME NEW v \in DOMAIN accounts', NEW q \in Reqs, OldReader(q, v)'
        PROVE  /\ \A t \in Reqs : OldReader(t, v)' => req'[t].given = req'[q].given
               /\ \/ req'[q].given = accounts'[v].password
                  \/ /\ accounts'[v].password = accounts'[v].chosen
                     /\ accounts'[v].weak = FALSE
                     /\ q \in changedSince'
    <3>1. v \in DOMAIN accounts
      BY <2>1, <2>5 DEF Wrote
    <3>2. \A t \in Reqs : OldReader(t, v)' => req'[t].given = req'[q].given
      BY <2>3, <2>5, <3>1 DEF OldReaders
    <3>3. CASE v = u
      <4>1. Concerns(q, u)
        <5>1. req[q] \in Entering /\ req[q].user = u
          BY <2>3, <2>5, <3>3 DEF OldReader
        <5> QED
          BY <5>1 DEF Concerns, Entering, Idle
      <4>2. q \in changedSince'
        BY <2>2, <2>3, <2>5, <4>1
      <4> QED
        BY <2>1, <3>2, <3>3, <4>2
    <3>4. CASE v # u
      <4>1. accounts'[v] = accounts[v]
        BY <2>1, <3>1, <3>4 DEF Wrote
      <4> QED
        BY <2>2, <2>3, <2>5, <3>1, <3>2, <4>1 DEF OldReaders
    <3> QED
      BY <3>3, <3>4
  <2> QED
    BY <2>4, <2>5 DEF OldReaders
<1>12. ASSUME NEW r \in Reqs, RevokeOthers(r)
       PROVE  OldReaders'
  <2>1. SamePasswords
    BY <1>12 DEF RevokeOthers, SamePasswords, SamePassword
  <2> QED
    BY <1>0, <1>12, <2>1, RevokeOthersEffect, LeftOldReaders DEF Left
<1>13. ASSUME NEW r \in Reqs, DeleteAccount(r)
       PROVE  OldReaders'
  <2>1. SamePasswords
    BY <1>0, <1>13, DeleteAccountEffect DEF SamePasswords, SamePassword
  <2> QED
    BY <1>0, <1>13, <2>1, DeleteAccountEffect, LeftOldReaders DEF Left
<1>14. ASSUME NEW r \in Reqs, Fail(r)
       PROVE  OldReaders'
  <2>1. SamePasswords
    BY <1>14 DEF Fail, SamePasswords, SamePassword
  <2> QED
    BY <1>0, <1>14, <2>1, FailEffect, LeftOldReaders DEF Left
<1>15. CASE Tick
  BY <1>15 DEF Tick, OldReaders, OldReader, At
<1>16. CASE UNCHANGED vars
  BY <1>16 DEF vars, OldReaders, OldReader, At
<1> QED
  BY <1>1, <1>2, <1>3, <1>4, <1>5, <1>6, <1>7, <1>8, <1>9, <1>10, <1>11, <1>12,
     <1>13, <1>14, <1>15, <1>16 DEF Next, CheckSteps

-----------------------------------------------------------------------------
(* Who changes an account *)

\* The steps of a request that has proved a password.
ProvedSteps == {"clear", "rehash", "start", "updateEmail", "updatePassword", "delete"}

\* Whoever is past the check of a password proved one that counts.
Proved ==
    \A r \in Reqs :
        req[r].pc \in ProvedSteps /\ req[r].user \in DOMAIN accounts =>
            Proven(r, req[r].user)

\* Initially: what sessions and requests have proved.
LEMMA ProvedInit == Init => Proved
BY DEF Init, Proved, ProvedSteps, Idle

\* A step that takes no request to where its password must have been proved.
LEMMA ProvedStep ==
    ASSUME Proved, SamePasswords, NEW r \in Reqs,
           \A q \in Reqs \ {r} : req'[q] = req[q],
           changedSince \ {r} \subseteq changedSince',
           req'[r].pc \in ProvedSteps =>
              /\ req[r].pc \in ProvedSteps
              /\ req'[r].user = req[r].user /\ req'[r].given = req[r].given
              /\ r \in changedSince => r \in changedSince'
    PROVE  Proved'
BY DEF Proved, Proven, SamePasswords, SamePassword

\* A request that leaves proves nothing and takes no proof away.
LEMMA LeftProved ==
    ASSUME Proved, SamePasswords, NEW r \in Reqs, Left(r)
    PROVE  Proved'
<1>1. req'[r].pc \notin ProvedSteps
  BY DEF Left, Idle, ProvedSteps
<1> QED
  BY <1>1, ProvedStep DEF Left

\* Every step keeps what sessions and requests have proved.
LEMMA ProvedNext ==
    Typed /\ Linked /\ OldReaders /\ Proved /\ [Next]_vars => Proved'
<1> SUFFICES ASSUME Typed, Linked, OldReaders, Proved, [Next]_vars PROVE Proved'
  OBVIOUS
<1>0. TypeOK /\ Shaped
  BY DEF Typed
<1>1. ASSUME NEW r \in Reqs, NEW e \in Emails, NEW p \in Passwords, LoginFind(r, e, p)
      PROVE  Proved'
  <2>1. UNCHANGED <<accounts, changedSince>>
    BY <1>1 DEF LoginFind
  <2>2. PICK u \in DOMAIN accounts :
           /\ req'[r].pc = AfterVerify(accounts[u], p)
           /\ req'[r].user = u /\ req'[r].given = p
           /\ \A q \in Reqs \ {r} : req'[q] = req[q]
    BY <1>0, <1>1, LoginFindEffect
  <2>3. req'[r].pc \in ProvedSteps => accounts[u].password = p
    BY <2>2 DEF AfterVerify, ProvedSteps
  <2> QED
    BY <2>1, <2>2, <2>3 DEF Proved, Proven
<1>2. ASSUME NEW r \in Reqs, NEW e \in Emails, NEW p \in Passwords, NEW u \in Users,
             Register(r, u, e, p)
      PROVE  Proved'
  <2>1. AddAccount(u, e, p) /\ UNCHANGED changedSince
    BY <1>2 DEF Register
  <2>2. /\ u \notin born
        /\ DOMAIN accounts' = DOMAIN accounts \cup {u}
        /\ accounts'[u].password = p
        /\ \A v \in DOMAIN accounts \ {u} : accounts'[v] = accounts[v]
    BY <1>0, <2>1, AddAccountEffect
  <2>3. /\ req'[r].user = u /\ req'[r].given = p
        /\ \A q \in Reqs \ {r} : req'[q] = req[q]
    BY <1>0, <1>2, RegisterEffect
  <2>4. \A q \in Reqs : req[q].pc \in ProvedSteps => req[q].user \in born
    BY DEF Linked, Idle, ProvedSteps
  <2> QED
    BY <2>1, <2>2, <2>3, <2>4 DEF Proved, Proven
<1>3. ASSUME NEW r \in Reqs, NEW s \in Sids, NEW p \in Passwords, NEW step \in CheckSteps,
             NEW new \in Emails \cup Passwords, CanActivate(r, s, step, p, new)
      PROVE  Proved'
  <2>1. SamePasswords /\ UNCHANGED changedSince
    BY <1>3 DEF CanActivate, SamePasswords, SamePassword
  <2>2. req'[r].pc \notin ProvedSteps /\ \A q \in Reqs \ {r} : req'[q] = req[q]
    BY <1>0, <1>3, CanActivateEffect DEF CheckSteps, ProvedSteps
  <2> QED
    BY <2>1, <2>2, ProvedStep
<1>4. ASSUME NEW r \in Reqs, RecordFailedLogin(r)
      PROVE  Proved'
  <2>1. SamePasswords
    BY <1>0, <1>4, RecordFailedLoginEffect DEF Wrote, SamePasswords, SamePassword
  <2>2. Left(r) \/ (Went(r, "lock") /\ UNCHANGED changedSince)
    BY <1>0, <1>4, RecordFailedLoginEffect
  <2> QED
    BY <2>1, <2>2, LeftProved, ProvedStep DEF Went, ProvedSteps
<1>5. ASSUME NEW r \in Reqs, Lock(r)
      PROVE  Proved'
  <2>1. SamePasswords
    BY <1>0, <1>5, LockEffect DEF Wrote, SamePasswords, SamePassword
  <2>2. req'[r].pc \notin ProvedSteps /\ \A q \in Reqs \ {r} : req'[q] = req[q]
    BY <1>0, <1>5, LockEffect DEF Idle, ProvedSteps
  <2>3. changedSince' = changedSince \ {r}
    BY <1>5 DEF Lock
  <2> QED
    BY <2>1, <2>2, <2>3, ProvedStep
<1>6. ASSUME NEW r \in Reqs, ClearFailedLogins(r)
      PROVE  Proved'
  <2>1. SamePasswords
    BY <1>0, <1>6, ClearFailedLoginsEffect DEF Wrote, SamePasswords, SamePassword
  <2>2. \E step : Went(r, step)
    BY <1>0, <1>6, ClearFailedLoginsEffect
  <2>3. UNCHANGED changedSince /\ req[r].pc \in ProvedSteps
    BY <1>6 DEF ClearFailedLogins, At, ProvedSteps
  <2> QED
    BY <2>1, <2>2, <2>3, ProvedStep DEF Went
<1>7. ASSUME NEW r \in Reqs, Rehash(r)
      PROVE  Proved'
  <2>0. PICK u : u = req[r].user
    OBVIOUS
  <2>1. /\ Wrote(u) /\ Went(r, "start") /\ req[r] \in Entering
        /\ accounts'[u].password = req[r].given
        /\ accounts'[u].chosen = accounts[u].chosen
        /\ UNCHANGED changedSince
    BY <1>0, <1>7, <2>0, RehashEffect DEF Rehash
  <2>2. OldReader(r, u) /\ u \in DOMAIN accounts
    BY <1>7, <2>0, <2>1 DEF Rehash, OldReaders, OldReader, At, Wrote
  <2>3. \/ req[r].given = accounts[u].password
        \/ accounts[u].password = accounts[u].chosen
    BY <2>2 DEF OldReaders
  <2>4. ASSUME NEW q \in Reqs, req'[q].pc \in ProvedSteps, req'[q].user \in DOMAIN accounts'
        PROVE  Proven(q, req[q].user)' /\ req'[q].user = req[q].user
    <3>1. CASE q = r
      BY <2>0, <2>1, <3>1 DEF Went, Proven
    <3>2. CASE q # r
      <4>1. req'[q] = req[q] /\ Proven(q, req[q].user)
        BY <2>1, <2>4, <3>2 DEF Went, Wrote, Proved
      <4>2. CASE req[q].user = u
        BY <2>1, <2>3, <4>1, <4>2 DEF Proven
      <4>3. CASE req[q].user # u
        BY <2>1, <2>4, <4>1, <4>3 DEF Proven, Wrote
      <4> QED
        BY <4>1, <4>2, <4>3
    <3> QED
      BY <3>1, <3>2
  <2> QED
    BY <2>4 DEF Proved, Proven
<1>8. ASSUME NEW r \in Reqs, NEW s \in Sids, StartSession(r, s)
      PROVE  Proved'
  <2>1. SamePasswords
    BY <1>8 DEF StartSession, SamePasswords, SamePassword
  <2>2. Left(r)
    BY <1>0, <1>8, StartSessionEffect
  <2> QED
    BY <2>1, <2>2, LeftProved
<1>9. ASSUME NEW r \in Reqs, VerifyCurrentPassword(r)
      PROVE  Proved'
  <2>1. SamePasswords /\ UNCHANGED accounts
    BY <1>9 DEF VerifyCurrentPassword, SamePasswords, SamePassword
  <2>2. CASE Left(r)
    BY <2>1, <2>2, LeftProved
  <2>3. CASE /\ accounts[req[r].user].password = req[r].given
             /\ UNCHANGED changedSince
             /\ \E step : Went(r, step)
    BY <2>1, <2>3 DEF Proved, Proven, Went
  <2> QED
    BY <1>0, <1>9, <2>2, <2>3, VerifyCurrentPasswordEffect
<1>10. ASSUME NEW r \in Reqs, UpdateEmail(r)
       PROVE  Proved'
  <2>1. SamePasswords
    BY <1>0, <1>10, UpdateEmailEffect DEF Wrote, SamePasswords, SamePassword
  <2> QED
    BY <1>0, <1>10, <2>1, LeftProved, UpdateEmailEffect
<1>11. ASSUME NEW r \in Reqs, UpdatePasswordHash(r)
       PROVE  Proved'
  <2>0. PICK u : u = req[r].user
    OBVIOUS
  <2>1. Wrote(u) /\ Went(r, "revokeOthers")
    BY <1>0, <1>11, <2>0, UpdatePasswordHashEffect
  <2>2. changedSince' = (changedSince \cup {q \in Reqs : Concerns(q, u)}) \ {r}
    BY <1>11, <2>0 DEF UpdatePasswordHash
  <2>3. \A q \in Reqs \ {r} : req'[q].pc \in ProvedSteps /\ req'[q].user = u
                               => q \in changedSince'
    BY <2>1, <2>2 DEF Went, Concerns, Idle, ProvedSteps
  <2>4. req'[r].pc \notin ProvedSteps
    BY <2>1 DEF Went, ProvedSteps
  <2> QED
    BY <2>1, <2>2, <2>3, <2>4 DEF Proved, Proven, Went, Wrote
<1>12. ASSUME NEW r \in Reqs, RevokeOthers(r)
       PROVE  Proved'
  <2>1. SamePasswords
    BY <1>12 DEF RevokeOthers, SamePasswords, SamePassword
  <2>2. Left(r)
    BY <1>0, <1>12, RevokeOthersEffect
  <2> QED
    BY <2>1, <2>2, LeftProved
<1>13. ASSUME NEW r \in Reqs, DeleteAccount(r)
       PROVE  Proved'
  <2>1. SamePasswords
    BY <1>0, <1>13, DeleteAccountEffect DEF SamePasswords, SamePassword
  <2> QED
    BY <1>0, <1>13, <2>1, LeftProved, DeleteAccountEffect
<1>14. ASSUME NEW r \in Reqs, Fail(r)
       PROVE  Proved'
  <2>1. SamePasswords
    BY <1>14 DEF Fail, SamePasswords, SamePassword
  <2>2. Left(r)
    BY <1>0, <1>14, FailEffect
  <2> QED
    BY <2>1, <2>2, LeftProved
<1>15. CASE Tick
  BY <1>15 DEF Tick, Proved, Proven
<1>16. CASE UNCHANGED vars
  BY <1>16 DEF vars, Proved, Proven
<1> QED
  BY <1>1, <1>2, <1>3, <1>4, <1>5, <1>6, <1>7, <1>8, <1>9, <1>10, <1>11, <1>12,
     <1>13, <1>14, <1>15, <1>16 DEF Next, CheckSteps

\* What is needed of a state for its steps to change only what was proved.
ProvedInv == Typed /\ Linked /\ OldReaders /\ Proved

\* The inductive invariant about passwords.
LEMMA ProvedInvHolds == Spec => []ProvedInv
<1>1. Init => ProvedInv
  BY TypedInit, LinkedInit, OldReadersInit, ProvedInit DEF ProvedInv
<1>2. ProvedInv /\ [Next]_vars => ProvedInv'
  BY TypedNext, LinkedNext, OldReadersNext, ProvedNext DEF ProvedInv
<1> QED
  BY <1>1, <1>2, PTL DEF Spec

\* What a step does to the account u that needs the password.
Changed(u) ==
    \/ u \notin DOMAIN accounts'
    \/ accounts'[u].email # accounts[u].email
    \/ accounts'[u].password # accounts[u].password

\* The request that is at a step where the password was proved, and moves.
LEMMA ChangerProved ==
    ASSUME Typed, Proved, NEW r \in Reqs, req[r] # Idle,
           req[r].pc \in ProvedSteps, req'[r].pc # req[r].pc,
           NEW u \in DOMAIN accounts, u = req[r].user
    PROVE  \E q \in Reqs : Concerns(q, u) /\ req'[q] # req[q] /\ Proven(q, u)
<1>1. Concerns(r, u)
  BY DEF Concerns
<1> QED
  BY <1>1 DEF Proved

\* Behind every change of an account is a request that has proved its password.
LEMMA ChangesProved ==
    ASSUME ProvedInv, [Next]_vars, NEW u \in DOMAIN accounts, Changed(u)
    PROVE  \E q \in Reqs : Concerns(q, u) /\ req'[q] # req[q] /\ Proven(q, u)
<1> DEFINE Goal == \E q \in Reqs : Concerns(q, u) /\ req'[q] # req[q] /\ Proven(q, u)
<1> SUFFICES Goal
  OBVIOUS
<1> HIDE DEF Goal
<1>0. TypeOK /\ Shaped /\ Typed /\ Proved /\ \A x \in Entering \cup Managing : x # Idle
  BY DEF ProvedInv, Typed, Entering, Managing, Idle
<1>1. ASSUME NEW r \in Reqs, NEW e \in Emails, NEW p \in Passwords, LoginFind(r, e, p)
      PROVE  Goal
  BY <1>1 DEF LoginFind, Changed
<1>2. ASSUME NEW r \in Reqs, NEW e \in Emails, NEW p \in Passwords, NEW v \in Users,
             Register(r, v, e, p)
      PROVE  Goal
  <2>1. AddAccount(v, e, p)
    BY <1>2 DEF Register
  <2>2. v \notin DOMAIN accounts
    BY <1>0, <2>1, AddAccountEffect DEF ProvedInv, Linked
  <2> QED
    BY <1>0, <2>1, <2>2, AddAccountEffect DEF Changed
<1>3. ASSUME NEW r \in Reqs, NEW s \in Sids, NEW p \in Passwords, NEW step \in CheckSteps,
             NEW new \in Emails \cup Passwords, CanActivate(r, s, step, p, new)
      PROVE  Goal
  BY <1>3 DEF CanActivate, Changed
<1>4. ASSUME NEW r \in Reqs, RecordFailedLogin(r)
      PROVE  Goal
  BY <1>0, <1>4, RecordFailedLoginEffect DEF Wrote, SamePassword, SameEmail, Changed
<1>5. ASSUME NEW r \in Reqs, Lock(r)
      PROVE  Goal
  BY <1>0, <1>5, LockEffect DEF Wrote, SamePassword, SameEmail, Changed
<1>6. ASSUME NEW r \in Reqs, ClearFailedLogins(r)
      PROVE  Goal
  BY <1>0, <1>6, ClearFailedLoginsEffect DEF Wrote, SamePassword, SameEmail, Changed
<1>7. ASSUME NEW r \in Reqs, Rehash(r)
      PROVE  Goal
  <2>1. u = req[r].user
    BY <1>0, <1>7, RehashEffect DEF Wrote, SameEmail, Changed
  <2>2. req[r] \in Entering /\ req[r].pc \in ProvedSteps /\ req'[r].pc # req[r].pc
    BY <1>0, <1>7, RehashEffect DEF Rehash, At, ProvedSteps, Went
  <2> QED
    BY <1>0, <2>1, <2>2, ChangerProved DEF Goal
<1>8. ASSUME NEW r \in Reqs, NEW s \in Sids, StartSession(r, s)
      PROVE  Goal
  BY <1>8 DEF StartSession, Changed
<1>9. ASSUME NEW r \in Reqs, VerifyCurrentPassword(r)
      PROVE  Goal
  BY <1>9 DEF VerifyCurrentPassword, Changed
<1>10. ASSUME NEW r \in Reqs, UpdateEmail(r)
       PROVE  Goal
  <2>1. u = req[r].user
    BY <1>0, <1>10, UpdateEmailEffect DEF Wrote, Changed
  <2>2. req[r] \in Managing /\ req[r].pc \in ProvedSteps /\ req'[r].pc # req[r].pc
    BY <1>0, <1>10, UpdateEmailEffect DEF UpdateEmail, At, ProvedSteps, Left, Idle
  <2> QED
    BY <1>0, <2>1, <2>2, ChangerProved DEF Goal
<1>11. ASSUME NEW r \in Reqs, UpdatePasswordHash(r)
       PROVE  Goal
  <2>1. u = req[r].user
    BY <1>0, <1>11, UpdatePasswordHashEffect DEF Wrote, Changed
  <2>2. req[r] \in Managing /\ req[r].pc \in ProvedSteps /\ req'[r].pc # req[r].pc
    BY <1>0, <1>11, UpdatePasswordHashEffect DEF UpdatePasswordHash, At, ProvedSteps, Went
  <2> QED
    BY <1>0, <2>1, <2>2, ChangerProved DEF Goal
<1>12. ASSUME NEW r \in Reqs, RevokeOthers(r)
       PROVE  Goal
  BY <1>12 DEF RevokeOthers, Changed
<1>13. ASSUME NEW r \in Reqs, DeleteAccount(r)
       PROVE  Goal
  <2>1. u = req[r].user
    BY <1>0, <1>13, DeleteAccountEffect DEF Changed
  <2>2. req[r] \in Managing /\ req[r].pc \in ProvedSteps /\ req'[r].pc # req[r].pc
    BY <1>0, <1>13, DeleteAccountEffect DEF DeleteAccount, At, ProvedSteps, Left, Idle
  <2> QED
    BY <1>0, <2>1, <2>2, ChangerProved DEF Goal
<1>14. ASSUME NEW r \in Reqs, Fail(r)
       PROVE  Goal
  BY <1>14 DEF Fail, Changed
<1>15. CASE Tick
  BY <1>15 DEF Tick, Changed
<1>16. CASE UNCHANGED vars
  BY <1>16 DEF vars, Changed
<1> QED
  BY <1>1, <1>2, <1>3, <1>4, <1>5, <1>6, <1>7, <1>8, <1>9, <1>10, <1>11, <1>12,
     <1>13, <1>14, <1>15, <1>16 DEF Next, CheckSteps

\* README.md:81: to change the email or the password, or to delete the account,
\* takes its password, and so does writing the hash anew at a login: the password
\* that opens the account, the one last chosen, or one that a change replaced while
\* the request was already past its check.  All requests that still hold a weak
\* hash's password hold the same one, so this stays true of those that a re-hash
\* overtakes.
THEOREM ChangesAreProved == Spec => ChangesNeedThePassword
<1>1. ProvedInv /\ [Next]_vars =>
         [\A u \in DOMAIN accounts :
             (\/ u \notin DOMAIN accounts'
              \/ accounts'[u].email # accounts[u].email
              \/ accounts'[u].password # accounts[u].password) =>
                 \E r \in Reqs : Concerns(r, u) /\ req'[r] # req[r] /\ Proven(r, u)]_vars
  BY ChangesProved DEF Changed
<1> QED
  BY <1>1, ProvedInvHolds, PTL DEF Spec, ChangesNeedThePassword

\* No step changes a lock but Lock and ClearFailedLogins, and these are steps of
\* logins, which the invariant above says are older than a lock in force.
THEOREM OlderLoginsOnly == Spec => LocksYieldToOlderLogins
<1> DEFINE Yields(u) ==
      Locked(u) /\ accounts'[u].lockedUntil # accounts[u].lockedUntil =>
          \E r \in lockedSince :
              /\ Concerns(r, u)
              /\ Lock(r) \/ (ClearFailedLogins(r) /\ Proven(r, u))
<1>1. ASSUME CredInv, Proved, [Next]_vars, NEW v \in DOMAIN accounts \cap DOMAIN accounts'
      PROVE  Yields(v)
  <2>0. TypeOK /\ Shaped /\ Linked /\ LockAdmitsNoAttempt
    BY <1>1 DEF CredInv, Typed
  <2>1. ASSUME NEW r \in Reqs, Lock(r) \/ ClearFailedLogins(r)
        PROVE  Yields(v)
    <3>1. req[r] \in Entering /\ Wrote(req[r].user)
      BY <2>0, <2>1, LockEffect, ClearFailedLoginsEffect
    <3>2. CASE v = req[r].user
      <4>1. Enters(r, v)
        BY <3>1, <3>2 DEF Enters, Concerns, Entering, Idle
      <4>2. ClearFailedLogins(r) => Proven(r, v)
        BY <1>1, <3>2 DEF ClearFailedLogins, At, Proved, ProvedSteps
      <4> QED
        BY <2>0, <2>1, <4>1, <4>2 DEF LockAdmitsNoAttempt, Enters
    <3>3. CASE v # req[r].user
      BY <3>1, <3>3 DEF Wrote
    <3> QED
      BY <3>2, <3>3
  <2>2. ASSUME NEW r \in Reqs, RecordFailedLogin(r) \/ Rehash(r) \/ UpdateEmail(r) \/ UpdatePasswordHash(r)
        PROVE  Yields(v)
    BY <2>0, <2>2, RecordFailedLoginEffect, RehashEffect, UpdateEmailEffect,
       UpdatePasswordHashEffect DEF Wrote, SameLock
  <2>3. ASSUME NEW r \in Reqs, NEW e \in Emails, NEW p \in Passwords, NEW u \in Users, Register(r, u, e, p)
        PROVE  Yields(v)
    <3>1. AddAccount(u, e, p)
      BY <2>3 DEF Register
    <3>2. u \notin DOMAIN accounts /\ \A w \in DOMAIN accounts \ {u} : accounts'[w] = accounts[w]
      BY <2>0, <3>1, AddAccountEffect DEF Linked
    <3> QED
      BY <3>2
  <2>4. ASSUME NEW r \in Reqs, DeleteAccount(r)
        PROVE  Yields(v)
    BY <2>0, <2>4, DeleteAccountEffect
  <2>5. CASE UNCHANGED accounts
    BY <2>5
  <2>6. ASSUME NEW r \in Reqs, VerifyCurrentPassword(r) \/ RevokeOthers(r) \/ Fail(r)
                \/ \E s \in Sids : StartSession(r, s)
        PROVE  UNCHANGED accounts
    BY <2>6 DEF VerifyCurrentPassword, RevokeOthers, Fail, StartSession
  <2>7. ASSUME NEW r \in Reqs, NEW e \in Emails, NEW p \in Passwords, LoginFind(r, e, p)
        PROVE  UNCHANGED accounts
    BY <2>7 DEF LoginFind
  <2>8. ASSUME NEW r, NEW s, NEW step, NEW p, NEW new, CanActivate(r, s, step, p, new)
        PROVE  UNCHANGED accounts
    BY <2>8 DEF CanActivate
  <2>9. CASE Tick \/ UNCHANGED vars
    BY <2>9 DEF Tick, vars
  <2> QED
    BY <1>1, <2>1, <2>2, <2>3, <2>4, <2>5, <2>6, <2>7, <2>8, <2>9 DEF Next
<1>2. CredInv /\ Proved /\ [Next]_vars =>
        [\A u \in DOMAIN accounts \cap DOMAIN accounts' : Yields(u)]_vars
  BY <1>1
<1>3. ProvedInv => Proved
  BY DEF ProvedInv
<1> QED
  BY <1>2, <1>3, CredInvHolds, ProvedInvHolds, PTL DEF Spec, LocksYieldToOlderLogins

-----------------------------------------------------------------------------
(* Sessions with an old password *)

\* Why session s may be live with a password that is not its account's any more.
Explained(s) ==
    \/ sessions[s].late
    \/ s \in cut
    \/ sessions[s].password = accounts[sessions[s].user].chosen
    \/ \E r \in Reqs : /\ At(r, "revokeOthers")
                       /\ req[r].user = sessions[s].user
                       /\ req[r].sid # s

\* Initially: the explanation of stale sessions.
LEMMA StaleInit == Init => StaleSessionsAreExplained
BY DEF Init, StaleSessionsAreExplained

\* The accounts there are stay, each with its password and the one chosen.
SameOpening ==
    \A u \in DOMAIN accounts :
        /\ u \in DOMAIN accounts'
        /\ accounts'[u].password = accounts[u].password
        /\ accounts'[u].chosen = accounts[u].chosen

\* A request that revokes no sessions moves: what explained a session still does.
LEMMA StaleStep ==
    ASSUME StaleSessionsAreExplained, SameOpening, NEW r \in Reqs,
           req[r].pc # "revokeOthers",
           \A q \in Reqs \ {r} : req'[q] = req[q],
           UNCHANGED <<sessions, cut>>
    PROVE  StaleSessionsAreExplained'
<1> SUFFICES ASSUME NEW s \in DOMAIN sessions
             PROVE  /\ sessions[s].live => sessions[s].user \in DOMAIN accounts'
                    /\ Stale(s)' => Explained(s)'
  BY DEF StaleSessionsAreExplained, Explained
<1>1. /\ sessions[s].live => sessions[s].user \in DOMAIN accounts
      /\ Stale(s) => Explained(s)
  BY DEF StaleSessionsAreExplained, Explained
<1>2. Stale(s)' => Stale(s)
  BY <1>1 DEF Stale, SameOpening
<1>3. sessions[s].user \in DOMAIN accounts /\ Explained(s) => Explained(s)'
  <2>1. \A q \in Reqs : At(q, "revokeOthers") => req'[q] = req[q]
    BY DEF At
  <2> QED
    BY <2>1 DEF Explained, At, SameOpening
<1> QED
  BY <1>1, <1>2, <1>3 DEF SameOpening, Stale

\* Every step keeps the explanation of stale sessions.
LEMMA StaleNext ==
    Typed /\ Linked /\ OldReaders /\ Proved /\ StaleSessionsAreExplained /\ [Next]_vars
        => StaleSessionsAreExplained'
<1> SUFFICES ASSUME Typed, Linked, OldReaders, Proved, StaleSessionsAreExplained, [Next]_vars
             PROVE  StaleSessionsAreExplained'
  OBVIOUS
<1>0. TypeOK /\ Shaped
  BY DEF Typed
<1>1. ASSUME NEW r \in Reqs, NEW e \in Emails, NEW p \in Passwords, LoginFind(r, e, p)
      PROVE  StaleSessionsAreExplained'
  <2>1. SameOpening
    BY <1>1 DEF LoginFind, SameOpening
  <2>2. UNCHANGED <<sessions, cut>> /\ req[r].pc # "revokeOthers"
    BY <1>1 DEF LoginFind, At, Idle
  <2>3. \A q \in Reqs \ {r} : req'[q] = req[q]
    BY <1>0, <1>1, LoginFindEffect DEF Left, Went
  <2> QED
    BY <2>1, <2>2, <2>3, StaleStep
<1>2. ASSUME NEW r \in Reqs, NEW e \in Emails, NEW p \in Passwords, NEW u \in Users,
             Register(r, u, e, p)
      PROVE  StaleSessionsAreExplained'
  <2>1. AddAccount(u, e, p) /\ UNCHANGED <<sessions, cut>> /\ req[r].pc # "revokeOthers"
    BY <1>2 DEF Register, Idle
  <2>2. SameOpening
    BY <1>0, <2>1, AddAccountEffect DEF Linked, SameOpening
  <2>3. \A q \in Reqs \ {r} : req'[q] = req[q]
    BY <1>0, <1>2, RegisterEffect
  <2> QED
    BY <2>1, <2>2, <2>3, StaleStep
<1>3. ASSUME NEW r \in Reqs, NEW s \in Sids, NEW p \in Passwords, NEW step \in CheckSteps,
             NEW new \in Emails \cup Passwords, CanActivate(r, s, step, p, new)
      PROVE  StaleSessionsAreExplained'
  <2>1. SameOpening
    BY <1>3 DEF CanActivate, SameOpening
  <2>2. UNCHANGED <<sessions, cut>> /\ req[r].pc # "revokeOthers"
    BY <1>3 DEF CanActivate, At, Idle
  <2>3. \A q \in Reqs \ {r} : req'[q] = req[q]
    BY <1>0, <1>3, CanActivateEffect DEF Left, Went
  <2> QED
    BY <2>1, <2>2, <2>3, StaleStep
<1>4. ASSUME NEW r \in Reqs, RecordFailedLogin(r)
      PROVE  StaleSessionsAreExplained'
  <2>1. SameOpening
    BY <1>0, <1>4, RecordFailedLoginEffect DEF Wrote, SamePassword, SameOpening
  <2>2. UNCHANGED <<sessions, cut>> /\ req[r].pc # "revokeOthers"
    BY <1>4 DEF RecordFailedLogin, At
  <2>3. \A q \in Reqs \ {r} : req'[q] = req[q]
    BY <1>0, <1>4, RecordFailedLoginEffect DEF Left, Went
  <2> QED
    BY <2>1, <2>2, <2>3, StaleStep
<1>5. ASSUME NEW r \in Reqs, Lock(r)
      PROVE  StaleSessionsAreExplained'
  <2>1. SameOpening
    BY <1>0, <1>5, LockEffect DEF Wrote, SamePassword, SameOpening
  <2>2. UNCHANGED <<sessions, cut>> /\ req[r].pc # "revokeOthers"
    BY <1>5 DEF Lock, At
  <2>3. \A q \in Reqs \ {r} : req'[q] = req[q]
    BY <1>0, <1>5, LockEffect DEF Left, Went
  <2> QED
    BY <2>1, <2>2, <2>3, StaleStep
<1>6. ASSUME NEW r \in Reqs, ClearFailedLogins(r)
      PROVE  StaleSessionsAreExplained'
  <2>1. SameOpening
    BY <1>0, <1>6, ClearFailedLoginsEffect DEF Wrote, SamePassword, SameOpening
  <2>2. UNCHANGED <<sessions, cut>> /\ req[r].pc # "revokeOthers"
    BY <1>6 DEF ClearFailedLogins, At
  <2>3. \A q \in Reqs \ {r} : req'[q] = req[q]
    BY <1>0, <1>6, ClearFailedLoginsEffect DEF Left, Went
  <2> QED
    BY <2>1, <2>2, <2>3, StaleStep
<1>7. ASSUME NEW r \in Reqs, Rehash(r)
      PROVE  StaleSessionsAreExplained'
  <2>0. PICK u : u = req[r].user
    OBVIOUS
  <2>1. /\ Wrote(u) /\ Went(r, "start") /\ req[r] \in Entering
        /\ accounts'[u].password = req[r].given
        /\ accounts'[u].chosen = accounts[u].chosen
    BY <1>0, <1>7, <2>0, RehashEffect
  <2>2. OldReader(r, u) /\ u \in DOMAIN accounts
    BY <1>7, <2>0, <2>1 DEF Rehash, OldReaders, OldReader, At, Wrote
  <2>3. \/ accounts'[u].password = accounts[u].password
        \/ accounts[u].password = accounts[u].chosen
    BY <2>1, <2>2 DEF OldReaders
  <2>4. UNCHANGED <<sessions, cut>> /\ req[r].pc # "revokeOthers"
    BY <1>7 DEF Rehash, At
  <2> SUFFICES ASSUME NEW t \in DOMAIN sessions
               PROVE  /\ sessions[t].live => sessions[t].user \in DOMAIN accounts'
                      /\ Stale(t)' => Explained(t)'
    BY <2>4 DEF StaleSessionsAreExplained, Explained
  <2>5. /\ sessions[t].live => sessions[t].user \in DOMAIN accounts
        /\ Stale(t) => Explained(t)
    BY DEF StaleSessionsAreExplained, Explained
  <2>6. Stale(t)' => Stale(t) \/ sessions[t].password = accounts[sessions[t].user].chosen
    BY <2>1, <2>3, <2>4 DEF Stale, Wrote
  <2>7. \A v \in DOMAIN accounts : accounts'[v].chosen = accounts[v].chosen
    BY <2>1 DEF Wrote
  <2>8. \A q \in Reqs : At(q, "revokeOthers") => req'[q] = req[q]
    BY <2>1, <2>4 DEF At, Went
  <2>9. sessions[t].user \in DOMAIN accounts /\ Explained(t) => Explained(t)'
    BY <2>4, <2>7, <2>8 DEF Explained, At
  <2> QED
    BY <2>1, <2>4, <2>5, <2>6, <2>9 DEF Stale, Wrote, Explained
<1>8. ASSUME NEW r \in Reqs, NEW s \in Sids, StartSession(r, s)
      PROVE  StaleSessionsAreExplained'
  <2>1. /\ req[r].pc = "start" /\ req[r].user \in DOMAIN accounts
        /\ UNCHANGED <<accounts, cut>>
    BY <1>8 DEF StartSession, At
  <2>2. /\ s \notin DOMAIN sessions
        /\ DOMAIN sessions' = DOMAIN sessions \cup {s}
        /\ \A t \in DOMAIN sessions : sessions'[t] = sessions[t]
        /\ sessions'[s].user = req[r].user
        /\ sessions'[s].password = req[r].given
        /\ sessions'[s].late <=> r \in changedSince
        /\ \A q \in Reqs \ {r} : req'[q] = req[q]
    BY <1>0, <1>8, StartSessionEffect DEF Left
  <2>3. \/ req[r].given \in {accounts[req[r].user].password, accounts[req[r].user].chosen}
        \/ sessions'[s].late
    BY <2>1, <2>2 DEF Proved, Proven, ProvedSteps
  <2>4. /\ sessions'[s].user \in DOMAIN accounts'
        /\ Stale(s)' => Explained(s)'
    BY <2>1, <2>2, <2>3 DEF Stale, Explained
  <2>5. ASSUME NEW t \in DOMAIN sessions
        PROVE  /\ sessions'[t].live => sessions'[t].user \in DOMAIN accounts'
               /\ Stale(t)' => Explained(t)'
    <3>1. /\ sessions[t].live => sessions[t].user \in DOMAIN accounts
          /\ Stale(t) => Explained(t)
      BY DEF StaleSessionsAreExplained, Explained
    <3>2. Stale(t)' => Stale(t)
      BY <2>1, <2>2 DEF Stale
    <3>3. Explained(t) => Explained(t)'
      <4>1. \A q \in Reqs : At(q, "revokeOthers") => req'[q] = req[q]
        BY <2>1, <2>2 DEF At
      <4> QED
        BY <2>1, <2>2, <4>1 DEF Explained, At
    <3> QED
      BY <2>1, <2>2, <3>1, <3>2, <3>3
  <2> QED
    BY <2>2, <2>4, <2>5 DEF StaleSessionsAreExplained, Explained
<1>9. ASSUME NEW r \in Reqs, VerifyCurrentPassword(r)
      PROVE  StaleSessionsAreExplained'
  <2>1. SameOpening
    BY <1>9 DEF VerifyCurrentPassword, SameOpening
  <2>2. UNCHANGED <<sessions, cut>> /\ req[r].pc # "revokeOthers"
    BY <1>9 DEF VerifyCurrentPassword, At, Idle
  <2>3. \A q \in Reqs \ {r} : req'[q] = req[q]
    BY <1>0, <1>9, VerifyCurrentPasswordEffect DEF Left, Went
  <2> QED
    BY <2>1, <2>2, <2>3, StaleStep
<1>10. ASSUME NEW r \in Reqs, UpdateEmail(r)
       PROVE  StaleSessionsAreExplained'
  <2>1. SameOpening
    BY <1>0, <1>10, UpdateEmailEffect DEF Wrote, SamePassword, SameOpening
  <2>2. UNCHANGED <<sessions, cut>> /\ req[r].pc # "revokeOthers"
    BY <1>10 DEF UpdateEmail, At
  <2>3. \A q \in Reqs \ {r} : req'[q] = req[q]
    BY <1>0, <1>10, UpdateEmailEffect DEF Left, Went
  <2> QED
    BY <2>1, <2>2, <2>3, StaleStep
<1>11. ASSUME NEW r \in Reqs, UpdatePasswordHash(r)
       PROVE  StaleSessionsAreExplained'
  <2>0. PICK u, p, sid : u = req[r].user /\ p = req[r].new /\ sid = req[r].sid
    OBVIOUS
  <2>1. /\ req[r] \in Managing /\ Wrote(u) /\ Went(r, "revokeOthers")
        /\ accounts'[u].password = p
        /\ DOMAIN sessions' = DOMAIN sessions
        /\ \A t \in DOMAIN sessions :
              /\ sessions'[t].user = sessions[t].user
              /\ sessions'[t].late = sessions[t].late
              /\ sessions'[t].live = sessions[t].live
              /\ sessions'[t].password = IF t = sid THEN p ELSE sessions[t].password
    BY <1>0, <1>11, <2>0, UpdatePasswordHashEffect
  <2>2. UNCHANGED cut /\ req[r].pc # "revokeOthers"
    BY <1>11 DEF UpdatePasswordHash, At
  <2>3. sid \in DOMAIN sessions /\ sessions[sid].user = u
    BY <2>0, <2>1 DEF Linked
  <2>4. At(r, "revokeOthers")' /\ req'[r].user = u /\ req'[r].sid = sid
    BY <2>0, <2>1 DEF Went, At, Idle
  <2> SUFFICES ASSUME NEW t \in DOMAIN sessions
               PROVE  /\ sessions'[t].live => sessions'[t].user \in DOMAIN accounts'
                      /\ Stale(t)' => Explained(t)'
    BY <2>1 DEF StaleSessionsAreExplained, Explained
  <2>5. /\ sessions[t].live => sessions[t].user \in DOMAIN accounts
        /\ Stale(t) => Explained(t)
    BY DEF StaleSessionsAreExplained, Explained
  <2>6. CASE sessions[t].user = u /\ t # sid
    BY <2>1, <2>4, <2>5, <2>6 DEF Explained, Wrote
  <2>7. CASE t = sid
    BY <2>1, <2>3, <2>5, <2>7 DEF Stale, Wrote
  <2>8. CASE sessions[t].user # u
    <3>1. Stale(t)' => Stale(t)
      BY <2>1, <2>3, <2>8 DEF Stale, Wrote
    <3>2. \A q \in Reqs : At(q, "revokeOthers") => req'[q] = req[q]
      BY <2>1, <2>2 DEF At, Went
    <3>3. sessions[t].user \in DOMAIN accounts /\ Explained(t) => Explained(t)'
      BY <2>1, <2>2, <2>3, <2>8, <3>2 DEF Explained, At, Wrote
    <3> QED
      BY <2>1, <2>5, <3>1, <3>3 DEF Wrote, Stale
  <2> QED
    BY <2>6, <2>7, <2>8
<1>12. ASSUME NEW r \in Reqs, RevokeOthers(r)
       PROVE  StaleSessionsAreExplained'
  <2>0. PICK u, sid : u = req[r].user /\ sid = req[r].sid
    OBVIOUS
  <2>1. /\ Ended(OfUser(u) \ {sid})
        /\ \A q \in Reqs \ {r} : req'[q] = req[q]
    BY <1>0, <1>12, <2>0, RevokeOthersEffect DEF Left
  <2>2. UNCHANGED <<accounts, cut>>
    BY <1>12 DEF RevokeOthers
  <2> SUFFICES ASSUME NEW t \in DOMAIN sessions
               PROVE  /\ sessions'[t].live => sessions'[t].user \in DOMAIN accounts'
                      /\ Stale(t)' => Explained(t)'
    BY <2>1 DEF StaleSessionsAreExplained, Explained, Ended
  <2>3. /\ sessions[t].live => sessions[t].user \in DOMAIN accounts
        /\ Stale(t) => Explained(t)
    BY DEF StaleSessionsAreExplained, Explained
  <2>4. Stale(t)' => Stale(t) /\ (sessions[t].user # u \/ t = sid)
    BY <2>1, <2>2 DEF Stale, Ended, OfUser
  <2>5. Explained(t) /\ (sessions[t].user # u \/ t = sid) => Explained(t)'
    BY <2>0, <2>1, <2>2 DEF Explained, At, Ended
  <2> QED
    BY <2>1, <2>2, <2>3, <2>4, <2>5 DEF Ended
<1>13. ASSUME NEW r \in Reqs, DeleteAccount(r)
       PROVE  StaleSessionsAreExplained'
  <2>0. PICK u : u = req[r].user
    OBVIOUS
  <2>1. /\ DOMAIN accounts' = DOMAIN accounts \ {u}
        /\ \A v \in DOMAIN accounts' : accounts'[v] = accounts[v]
        /\ Ended(OfUser(u))
        /\ \A q \in Reqs \ {r} : req'[q] = req[q]
    BY <1>0, <1>13, <2>0, DeleteAccountEffect DEF Left
  <2>2. UNCHANGED cut /\ req[r].pc # "revokeOthers"
    BY <1>13 DEF DeleteAccount, At
  <2> SUFFICES ASSUME NEW t \in DOMAIN sessions
               PROVE  /\ sessions'[t].live => sessions'[t].user \in DOMAIN accounts'
                      /\ Stale(t)' => Explained(t)'
    BY <2>1 DEF StaleSessionsAreExplained, Explained, Ended
  <2>3. /\ sessions[t].live => sessions[t].user \in DOMAIN accounts
        /\ Stale(t) => Explained(t)
    BY DEF StaleSessionsAreExplained, Explained
  <2>4. Stale(t)' => Stale(t)
    BY <2>1 DEF Stale, Ended
  <2>5. sessions[t].user \in DOMAIN accounts' /\ Explained(t) => Explained(t)'
    BY <2>1, <2>2 DEF Explained, At, Ended
  <2>6. sessions'[t].live => sessions[t].live /\ sessions[t].user # u
    BY <2>1 DEF Ended, OfUser
  <2> QED
    BY <2>1, <2>3, <2>4, <2>5, <2>6 DEF Ended, Stale
<1>14. ASSUME NEW r \in Reqs, Fail(r)
       PROVE  StaleSessionsAreExplained'
  <2>1. UNCHANGED <<accounts, sessions>>
    BY <1>14 DEF Fail
  <2>2. \A q \in Reqs \ {r} : req'[q] = req[q]
    BY <1>0, <1>14, FailEffect DEF Left
  <2>3. CASE At(r, "revokeOthers")
    <3>1. cut' = cut \cup {s \in OfUser(req[r].user) \ {req[r].sid} : Stale(s)}
      BY <1>14, <2>3 DEF Fail
    <3> SUFFICES ASSUME NEW t \in DOMAIN sessions
                 PROVE  /\ sessions[t].live => sessions[t].user \in DOMAIN accounts
                        /\ Stale(t) => Explained(t)'
      BY <2>1 DEF StaleSessionsAreExplained, Explained, Stale
    <3>2. /\ sessions[t].live => sessions[t].user \in DOMAIN accounts
          /\ Stale(t) => Explained(t)
      BY DEF StaleSessionsAreExplained, Explained
    <3>3. CASE Stale(t) /\ sessions[t].user = req[r].user /\ req[r].sid # t
      BY <3>1, <3>2, <3>3 DEF OfUser, Explained
    <3>4. CASE ~ (sessions[t].user = req[r].user /\ req[r].sid # t)
      BY <2>1, <2>2, <3>1, <3>2, <3>4 DEF Explained, At
    <3> QED
      BY <3>2, <3>3, <3>4
  <2>4. CASE ~ At(r, "revokeOthers")
    <3>1. req[r].pc # "revokeOthers" /\ UNCHANGED cut
      BY <1>14, <2>4 DEF Fail, At
    <3>2. SameOpening
      BY <2>1 DEF SameOpening
    <3> QED
      BY <2>1, <2>2, <3>1, <3>2, StaleStep
  <2> QED
    BY <2>3, <2>4
<1>15. CASE Tick
  BY <1>15 DEF Tick, StaleSessionsAreExplained, Stale, At
<1>16. CASE UNCHANGED vars
  BY <1>16 DEF vars, StaleSessionsAreExplained, Stale, At
<1> QED
  BY <1>1, <1>2, <1>3, <1>4, <1>5, <1>6, <1>7, <1>8, <1>9, <1>10, <1>11, <1>12,
     <1>13, <1>14, <1>15, <1>16 DEF Next, CheckSteps

\* A session opened with a password that is not the account's any more is about to
\* be ended by the change, or the change died on the way, or the login was in flight
\* during it, or a re-hash has undone the change; and an account's sessions end with
\* the account.
THEOREM StaleSessions == Spec => []StaleSessionsAreExplained
<1>1. Init => StaleSessionsAreExplained
  BY StaleInit
<1>2. ProvedInv /\ StaleSessionsAreExplained /\ [Next]_vars => StaleSessionsAreExplained'
  BY StaleNext DEF ProvedInv
<1> QED
  BY <1>1, <1>2, ProvedInvHolds, PTL DEF Spec

=============================================================================
