--------------------------- MODULE SessionsProofs ---------------------------
(***************************************************************************)
(* Proofs about Sessions.  One inductive invariant, SessionsInv, carries   *)
(* the properties of the table; the action properties follow from it step  *)
(* by step, and so does that the table implements RefreshLineage.  The     *)
(* last part is about dates: revocation dates are written once, a process  *)
(* that answers in time never takes two simultaneous refreshes of one      *)
(* token for a theft, and expiry is final.                                 *)
(***************************************************************************)
EXTENDS Sessions, TLAPS

\* Rows and requests agree: what a request copied from a row is still what the
\* row says, or the row is gone; and every id in use was drawn.
Linked ==
    /\ DOMAIN sessions \subseteq minted
    /\ \A s \in DOMAIN sessions : sessions[s].family \in families
    /\ \A r \in Reqs : req[r] # Idle =>
          /\ req[r].sid \in minted
          /\ req[r].family \in families
          /\ req[r].sid \in DOMAIN sessions =>
                sessions[req[r].sid].family = req[r].family

SessionsInv == TypeOK /\ Linked /\ SingleHolder /\ SessionsHaveUsers

USE DEF Never

-----------------------------------------------------------------------------
(* What the statements do to the table. *)

\* A request is idle exactly when it awaits nothing.
LEMMA BusyPc ==
    ASSUME TypeOK, NEW r \in Reqs
    PROVE  /\ req[r] # Idle => req[r] \in Busy
           /\ req[r] # Idle <=> req[r].pc # "idle"
           /\ req[r] # Idle => req[r].pc \in RotateSteps \cup HandlerSteps
BY DEF TypeOK, Busy, Idle, RotateSteps, HandlerSteps

\* A revocation keeps every row, dates only live ones, and changes no owner.
LEMMA RevokeEffect ==
    ASSUME TypeOK, NEW S, NEW date \in Nat, Revoke(S, date)
    PROVE  /\ DOMAIN sessions' = DOMAIN sessions
           /\ sessions' \in [DOMAIN sessions' -> Row]
           /\ \A s \in DOMAIN sessions :
                 /\ sessions'[s].user = sessions[s].user
                 /\ sessions'[s].family = sessions[s].family
                 /\ sessions'[s].revokedAt =
                       IF s \in S /\ Live(s) THEN date ELSE sessions[s].revokedAt
           /\ \A s \in Sids : Live(s)' <=> Live(s) /\ s \notin S
           /\ \A s \in Sids, f \in Families : LiveIn(s, f)' => LiveIn(s, f)
<1>1. \A s \in DOMAIN sessions : sessions[s] \in Row
  BY DEF TypeOK
<1>2. DOMAIN sessions' = DOMAIN sessions
  BY DEF Revoke
<1>3. \A s \in DOMAIN sessions : sessions'[s] =
         IF s \in S /\ Live(s) THEN [sessions[s] EXCEPT !.revokedAt = date]
                               ELSE sessions[s]
  BY DEF Revoke
<1>4. \A s \in DOMAIN sessions :
         /\ sessions'[s] \in Row
         /\ sessions'[s].user = sessions[s].user
         /\ sessions'[s].family = sessions[s].family
         /\ sessions'[s].revokedAt =
               IF s \in S /\ Live(s) THEN date ELSE sessions[s].revokedAt
  BY <1>1, <1>3 DEF Row
<1>5. sessions' \in [DOMAIN sessions' -> Row]
  BY <1>2, <1>4 DEF Revoke
<1>6. \A s \in Sids : Live(s)' <=> Live(s) /\ s \notin S
  BY <1>2, <1>4 DEF Live
<1>7. \A s \in Sids, f \in Families : LiveIn(s, f)' => LiveIn(s, f)
  BY <1>2, <1>4 DEF LiveIn, Live
<1> QED
  BY <1>2, <1>4, <1>5, <1>6, <1>7

\* An insert adds one live row under an id nobody had, and touches no other.
LEMMA CreateEffect ==
    ASSUME TypeOK, DOMAIN sessions \subseteq minted,
           NEW s, NEW u \in Users, NEW f \in Families,
           NEW date \in Nat, SessionsAssumption, Create(s, u, f, date)
    PROVE  /\ s \in Sids \ minted
           /\ u \in users
           /\ DOMAIN sessions' = DOMAIN sessions \cup {s}
           /\ sessions' \in [DOMAIN sessions' -> Row]
           /\ \A t \in DOMAIN sessions : sessions'[t] = sessions[t]
           /\ sessions'[s].user = u
           /\ sessions'[s].family = f
           /\ sessions'[s].revokedAt = Never
           /\ minted' = minted \cup {s}
           /\ \A t \in Sids : Live(t)' <=> Live(t) \/ t = s
           /\ \A t \in Sids, g \in Families :
                 LiveIn(t, g)' <=> LiveIn(t, g) \/ (t = s /\ g = f)
<1>1. s \in Sids \ minted /\ u \in users /\ minted' = minted \cup {s}
  BY DEF Create
<1>2. s \notin DOMAIN sessions
  BY <1>1
<1>3. DOMAIN sessions' = DOMAIN sessions \cup {s}
  BY DEF Create
<1>4. \A t \in DOMAIN sessions : sessions'[t] = sessions[t]
  BY <1>2 DEF Create
<1>5. sessions'[s] = [user |-> u, family |-> f, createdAt |-> now,
                      expiresAt |-> date + TTL, revokedAt |-> Never]
  BY DEF Create
<1>6. sessions'[s] \in Row
  <2>1. date + TTL \in Nat /\ now \in Nat
    BY DEF SessionsAssumption, TypeOK
  <2> QED
    BY <1>5, <2>1 DEF Row
<1>7. sessions' \in [DOMAIN sessions' -> Row]
  <2>1. \A t \in DOMAIN sessions' : sessions'[t] \in Row
    BY <1>3, <1>4, <1>6 DEF TypeOK
  <2> QED
    BY <1>3, <2>1 DEF Create
<1>8. \A t \in Sids : Live(t)' <=> Live(t) \/ t = s
  BY <1>2, <1>3, <1>4, <1>5 DEF Live
<1>9. \A t \in Sids, g \in Families :
         LiveIn(t, g)' <=> LiveIn(t, g) \/ (t = s /\ g = f)
  BY <1>2, <1>3, <1>4, <1>5 DEF LiveIn, Live
<1> QED
  BY <1>1, <1>3, <1>4, <1>5, <1>7, <1>8, <1>9

\* The clock reading a statement carries is a date.
LEMMA SentAtDate ==
    ASSUME TypeOK, NEW r \in Reqs, req[r] # Idle, NEW date \in SentAt(r)
    PROVE  date \in Nat /\ req[r].at <= date /\ date <= now
BY BusyPc DEF SentAt, TypeOK, Busy

-----------------------------------------------------------------------------
(* The shapes the handlers' steps have. *)

\* logout, logout-all, change of password, reuse detection: a last statement
\* that revokes the rows of S, and the request is over.
RevokesAndAnswers(r, S) ==
    /\ req[r] # Idle
    /\ \E date \in SentAt(r) : Revoke(S, date)
    /\ Answer(r)
    /\ UNCHANGED <<now, users, minted, families>>

\* Every step of a request that is being served, by its shape.
LEMMA StepShapes ==
    ASSUME NEW r \in Reqs, Step(r)
    PROVE  \/ RotateClaim(r)
           \/ RotateReread(r)
           \/ \E S : RevokesAndAnswers(r, S)
           \/ \E s \in Sids : RotateCreate(r, s)
           \/ DeleteAccount(r)
           \/ Fail(r)
<1>1. CASE RotateRevokeFamily(r)
  <2>1. RevokesAndAnswers(r, OfFamily(req[r].family))
    BY <1>1 DEF RotateRevokeFamily, RevokesAndAnswers, At
  <2> QED BY <2>1
<1>2. CASE Logout(r)
  <2>1. RevokesAndAnswers(r, {req[r].sid})
    BY <1>2 DEF Logout, RevokesAndAnswers, At
  <2> QED BY <2>1
<1>3. CASE LogoutAll(r)
  <2>1. RevokesAndAnswers(r, OfUser(req[r].user))
    BY <1>3 DEF LogoutAll, RevokesAndAnswers, At
  <2> QED BY <2>1
<1>4. CASE RevokeOthers(r)
  <2>1. RevokesAndAnswers(r, OfUser(req[r].user) \ {req[r].sid})
    BY <1>4 DEF RevokeOthers, RevokesAndAnswers, At
  <2> QED BY <2>1
<1> QED BY <1>1, <1>2, <1>3, <1>4 DEF Step

\* What a read leaves behind is a request that knows its row.
LEMMA ReadingEffect ==
    ASSUME TypeOK, NEW r \in Reqs, NEW s \in DOMAIN sessions,
           NEW step \in RotateSteps \cup HandlerSteps,
           Reads(r, s, step)
    PROVE  /\ req' \in [Reqs -> {Idle} \cup Busy]
           /\ req'[r] \in Busy
           /\ req'[r].pc = step
           /\ req'[r].sid = s
           /\ req'[r].user = sessions[s].user
           /\ req'[r].family = sessions[s].family
           /\ req'[r].unused = Live(s)
           /\ req'[r].at = now
           /\ \A q \in Reqs \ {r} : req'[q] = req[q]
<1>1. s \in Sids /\ sessions[s] \in Row /\ now \in Nat
  BY DEF TypeOK
<1> DEFINE new == [pc |-> step, sid |-> s, user |-> sessions[s].user,
                   family |-> sessions[s].family, unused |-> Live(s), at |-> now]
<1>2. new \in Busy
  BY <1>1 DEF Busy, Row, Live
<1>3. req' = [req EXCEPT ![r] = new]
  BY DEF Reads
<1> QED
  BY <1>2, <1>3 DEF TypeOK

\* Going on and answering touch the request alone.
LEMMA GoToEffect ==
    ASSUME TypeOK, NEW r \in Reqs, req[r] # Idle,
           NEW step \in RotateSteps \cup HandlerSteps, GoTo(r, step)
    PROVE  /\ req' \in [Reqs -> {Idle} \cup Busy]
           /\ req'[r] \in Busy
           /\ req'[r].pc = step
           /\ req'[r].sid = req[r].sid
           /\ req'[r].user = req[r].user
           /\ req'[r].family = req[r].family
           /\ req'[r].unused = req[r].unused
           /\ req'[r].at = req[r].at
           /\ \A q \in Reqs \ {r} : req'[q] = req[q]
<1>1. req[r] \in Busy
  BY BusyPc
<1>2. req'[r] = [req[r] EXCEPT !.pc = step]
  BY DEF GoTo, TypeOK
<1> QED
  BY <1>1, <1>2 DEF GoTo, TypeOK, Busy

\* What answering a request does: it is idle, the others stay.
LEMMA AnswerEffect ==
    ASSUME TypeOK, NEW r \in Reqs, Answer(r)
    PROVE  /\ req' \in [Reqs -> {Idle} \cup Busy]
           /\ req'[r] = Idle
           /\ \A q \in Reqs \ {r} : req'[q] = req[q]
BY DEF Answer, TypeOK

-----------------------------------------------------------------------------
(* The invariant. *)

\* The invariant holds initially: no session, no request.
THEOREM InitInv == SessionsAssumption /\ Init => SessionsInv
<1> SUFFICES ASSUME SessionsAssumption, Init PROVE SessionsInv
  OBVIOUS
<1>1. DOMAIN sessions = {}
  BY DEF Init
<1>2. \A r \in Reqs : req[r] = Idle
  BY DEF Init
<1>3. TypeOK
  BY <1>1 DEF Init, TypeOK
<1>4. Linked
  BY <1>1, <1>2 DEF Linked
<1>5. SingleHolder
  BY <1>1, <1>2 DEF SingleHolder, LiveIn, Live, Moving, At
<1> QED
  BY <1>1, <1>3, <1>4, <1>5 DEF SessionsInv, SessionsHaveUsers

\* StartSession keeps the invariant.
LEMMA StartSessionInv ==
    ASSUME SessionsInv, NEW u \in Users, NEW f \in Families, NEW s \in Sids,
           StartSession(u, f, s)
    PROVE  SessionsInv'
<1> USE DEF SessionsInv
<1>1. now \in Nat /\ DOMAIN sessions \subseteq minted
  BY DEF TypeOK, Linked
<1>2. Create(s, u, f, now) /\ f \notin families
      /\ families' = families \cup {f} /\ UNCHANGED <<now, users, req>>
  BY DEF StartSession
<1>3. /\ s \in Sids \ minted
      /\ u \in users
      /\ DOMAIN sessions' = DOMAIN sessions \cup {s}
      /\ sessions' \in [DOMAIN sessions' -> Row]
      /\ \A t \in DOMAIN sessions : sessions'[t] = sessions[t]
      /\ sessions'[s].user = u
      /\ sessions'[s].family = f
      /\ minted' = minted \cup {s}
      /\ \A t \in Sids, g \in Families :
            LiveIn(t, g)' <=> LiveIn(t, g) \/ (t = s /\ g = f)
  BY <1>1, <1>2, CreateEffect, SessionsAssumption
<1>4. TypeOK'
  BY <1>2, <1>3 DEF TypeOK
<1>5. Linked'
  BY <1>2, <1>3 DEF Linked
<1>6. /\ \A t \in Sids : ~ LiveIn(t, f)
      /\ \A r \in Reqs : ~ Moving(r, f)
  BY <1>2 DEF Linked, LiveIn, Live, Moving, At
<1>7. \A r \in Reqs, g \in Families : Moving(r, g)' <=> Moving(r, g)
  BY <1>2 DEF Moving, At
<1>8. SingleHolder'
  BY <1>3, <1>6, <1>7 DEF SingleHolder
<1>9. SessionsHaveUsers'
  BY <1>2, <1>3 DEF SessionsHaveUsers
<1> QED BY <1>4, <1>5, <1>8, <1>9

\* A request that has just read its row claims nothing yet.
LEMMA ReadInv ==
    ASSUME SessionsInv, NEW r \in Reqs, NEW s \in DOMAIN sessions,
           NEW step \in (RotateSteps \cup HandlerSteps) \ {"create"},
           req[r] = Idle,
           Reads(r, s, step),
           UNCHANGED <<now, users, sessions, minted, families>>
    PROVE  SessionsInv'
<1> USE DEF SessionsInv
<1>0. step \in RotateSteps \cup HandlerSteps
  OBVIOUS
<1>1. /\ req' \in [Reqs -> {Idle} \cup Busy]
      /\ req'[r].pc = step
      /\ req'[r].sid = s
      /\ req'[r].family = sessions[s].family
      /\ \A q \in Reqs \ {r} : req'[q] = req[q]
  BY <1>0, ReadingEffect
<1>2. TypeOK'
  BY <1>1 DEF TypeOK
<1>3. Linked'
  BY <1>1 DEF Linked
<1>4. \A q \in Reqs, f \in Families : Moving(q, f)' => Moving(q, f)
  BY <1>1 DEF Moving, At
<1>5. \A t \in Sids, f \in Families : LiveIn(t, f)' <=> LiveIn(t, f)
  BY DEF LiveIn, Live
<1>6. SingleHolder'
  BY <1>4, <1>5 DEF SingleHolder
<1> QED BY <1>2, <1>3, <1>6 DEF SessionsHaveUsers

\* Claim keeps the invariant.
LEMMA ClaimInv ==
    ASSUME SessionsInv, NEW r \in Reqs, RotateClaim(r)
    PROVE  SessionsInv'
<1> USE DEF SessionsInv
<1> DEFINE sid == req[r].sid
           fam == req[r].family
           step == IF Live(sid) THEN "create" ELSE "reread"
<1>1. /\ req[r] # Idle /\ req[r] \in Busy
      /\ GoTo(r, step) /\ UNCHANGED <<now, users, minted, families>>
  BY BusyPc DEF RotateClaim, At
<1>2. PICK date \in SentAt(r) : Revoke({sid}, date)
  BY DEF RotateClaim
<1>3. date \in Nat /\ sid \in Sids /\ fam \in Families
  BY <1>1, SentAtDate DEF Busy
<1>4. /\ DOMAIN sessions' = DOMAIN sessions
      /\ sessions' \in [DOMAIN sessions' -> Row]
      /\ \A s \in DOMAIN sessions :
            /\ sessions'[s].user = sessions[s].user
            /\ sessions'[s].family = sessions[s].family
      /\ \A s \in Sids : Live(s)' <=> Live(s) /\ s \notin {sid}
      /\ \A s \in Sids, f \in Families : LiveIn(s, f)' => LiveIn(s, f)
  BY <1>2, <1>3, RevokeEffect
<1>5. step \in RotateSteps \cup HandlerSteps
  BY DEF RotateSteps
<1>6. /\ req' \in [Reqs -> {Idle} \cup Busy]
      /\ req'[r].pc = step
      /\ req'[r].sid = sid
      /\ req'[r].family = fam
      /\ \A q \in Reqs \ {r} : req'[q] = req[q]
  BY <1>1, <1>5, GoToEffect
<1>7. TypeOK'
  BY <1>1, <1>4, <1>6 DEF TypeOK
<1>8. Linked'
  BY <1>1, <1>4, <1>6 DEF Linked
<1>9. \A q \in Reqs, f \in Families :
         Moving(q, f)' => Moving(q, f) \/ (q = r /\ f = fam /\ LiveIn(sid, fam))
  <2>1. Live(sid) => LiveIn(sid, fam)
    BY <1>1 DEF Linked, LiveIn, Live
  <2> QED BY <1>6, <2>1 DEF Moving, At
<1>10. \A s \in Sids, f \in Families : s = sid => ~ LiveIn(s, f)'
  BY <1>4 DEF LiveIn
<1>11. SingleHolder'
  BY <1>3, <1>4, <1>9, <1>10 DEF SingleHolder
<1>12. SessionsHaveUsers'
  BY <1>1, <1>4 DEF SessionsHaveUsers
<1> QED BY <1>7, <1>8, <1>11, <1>12

\* Handlers that revoke sessions and answer keep the invariant.
LEMMA RevokesAndAnswersInv ==
    ASSUME SessionsInv, NEW r \in Reqs, NEW S, RevokesAndAnswers(r, S)
    PROVE  SessionsInv'
<1> USE DEF SessionsInv
<1>1. PICK date \in SentAt(r) : Revoke(S, date)
  BY DEF RevokesAndAnswers
<1>2. date \in Nat
  BY SentAtDate DEF RevokesAndAnswers
<1>3. /\ DOMAIN sessions' = DOMAIN sessions
      /\ sessions' \in [DOMAIN sessions' -> Row]
      /\ \A s \in DOMAIN sessions :
            /\ sessions'[s].user = sessions[s].user
            /\ sessions'[s].family = sessions[s].family
      /\ \A s \in Sids, f \in Families : LiveIn(s, f)' => LiveIn(s, f)
  BY <1>1, <1>2, RevokeEffect
<1>4. /\ req' \in [Reqs -> {Idle} \cup Busy]
      /\ req'[r] = Idle
      /\ \A q \in Reqs \ {r} : req'[q] = req[q]
      /\ UNCHANGED <<now, users, minted, families>>
  BY AnswerEffect DEF RevokesAndAnswers
<1>5. TypeOK'
  BY <1>3, <1>4 DEF TypeOK
<1>6. Linked'
  BY <1>3, <1>4 DEF Linked
<1>7. \A q \in Reqs, f \in Families : Moving(q, f)' => Moving(q, f)
  BY <1>4 DEF Moving, At
<1>8. SingleHolder'
  BY <1>3, <1>7 DEF SingleHolder
<1>9. SessionsHaveUsers'
  BY <1>3, <1>4 DEF SessionsHaveUsers
<1> QED BY <1>5, <1>6, <1>8, <1>9

\* Create keeps the invariant.
LEMMA CreateInv ==
    ASSUME SessionsInv, NEW r \in Reqs, NEW s \in Sids, RotateCreate(r, s)
    PROVE  SessionsInv'
<1> USE DEF SessionsInv
<1>1. /\ req[r] # Idle /\ req[r] \in Busy
      /\ req[r].user \in Users /\ req[r].family \in Families
      /\ Moving(r, req[r].family)
  BY BusyPc DEF RotateCreate, At, Busy, Moving
<1>2. PICK date \in SentAt(r) : Create(s, req[r].user, req[r].family, date)
  BY DEF RotateCreate
<1>3. date \in Nat /\ DOMAIN sessions \subseteq minted
  BY <1>1, SentAtDate DEF Linked
<1>4. /\ s \in Sids \ minted
      /\ req[r].user \in users
      /\ DOMAIN sessions' = DOMAIN sessions \cup {s}
      /\ sessions' \in [DOMAIN sessions' -> Row]
      /\ \A t \in DOMAIN sessions : sessions'[t] = sessions[t]
      /\ sessions'[s].user = req[r].user
      /\ sessions'[s].family = req[r].family
      /\ minted' = minted \cup {s}
      /\ \A t \in Sids, g \in Families :
            LiveIn(t, g)' <=> LiveIn(t, g) \/ (t = s /\ g = req[r].family)
  BY <1>1, <1>2, <1>3, CreateEffect, SessionsAssumption
<1>5. /\ req' \in [Reqs -> {Idle} \cup Busy]
      /\ req'[r] = Idle
      /\ \A q \in Reqs \ {r} : req'[q] = req[q]
      /\ UNCHANGED <<now, users, families>>
  BY AnswerEffect DEF RotateCreate
<1>6. TypeOK'
  BY <1>4, <1>5 DEF TypeOK
<1>7. Linked'
  BY <1>1, <1>4, <1>5 DEF Linked
<1>8. \A q \in Reqs, f \in Families : Moving(q, f)' => Moving(q, f) /\ q # r
  BY <1>5 DEF Moving, At
<1>9. SingleHolder'
  BY <1>1, <1>4, <1>8 DEF SingleHolder
<1>10. SessionsHaveUsers'
  BY <1>4, <1>5 DEF SessionsHaveUsers
<1> QED BY <1>6, <1>7, <1>9, <1>10

\* The cascade: the account's sessions go, the others stay as they are.
LEMMA DeleteEffect ==
    ASSUME TypeOK, NEW r \in Reqs, DeleteAccount(r)
    PROVE  /\ users' = users \ {req[r].user}
           /\ DOMAIN sessions' = DOMAIN sessions \ OfUser(req[r].user)
           /\ sessions' \in [DOMAIN sessions' -> Row]
           /\ \A s \in DOMAIN sessions' : sessions'[s] = sessions[s]
           /\ \A s \in Sids, f \in Families : LiveIn(s, f)' => LiveIn(s, f)
<1>1. /\ users' = users \ {req[r].user}
      /\ DOMAIN sessions' = DOMAIN sessions \ OfUser(req[r].user)
      /\ \A s \in DOMAIN sessions' : sessions'[s] = sessions[s]
  BY DEF DeleteAccount
<1>2. \A s \in DOMAIN sessions' : sessions'[s] \in Row
  BY <1>1 DEF TypeOK
<1>3. sessions' \in [DOMAIN sessions' -> Row]
  BY <1>1, <1>2 DEF DeleteAccount
<1> QED
  BY <1>1, <1>3 DEF LiveIn, Live

\* Delete keeps the invariant.
LEMMA DeleteInv ==
    ASSUME SessionsInv, NEW r \in Reqs, DeleteAccount(r)
    PROVE  SessionsInv'
<1> USE DEF SessionsInv
<1>1. /\ users' = users \ {req[r].user}
      /\ DOMAIN sessions' = DOMAIN sessions \ OfUser(req[r].user)
      /\ sessions' \in [DOMAIN sessions' -> Row]
      /\ \A s \in DOMAIN sessions' : sessions'[s] = sessions[s]
      /\ \A s \in Sids, f \in Families : LiveIn(s, f)' => LiveIn(s, f)
  BY DeleteEffect
<1>2. /\ req' \in [Reqs -> {Idle} \cup Busy]
      /\ req'[r] = Idle
      /\ \A q \in Reqs \ {r} : req'[q] = req[q]
      /\ UNCHANGED <<now, minted, families>>
  BY AnswerEffect DEF DeleteAccount
<1>3. TypeOK'
  BY <1>1, <1>2 DEF TypeOK
<1>4. Linked'
  BY <1>1, <1>2 DEF Linked
<1>5. \A q \in Reqs, f \in Families : Moving(q, f)' => Moving(q, f)
  BY <1>2 DEF Moving, At
<1>6. SingleHolder'
  BY <1>1, <1>5 DEF SingleHolder
<1>7. SessionsHaveUsers'
  BY <1>1 DEF SessionsHaveUsers, OfUser
<1> QED BY <1>3, <1>4, <1>6, <1>7

\* A request that gives up, or waits less for its second read.
LEMMA RequestOnlyInv ==
    ASSUME SessionsInv, NEW r \in Reqs, req[r] # Idle,
           Answer(r) \/ GoTo(r, "revokeFamily"),
           UNCHANGED <<now, users, sessions, minted, families>>
    PROVE  SessionsInv'
<1> USE DEF SessionsInv
<1>1. "revokeFamily" \in RotateSteps \cup HandlerSteps
  BY DEF RotateSteps
<1>2. /\ req' \in [Reqs -> {Idle} \cup Busy]
      /\ \A q \in Reqs \ {r} : req'[q] = req[q]
      /\ \/ req'[r] = Idle
         \/ /\ req'[r].pc = "revokeFamily"
            /\ req'[r].sid = req[r].sid
            /\ req'[r].family = req[r].family
  BY <1>1, AnswerEffect, GoToEffect
<1>3. TypeOK'
  BY <1>2 DEF TypeOK
<1>4. Linked'
  BY <1>2 DEF Linked
<1>5. \A q \in Reqs, f \in Families : Moving(q, f)' => Moving(q, f)
  BY <1>2 DEF Moving, At
<1>6. \A t \in Sids, f \in Families : LiveIn(t, f)' <=> LiveIn(t, f)
  BY DEF LiveIn, Live
<1>7. SingleHolder'
  BY <1>5, <1>6 DEF SingleHolder
<1> QED BY <1>3, <1>4, <1>7 DEF SessionsHaveUsers

\* Tick keeps the invariant.
LEMMA TickInv ==
    ASSUME SessionsInv, Tick
    PROVE  SessionsInv'
<1>1. now' \in Nat /\ UNCHANGED <<users, sessions, minted, families, req>>
  BY DEF Tick, SessionsInv, TypeOK
<1> QED
  BY <1>1 DEF SessionsInv, TypeOK, Linked, SingleHolder, SessionsHaveUsers,
              LiveIn, Live, Moving, At

\* RotateFind keeps the invariant.
LEMMA RotateFindInv ==
    ASSUME SessionsInv, NEW r \in Reqs, NEW s \in Sids, RotateFind(r, s)
    PROVE  SessionsInv'
<1>1. "claim" \in (RotateSteps \cup HandlerSteps) \ {"create"}
  BY DEF RotateSteps
<1> QED
  BY <1>1, ReadInv DEF RotateFind

\* CanActivate keeps the invariant.
LEMMA CanActivateInv ==
    ASSUME SessionsInv, NEW r \in Reqs, NEW s \in Sids,
           NEW step \in HandlerSteps, CanActivate(r, s, step)
    PROVE  SessionsInv'
<1>1. step \in (RotateSteps \cup HandlerSteps) \ {"create"}
  BY DEF HandlerSteps
<1>2. s \in DOMAIN sessions
  BY DEF CanActivate, Live
<1> QED
  BY <1>1, <1>2, ReadInv DEF CanActivate

\* Step keeps the invariant.
LEMMA StepInv ==
    ASSUME SessionsInv, NEW r \in Reqs, Step(r)
    PROVE  SessionsInv'
<1>1. CASE RotateClaim(r)
  BY <1>1, ClaimInv
<1>2. CASE RotateReread(r)
  BY <1>2, RequestOnlyInv DEF RotateReread, At
<1>3. CASE \E S : RevokesAndAnswers(r, S)
  BY <1>3, RevokesAndAnswersInv
<1>4. CASE \E s \in Sids : RotateCreate(r, s)
  BY <1>4, CreateInv
<1>5. CASE DeleteAccount(r)
  BY <1>5, DeleteInv
<1>6. CASE Fail(r)
  BY <1>6, RequestOnlyInv DEF Fail
<1> QED
  BY <1>1, <1>2, <1>3, <1>4, <1>5, <1>6, StepShapes

\* Every step keeps the invariant.
LEMMA NextInv ==
    ASSUME SessionsInv, [Next]_vars
    PROVE  SessionsInv'
<1>1. CASE \E u \in Users, f \in Families, s \in Sids : StartSession(u, f, s)
  BY <1>1, StartSessionInv
<1>2. CASE \E r \in Reqs, s \in Sids :
              RotateFind(r, s) \/ \E step \in HandlerSteps : CanActivate(r, s, step)
  BY <1>2, RotateFindInv, CanActivateInv
<1>3. CASE \E r \in Reqs : Step(r)
  BY <1>3, StepInv
<1>4. CASE Tick
  BY <1>4, TickInv
<1>5. CASE UNCHANGED vars
  BY <1>5 DEF vars, SessionsInv, TypeOK, Linked, SingleHolder,
              SessionsHaveUsers, LiveIn, Live, Moving, At
<1> QED
  BY <1>1, <1>2, <1>3, <1>4, <1>5 DEF Next

\* SessionsInv holds in every reachable state.
THEOREM InvHolds == Spec => []SessionsInv
<1>1. Init => SessionsInv
  BY InitInv, SessionsAssumption
<1>2. SessionsInv /\ [Next]_vars => SessionsInv'
  BY NextInv
<1> QED
  BY <1>1, <1>2, PTL DEF Spec

\* Every variable keeps its type, whatever the handlers interleave.
THEOREM TypeCorrect == Spec => []TypeOK
BY InvHolds, PTL DEF SessionsInv

\* No interleaving of refreshes, logouts, logins, deletions and failures
\* leaves two redeemable tokens, or a token and a rotation, in one family.
THEOREM OneHolderPerFamily == Spec => []SingleHolder
BY InvHolds, PTL DEF SessionsInv

\* No session survives its account.
THEOREM NoOrphanSessions == Spec => []SessionsHaveUsers
BY InvHolds, PTL DEF SessionsInv

-----------------------------------------------------------------------------
(* What a step does to a family. *)

Open(f) == f \in families
Held(f) == \E s \in Sids : LiveIn(s, f)
Rotating(f) == \E r \in Reqs : Moving(r, f)

\* A family gains the fresh token s, and no other family changes.
GainStep(f, s) ==
    /\ f \notin families \/ Rotating(f)
    /\ s \in Sids \ minted
    /\ minted' = minted \cup {s}
    /\ families' = families \cup {f}
    /\ \A t \in Sids, g \in Families :
          LiveIn(t, g)' <=> LiveIn(t, g) \/ (t = s /\ g = f)
    /\ \A g \in Families \ {f} : Rotating(g)' <=> Rotating(g)

\* No family gains a token; one whose token was redeemed may start rotating.
LoseStep ==
    /\ minted' = minted
    /\ families' = families
    /\ \A t \in Sids, g \in Families : LiveIn(t, g)' => LiveIn(t, g)
    /\ \A g \in Families : Rotating(g)' => Rotating(g) \/ Held(g)

\* A login opens a family with one redeemable token.
LEMMA StartSessionFamily ==
    ASSUME SessionsInv, NEW u \in Users, NEW f \in Families, NEW s \in Sids,
           StartSession(u, f, s)
    PROVE  GainStep(f, s)
<1>1. Create(s, u, f, now) /\ f \notin families
      /\ families' = families \cup {f} /\ UNCHANGED <<now, users, req>>
  BY DEF StartSession
<1>2. /\ s \in Sids \ minted
      /\ minted' = minted \cup {s}
      /\ \A t \in Sids, g \in Families :
            LiveIn(t, g)' <=> LiveIn(t, g) \/ (t = s /\ g = f)
  <2>1. TypeOK /\ now \in Nat /\ DOMAIN sessions \subseteq minted
    BY DEF SessionsInv, TypeOK, Linked
  <2> QED
    BY <1>1, <2>1, CreateEffect, SessionsAssumption
<1>3. \A g \in Families : Rotating(g)' <=> Rotating(g)
  BY <1>1 DEF Rotating, Moving, At
<1> QED
  BY <1>1, <1>2, <1>3 DEF GainStep

\* The insert of a rotation gives its family the token it lacked.
LEMMA CreateFamily ==
    ASSUME SessionsInv, NEW r \in Reqs, NEW s \in Sids, RotateCreate(r, s)
    PROVE  GainStep(req[r].family, s)
<1>1. /\ req[r] # Idle /\ req[r] \in Busy
      /\ req[r].user \in Users /\ req[r].family \in Families
      /\ Moving(r, req[r].family)
  BY BusyPc DEF RotateCreate, At, Busy, Moving, SessionsInv
<1>2. PICK date \in SentAt(r) : Create(s, req[r].user, req[r].family, date)
  BY DEF RotateCreate
<1>3. /\ s \in Sids \ minted
      /\ minted' = minted \cup {s}
      /\ \A t \in Sids, g \in Families :
            LiveIn(t, g)' <=> LiveIn(t, g) \/ (t = s /\ g = req[r].family)
  <2>1. TypeOK /\ date \in Nat /\ DOMAIN sessions \subseteq minted
    BY <1>1, SentAtDate DEF SessionsInv, Linked
  <2> QED
    BY <1>1, <1>2, <2>1, CreateEffect, SessionsAssumption
<1>4. families' = families \cup {req[r].family}
  BY <1>1 DEF SessionsInv, Linked, RotateCreate
<1>5. /\ req'[r] = Idle
      /\ \A q \in Reqs \ {r} : req'[q] = req[q]
  BY AnswerEffect DEF RotateCreate, SessionsInv
<1>6. \A g \in Families \ {req[r].family} : Rotating(g)' <=> Rotating(g)
  BY <1>5 DEF Rotating, Moving, At
<1> QED
  BY <1>1, <1>3, <1>4, <1>6 DEF GainStep, Rotating

\* A claim takes the family's redeemable token.
LEMMA ClaimFamily ==
    ASSUME SessionsInv, NEW r \in Reqs, RotateClaim(r)
    PROVE  LoseStep
<1> DEFINE sid == req[r].sid
           fam == req[r].family
           step == IF Live(sid) THEN "create" ELSE "reread"
<1>1. /\ TypeOK /\ req[r] # Idle /\ req[r] \in Busy
      /\ GoTo(r, step) /\ UNCHANGED <<now, users, minted, families>>
  BY BusyPc DEF RotateClaim, At, SessionsInv
<1>2. PICK date \in SentAt(r) : Revoke({sid}, date)
  BY DEF RotateClaim
<1>3. date \in Nat
  BY <1>1, SentAtDate
<1>4. \A s \in Sids, f \in Families : LiveIn(s, f)' => LiveIn(s, f)
  BY <1>1, <1>2, <1>3, RevokeEffect
<1>5. step \in RotateSteps \cup HandlerSteps
  BY DEF RotateSteps
<1>6. /\ req'[r].pc = step
      /\ req'[r].family = fam
      /\ \A q \in Reqs \ {r} : req'[q] = req[q]
  BY <1>1, <1>5, GoToEffect
<1>7. Live(sid) => LiveIn(sid, fam) /\ sid \in Sids
  BY <1>1 DEF SessionsInv, Linked, LiveIn, Live, Busy
<1>8. \A q \in Reqs, g \in Families : Moving(q, g)' => Moving(q, g) \/ Held(g)
  BY <1>6, <1>7 DEF Moving, At, Held
<1> QED
  BY <1>1, <1>4, <1>8 DEF LoseStep, Rotating

\* Every other step leaves the families as they are, or revokes.
LEMMA NoMoveFamily ==
    ASSUME UNCHANGED <<minted, families>>,
           \A t \in Sids, g \in Families : LiveIn(t, g)' => LiveIn(t, g),
           \A q \in Reqs, g \in Families : Moving(q, g)' => Moving(q, g)
    PROVE  LoseStep
BY DEF LoseStep, Rotating

\* What a statement of a handler does to the families.
LEMMA StepFamily ==
    ASSUME SessionsInv, NEW r \in Reqs, Step(r)
    PROVE  LoseStep \/ \E f \in Families, s \in Sids : GainStep(f, s)
<1> USE DEF SessionsInv
<1>1. CASE RotateClaim(r)
  BY <1>1, ClaimFamily
<1>2. CASE RotateReread(r) \/ Fail(r)
  <2>1. /\ req[r] # Idle /\ UNCHANGED <<sessions, minted, families>>
        /\ Answer(r) \/ GoTo(r, "revokeFamily")
    BY <1>2 DEF RotateReread, Fail, At
  <2>2. "revokeFamily" \in RotateSteps \cup HandlerSteps
    BY DEF RotateSteps
  <2>3. /\ req'[r] = Idle \/ req'[r].pc = "revokeFamily"
        /\ \A q \in Reqs \ {r} : req'[q] = req[q]
    BY <2>1, <2>2, AnswerEffect, GoToEffect
  <2>4. \A q \in Reqs, g \in Families : Moving(q, g)' => Moving(q, g)
    BY <2>3 DEF Moving, At
  <2>5. \A t \in Sids, g \in Families : LiveIn(t, g)' => LiveIn(t, g)
    BY <2>1 DEF LiveIn, Live
  <2> QED
    BY <2>1, <2>4, <2>5, NoMoveFamily
<1>3. ASSUME NEW S, RevokesAndAnswers(r, S) PROVE LoseStep
  <2>1. PICK date \in SentAt(r) : Revoke(S, date)
    BY <1>3 DEF RevokesAndAnswers
  <2>2. date \in Nat
    BY <1>3, SentAtDate DEF RevokesAndAnswers
  <2>3. \A t \in Sids, g \in Families : LiveIn(t, g)' => LiveIn(t, g)
    BY <2>1, <2>2, RevokeEffect
  <2>4. /\ req'[r] = Idle
        /\ \A q \in Reqs \ {r} : req'[q] = req[q]
        /\ UNCHANGED <<minted, families>>
    BY <1>3, AnswerEffect DEF RevokesAndAnswers
  <2>5. \A q \in Reqs, g \in Families : Moving(q, g)' => Moving(q, g)
    BY <2>4 DEF Moving, At
  <2> QED
    BY <2>3, <2>4, <2>5, NoMoveFamily
<1>4. ASSUME NEW s \in Sids, RotateCreate(r, s)
      PROVE  \E f \in Families, t \in Sids : GainStep(f, t)
  <2>1. req[r].family \in Families
    BY <1>4, BusyPc DEF RotateCreate, At, Busy
  <2> QED
    BY <1>4, <2>1, CreateFamily
<1>5. CASE DeleteAccount(r)
  <2>1. \A t \in Sids, g \in Families : LiveIn(t, g)' => LiveIn(t, g)
    BY <1>5, DeleteEffect
  <2>2. /\ req'[r] = Idle
        /\ \A q \in Reqs \ {r} : req'[q] = req[q]
        /\ UNCHANGED <<minted, families>>
    BY <1>5, AnswerEffect DEF DeleteAccount
  <2>3. \A q \in Reqs, g \in Families : Moving(q, g)' => Moving(q, g)
    BY <2>2 DEF Moving, At
  <2> QED
    BY <2>1, <2>2, <2>3, NoMoveFamily
<1> QED
  BY <1>1, <1>2, <1>3, <1>4, <1>5, StepShapes

\* Reading a row changes no family.
LEMMA ReadFamily ==
    ASSUME SessionsInv, NEW r \in Reqs, NEW s \in DOMAIN sessions,
           NEW step \in (RotateSteps \cup HandlerSteps) \ {"create"},
           Reads(r, s, step),
           UNCHANGED <<sessions, minted, families>>
    PROVE  LoseStep
<1>1. step \in RotateSteps \cup HandlerSteps
  OBVIOUS
<1>2. /\ req'[r].pc = step
      /\ \A q \in Reqs \ {r} : req'[q] = req[q]
  BY <1>1, ReadingEffect DEF SessionsInv
<1>3. \A q \in Reqs, g \in Families : Moving(q, g)' => Moving(q, g)
  BY <1>2 DEF Moving, At
<1>4. \A t \in Sids, g \in Families : LiveIn(t, g)' => LiveIn(t, g)
  BY DEF LiveIn, Live
<1> QED
  BY <1>3, <1>4, NoMoveFamily

\* Every step: families lose tokens, or one gains its only token.
LEMMA FamilyStep ==
    ASSUME SessionsInv, [Next]_vars
    PROVE  LoseStep \/ \E f \in Families, s \in Sids : GainStep(f, s)
<1>1. CASE \E u \in Users, f \in Families, s \in Sids : StartSession(u, f, s)
  BY <1>1, StartSessionFamily
<1>2. ASSUME NEW r \in Reqs, NEW s \in Sids, RotateFind(r, s)
      PROVE  LoseStep
  <2>1. "claim" \in (RotateSteps \cup HandlerSteps) \ {"create"}
    BY DEF RotateSteps
  <2> QED
    BY <1>2, <2>1, ReadFamily DEF RotateFind
<1>3. ASSUME NEW r \in Reqs, NEW s \in Sids, NEW step \in HandlerSteps,
             CanActivate(r, s, step)
      PROVE  LoseStep
  <2>1. step \in (RotateSteps \cup HandlerSteps) \ {"create"}
    BY DEF HandlerSteps
  <2>2. s \in DOMAIN sessions
    BY <1>3 DEF CanActivate, Live
  <2> QED
    BY <1>3, <2>1, <2>2, ReadFamily DEF CanActivate
<1>4. CASE \E r \in Reqs : Step(r)
  BY <1>4, StepFamily
<1>5. CASE Tick \/ UNCHANGED vars
  <2>1. UNCHANGED <<sessions, minted, families, req>>
    BY <1>5 DEF Tick, vars
  <2> QED
    BY <2>1, NoMoveFamily DEF LiveIn, Live, Moving, At
<1> QED
  BY <1>1, <1>2, <1>3, <1>4, <1>5 DEF Next

\* A family nobody holds and nobody rotates is closed for good.
THEOREM DeadStayDead == Spec => DeadFamiliesStayDead
<1>1. ASSUME SessionsInv, [Next]_vars, NEW f \in Families, Dead(f)
      PROVE  Dead(f)'
  <2>1. f \in families /\ ~ Held(f) /\ ~ Rotating(f)
    BY <1>1 DEF Dead, Held, Rotating
  <2>2. CASE LoseStep
    BY <2>1, <2>2 DEF LoseStep, Dead, Held, Rotating
  <2>3. ASSUME NEW g \in Families, NEW s \in Sids, GainStep(g, s)
        PROVE  Dead(f)'
    <3>1. g # f
      BY <2>1, <2>3 DEF GainStep
    <3> QED
      BY <2>1, <2>3, <3>1 DEF GainStep, Dead, Held, Rotating
  <2> QED
    BY <1>1, <2>2, <2>3, FamilyStep
<1>2. SessionsInv /\ [Next]_vars => [\A f \in Families : Dead(f) => Dead(f)']_vars
  BY <1>1
<1> QED
  BY <1>2, InvHolds, PTL DEF Spec, DeadFamiliesStayDead

-----------------------------------------------------------------------------
(* The refinement of RefreshLineage: whatever the requests interleave, each *)
(* family is held by one token, moving between two, or closed for good,     *)
(* and every token is handed out once.                                      *)

\* What the refinement mapping makes of a family.
BarsOf(f) ==
    /\ f \notin families => phaseBar[f] = "unopened" /\ holderBar[f] = NoToken
    /\ \A s \in Sids : LiveIn(s, f) => phaseBar[f] = "held" /\ holderBar[f] = s
    /\ f \in families /\ ~ Held(f) /\ Rotating(f) =>
          phaseBar[f] = "moving" /\ holderBar[f] = NoToken
    /\ f \in families /\ ~ Held(f) /\ ~ Rotating(f) =>
          phaseBar[f] = "closed" /\ holderBar[f] = NoToken

\* The refinement mapping's phase, at a family.
LEMMA PhaseBar ==
    ASSUME NEW f \in Families
    PROVE  phaseBar[f] = CASE f \notin families -> "unopened"
                           [] Held(f) -> "held"
                           [] Rotating(f) -> "moving"
                           [] OTHER -> "closed"
BY DEF phaseBar, Held, Rotating

\* The refinement mapping's holder, at a family.
LEMMA HolderBar ==
    ASSUME NEW f \in Families
    PROVE  holderBar[f] = IF Held(f) THEN CHOOSE s \in Sids : LiveIn(s, f)
                                     ELSE NoToken
BY DEF holderBar, Held

\* A family is held or rotating, never both, and only when opened.
LEMMA HeldOpen ==
    ASSUME SessionsInv, NEW f \in Families
    PROVE  /\ Held(f) => f \in families
           /\ Rotating(f) => f \in families
           /\ ~ (Held(f) /\ Rotating(f))
           /\ \A s, t \in Sids : LiveIn(s, f) /\ LiveIn(t, f) => s = t
BY DEF SessionsInv, Linked, SingleHolder, Held, Rotating, LiveIn, Live, Moving, At

\* In every state of the invariant the mapping is defined.
LEMMA Bars == SessionsInv => \A f \in Families : BarsOf(f)
<1> SUFFICES ASSUME SessionsInv, NEW f \in Families PROVE BarsOf(f)
  OBVIOUS
<1>1. ASSUME NEW s \in Sids, LiveIn(s, f)
      PROVE  phaseBar[f] = "held" /\ holderBar[f] = s
  <2>1. Held(f) /\ f \in families
    BY <1>1, HeldOpen DEF Held
  <2>2. (CHOOSE t \in Sids : LiveIn(t, f)) = s
    BY <1>1, HeldOpen
  <2> QED
    BY <2>1, <2>2, PhaseBar, HolderBar, HeldOpen
<1>2. f \notin families => ~ Held(f) /\ ~ Rotating(f)
  BY HeldOpen
<1>3. ~ Held(f) => holderBar[f] = NoToken
  BY HolderBar
<1> QED
  BY <1>1, <1>2, <1>3, PhaseBar DEF BarsOf

\* The mapping always yields phases and holders of the right kind.
LEMMA BarTypes ==
    SessionsInv => \A f \in Families : /\ phaseBar[f] \in Lineage!Phases
                                       /\ holderBar[f] \in Sids \cup {NoToken}
<1> SUFFICES ASSUME SessionsInv, NEW f \in Families
             PROVE  /\ phaseBar[f] \in Lineage!Phases
                    /\ holderBar[f] \in Sids \cup {NoToken}
  OBVIOUS
<1>1. BarsOf(f)
  BY Bars
<1> QED
  BY <1>1 DEF BarsOf, Held, Lineage!Phases

\* Initial states map to initial states.
LEMMA InitRefines == Init => Lineage!Init
<1> SUFFICES ASSUME Init PROVE Lineage!Init
  OBVIOUS
<1>1. SessionsInv /\ families = {} /\ minted = {}
  BY InitInv, SessionsAssumption DEF Init
<1>2. \A f \in Families : phaseBar[f] = "unopened" /\ holderBar[f] = NoToken
  BY <1>1, Bars DEF BarsOf
<1>3. /\ phaseBar = [f \in Families |-> phaseBar[f]]
      /\ holderBar = [f \in Families |-> holderBar[f]]
  BY DEF phaseBar, holderBar
<1> QED
  BY <1>1, <1>2, <1>3 DEF Lineage!Init

\* One family, one step in which no token is handed out.
LEMMA LoseRefines ==
    ASSUME SessionsInv, SessionsInv', LoseStep, NEW f \in Families,
           BarsOf(f), BarsOf(f)'
    PROVE  /\ Lineage!HandsOver(f) \/ Lineage!Closes(f) \/ Lineage!Keeps(f)
           /\ ~ Lineage!Gains(f)
<1>1. /\ f \in families' <=> f \in families
      /\ \A s \in Sids : LiveIn(s, f)' => LiveIn(s, f)
      /\ Rotating(f)' => Rotating(f) \/ Held(f)
  BY DEF LoseStep
<1>2. CASE f \notin families
  BY <1>1, <1>2 DEF BarsOf, Lineage!Keeps, Lineage!Gains
<1>3. CASE Held(f)'
  <2>1. PICK s \in Sids : LiveIn(s, f)'
    BY <1>3 DEF Held
  <2>2. phaseBar[f] = "held" /\ holderBar[f] = s
        /\ phaseBar'[f] = "held" /\ holderBar'[f] = s
    BY <1>1, <2>1 DEF BarsOf
  <2> QED
    BY <2>2 DEF Lineage!Keeps, Lineage!Gains
<1>4. CASE f \in families /\ ~ Held(f)'
  <2>1. /\ phaseBar'[f] \in {"moving", "closed"}
        /\ holderBar'[f] = NoToken
        /\ phaseBar'[f] = "moving" => Rotating(f)'
    BY <1>1, <1>4 DEF BarsOf
  <2>2. CASE Held(f)
    <3>1. phaseBar[f] = "held"
      BY <2>2 DEF Held, BarsOf
    <3> QED
      BY <2>1, <3>1 DEF Lineage!HandsOver, Lineage!Closes, Lineage!Gains
  <2>3. CASE ~ Held(f)
    <3>1. /\ phaseBar[f] \in {"moving", "closed"}
          /\ holderBar[f] = NoToken
          /\ phaseBar[f] = "closed" => ~ Rotating(f)
      BY <1>4, <2>3 DEF BarsOf
    <3> QED
      BY <1>1, <2>1, <2>3, <3>1 DEF Lineage!Closes, Lineage!Keeps, Lineage!Gains
  <2> QED
    BY <2>2, <2>3
<1> QED
  BY <1>2, <1>3, <1>4

\* One family, the step that hands out token s in family g.
LEMMA GainRefines ==
    ASSUME SessionsInv, SessionsInv', NEW g \in Families, NEW s \in Sids,
           GainStep(g, s), NEW f \in Families, BarsOf(f), BarsOf(f)'
    PROVE  /\ f = g => Lineage!Gains(f) /\ holderBar'[f] = s
           /\ f # g => Lineage!Keeps(f) /\ ~ Lineage!Gains(f)
<1>1. CASE f = g
  <2>1. LiveIn(s, f)'
    BY <1>1 DEF GainStep
  <2>2. phaseBar'[f] = "held" /\ holderBar'[f] = s
    BY <2>1 DEF BarsOf
  <2>3. phaseBar[f] \in {"unopened", "moving"}
    BY <1>1, HeldOpen DEF GainStep, BarsOf
  <2> QED
    BY <1>1, <2>2, <2>3 DEF GainStep, Lineage!Gains
<1>2. CASE f # g
  <2>1. /\ f \in families' <=> f \in families
        /\ \A t \in Sids : LiveIn(t, f)' <=> LiveIn(t, f)
        /\ Rotating(f)' <=> Rotating(f)
    BY <1>2 DEF GainStep
  <2>2. Held(f)' <=> Held(f)
    BY <2>1 DEF Held
  <2>3. CASE Held(f)
    <3>1. PICK t \in Sids : LiveIn(t, f)
      BY <2>3 DEF Held
    <3> QED
      BY <1>2, <2>1, <3>1 DEF BarsOf, Lineage!Keeps, Lineage!Gains
  <2>4. CASE ~ Held(f)
    BY <1>2, <2>1, <2>2, <2>4 DEF BarsOf, Lineage!Keeps, Lineage!Gains
  <2> QED
    BY <2>3, <2>4
<1> QED
  BY <1>1, <1>2

\* Every step maps to a step of the lineage or to a stutter.
LEMMA NextRefines ==
    ASSUME SessionsInv, SessionsInv', [Next]_vars,
           \A f \in Families : BarsOf(f), \A f \in Families : BarsOf(f)',
           \A f \in Families : /\ phaseBar'[f] \in Lineage!Phases
                               /\ holderBar'[f] \in Sids \cup {NoToken}
    PROVE  Lineage!Next
<1>1. /\ phaseBar' \in [Families -> Lineage!Phases]
      /\ holderBar' \in [Families -> Sids \cup {NoToken}]
  <2>1. /\ phaseBar' = [f \in Families |-> phaseBar'[f]]
        /\ holderBar' = [f \in Families |-> holderBar'[f]]
    BY DEF phaseBar, holderBar
  <2> QED
    BY <2>1
<1>2. CASE LoseStep
  <2>1. \A f \in Families :
           /\ Lineage!HandsOver(f) \/ Lineage!Closes(f) \/ Lineage!Keeps(f)
           /\ ~ Lineage!Gains(f)
    BY <1>2, LoseRefines
  <2>2. minted' = minted
    BY <1>2 DEF LoseStep
  <2> QED
    BY <1>1, <2>1, <2>2 DEF Lineage!Next
<1>3. ASSUME NEW g \in Families, NEW s \in Sids, GainStep(g, s)
      PROVE  Lineage!Next
  <2>1. \A f \in Families :
           /\ f = g => Lineage!Gains(f) /\ holderBar'[f] = s
           /\ f # g => Lineage!Keeps(f) /\ ~ Lineage!Gains(f)
    BY <1>3, GainRefines
  <2>2. {f \in Families : Lineage!Gains(f)} = {g}
    BY <2>1
  <2>3. minted' = minted \cup {s}
    BY <1>3 DEF GainStep
  <2>4. minted' = minted \cup
                     {holderBar'[f] : f \in {h \in Families : Lineage!Gains(h)}}
    BY <2>1, <2>2, <2>3
  <2> QED
    BY <1>1, <2>1, <2>4 DEF Lineage!Next
<1> QED
  BY <1>2, <1>3, FamilyStep

\* The sessions table implements the abstract lineage of every family.
THEOREM Refines == Spec => ImplementsLineage
<1>1. SessionsInv /\ SessionsInv' /\ [Next]_vars => Lineage!Next
  <2>1. (SessionsInv => \A f \in Families : BarsOf(f))'
    BY Bars, PTL
  <2>2. (SessionsInv => \A f \in Families : /\ phaseBar[f] \in Lineage!Phases
                                            /\ holderBar[f] \in Sids \cup {NoToken})'
    BY BarTypes, PTL
  <2> QED
    BY <2>1, <2>2, Bars, NextRefines
<1> QED
  BY <1>1, InitRefines, InvHolds, PTL DEF Spec, ImplementsLineage, Lineage!Spec

-----------------------------------------------------------------------------
(* Dates: what one step does to a row, to a request and to the set of rows. *)

\* What one step may do to a row that stays in the table: only a live row is
\* given a date, and it is the clock reading of a request being served.
RowStep(s) ==
    /\ sessions'[s].user = sessions[s].user
    /\ sessions'[s].family = sessions[s].family
    /\ \/ sessions'[s].revokedAt = sessions[s].revokedAt
       \/ /\ sessions[s].revokedAt = Never
          /\ \E r \in Reqs : req[r] # Idle /\ sessions'[s].revokedAt \in SentAt(r)

\* revoke and revokeFamily touch revokedAt of rows that have none.
LEMMA RevokeRows ==
    ASSUME TypeOK, NEW r \in Reqs, req[r] # Idle, NEW S,
           NEW date \in SentAt(r), Revoke(S, date)
    PROVE  \A s \in DOMAIN sessions : RowStep(s)
<1>1. date \in Nat
  BY SentAtDate
<1>2. \A s \in DOMAIN sessions :
         /\ sessions'[s].user = sessions[s].user
         /\ sessions'[s].family = sessions[s].family
         /\ sessions'[s].revokedAt =
               IF s \in S /\ Live(s) THEN date ELSE sessions[s].revokedAt
  BY <1>1, RevokeEffect
<1> QED
  BY <1>2 DEF RowStep, Live

\* Every step: a row that stays keeps all but a revokedAt that was null.
LEMMA RowsStep ==
    ASSUME SessionsInv, [Next]_vars
    PROVE  \A s \in DOMAIN sessions \cap DOMAIN sessions' : RowStep(s)
<1> USE DEF SessionsInv
<1>1. ASSUME NEW u \in Users, NEW f \in Families, NEW date \in Nat, NEW s,
             Create(s, u, f, date)
      PROVE  \A t \in DOMAIN sessions : RowStep(t)
  <2>1. \A t \in DOMAIN sessions : sessions'[t] = sessions[t]
    BY <1>1, CreateEffect, SessionsAssumption DEF Linked
  <2> QED BY <2>1 DEF RowStep
<1>2. CASE \E u \in Users, f \in Families, s \in Sids : StartSession(u, f, s)
  BY <1>1, <1>2 DEF StartSession, TypeOK
<1>3. CASE UNCHANGED sessions
  BY <1>3 DEF RowStep
<1>4. ASSUME NEW r \in Reqs, Step(r)
      PROVE  \A s \in DOMAIN sessions \cap DOMAIN sessions' : RowStep(s)
  <2>1. CASE RotateClaim(r)
    BY <2>1, RevokeRows DEF RotateClaim, At
  <2>2. CASE RotateReread(r) \/ Fail(r)
    BY <1>3, <2>2 DEF RotateReread, Fail
  <2>3. CASE \E S : RevokesAndAnswers(r, S)
    BY <2>3, RevokeRows DEF RevokesAndAnswers
  <2>4. CASE \E s \in Sids : RotateCreate(r, s)
    <3>1. PICK s \in Sids : RotateCreate(r, s)
      BY <2>4
    <3>2. /\ req[r] # Idle /\ req[r].user \in Users /\ req[r].family \in Families
      BY <3>1, BusyPc DEF RotateCreate, At, Busy
    <3>3. PICK date \in SentAt(r) : Create(s, req[r].user, req[r].family, date)
      BY <3>1 DEF RotateCreate
    <3>4. date \in Nat
      BY <3>2, SentAtDate
    <3> QED
      BY <1>1, <3>2, <3>3, <3>4
  <2>5. CASE DeleteAccount(r)
    BY <2>5, DeleteEffect DEF RowStep
  <2> QED
    BY <1>4, <2>1, <2>2, <2>3, <2>4, <2>5, StepShapes
<1> QED
  BY <1>2, <1>3, <1>4 DEF Next, vars, RotateFind, CanActivate, Tick

\* The instant a session was revoked is written once.
THEOREM RevokedOnce == Spec => RevocationIsFinal
<1>1. ASSUME SessionsInv, [Next]_vars,
             NEW s \in DOMAIN sessions \cap DOMAIN sessions',
             sessions[s].revokedAt # Never
      PROVE  sessions'[s].revokedAt = sessions[s].revokedAt
  BY <1>1, RowsStep DEF RowStep
<1>2. SessionsInv /\ [Next]_vars =>
        [\A s \in DOMAIN sessions \cap DOMAIN sessions' :
            sessions[s].revokedAt # Never =>
                sessions'[s].revokedAt = sessions[s].revokedAt]_vars
  BY <1>1
<1> QED
  BY <1>2, InvHolds, PTL DEF Spec, RevocationIsFinal

-----------------------------------------------------------------------------
(* What a step does to a request. *)

Copies(q) ==
    /\ req'[q].sid = req[q].sid
    /\ req'[q].user = req[q].user
    /\ req'[q].family = req[q].family
    /\ req'[q].unused = req[q].unused
    /\ req'[q].at = req[q].at

\* It stays where it is, claims, or finds its token was used and has no excuse.
Advances(q) ==
    /\ req[q] # Idle
    /\ Copies(q)
    /\ \/ req'[q].pc = req[q].pc
       \/ req[q].pc = "claim" /\ req'[q].pc = "create"
       \/ req[q].pc = "claim" /\ req'[q].pc = "reread" /\ ~ Live(req[q].sid)
       \/ /\ req[q].pc = "reread"
          /\ req'[q].pc = "revokeFamily"
          /\ ~ WithinGrace(req[q].sid)

Arrives(q) ==
    /\ UNCHANGED <<now, users, sessions, minted, families>>
    /\ req'[q].pc \in {"claim"} \cup HandlerSteps
    /\ \E s \in DOMAIN sessions :
          /\ req'[q].sid = s
          /\ req'[q].user = sessions[s].user
          /\ req'[q].family = sessions[s].family
          /\ req'[q].unused = Live(s)
          /\ req'[q].at = now

ReqStep(q) == req'[q] = Idle \/ Advances(q) \/ Arrives(q)

\* A request that does not move makes a step of requests.
LEMMA StaysPut ==
    ASSUME NEW q \in Reqs, req'[q] = req[q]
    PROVE  ReqStep(q)
BY DEF ReqStep, Advances, Copies

\* A look-up starts one request with a copy of the row.
LEMMA ReadsReqs ==
    ASSUME SessionsInv, NEW r \in Reqs, NEW s \in DOMAIN sessions,
           NEW step \in {"claim"} \cup HandlerSteps, Reads(r, s, step),
           UNCHANGED <<now, users, sessions, minted, families>>
    PROVE  \A q \in Reqs : ReqStep(q)
<1>1. TypeOK /\ step \in RotateSteps \cup HandlerSteps
  BY DEF SessionsInv, RotateSteps
<1>2. Arrives(r) /\ \A q \in Reqs \ {r} : req'[q] = req[q]
  BY <1>1, ReadingEffect DEF Arrives
<1> QED
  BY <1>2, StaysPut DEF ReqStep

\* An answer ends one request and leaves the others.
LEMMA AnswerReqs ==
    ASSUME SessionsInv, NEW r \in Reqs, Answer(r)
    PROVE  \A q \in Reqs : ReqStep(q)
BY AnswerEffect, StaysPut DEF SessionsInv, ReqStep

\* Every step, seen from the requests.
LEMMA ReqsStep ==
    ASSUME SessionsInv, [Next]_vars
    PROVE  \A q \in Reqs : ReqStep(q)
<1> USE DEF SessionsInv
<1>1. ASSUME NEW r \in Reqs, NEW s \in Sids, RotateFind(r, s)
      PROVE  \A q \in Reqs : ReqStep(q)
  BY <1>1, ReadsReqs DEF RotateFind
<1>2. ASSUME NEW r \in Reqs, NEW s \in Sids, NEW step \in HandlerSteps,
             CanActivate(r, s, step)
      PROVE  \A q \in Reqs : ReqStep(q)
  BY <1>2, ReadsReqs DEF CanActivate, Live
<1>3. ASSUME NEW r \in Reqs, RotateClaim(r)
      PROVE  \A q \in Reqs : ReqStep(q)
  <2> DEFINE step == IF Live(req[r].sid) THEN "create" ELSE "reread"
  <2>1. req[r] # Idle /\ req[r].pc = "claim" /\ GoTo(r, step)
    BY <1>3 DEF RotateClaim, At
  <2>2. step \in RotateSteps \cup HandlerSteps
    BY DEF RotateSteps
  <2>3. /\ req'[r].pc = step
        /\ Copies(r)
        /\ \A q \in Reqs \ {r} : req'[q] = req[q]
    BY <2>1, <2>2, GoToEffect DEF Copies
  <2>4. Advances(r)
    BY <2>1, <2>3 DEF Advances
  <2> QED
    BY <2>3, <2>4, StaysPut DEF ReqStep
<1>4. ASSUME NEW r \in Reqs, RotateReread(r)
      PROVE  \A q \in Reqs : ReqStep(q)
  <2>1. CASE WithinGrace(req[r].sid)
    BY <1>4, <2>1, AnswerReqs DEF RotateReread
  <2>2. CASE ~ WithinGrace(req[r].sid)
    <3>1. req[r] # Idle /\ req[r].pc = "reread" /\ GoTo(r, "revokeFamily")
      BY <1>4, <2>2 DEF RotateReread, At
    <3>2. "revokeFamily" \in RotateSteps \cup HandlerSteps
      BY DEF RotateSteps
    <3>3. /\ req'[r].pc = "revokeFamily"
          /\ Copies(r)
          /\ \A q \in Reqs \ {r} : req'[q] = req[q]
      BY <3>1, <3>2, GoToEffect DEF Copies
    <3>4. Advances(r)
      BY <2>2, <3>1, <3>3 DEF Advances
    <3> QED
      BY <3>3, <3>4, StaysPut DEF ReqStep
  <2> QED
    BY <2>1, <2>2
<1>5. ASSUME NEW r \in Reqs, Step(r)
      PROVE  \A q \in Reqs : ReqStep(q)
  BY <1>3, <1>4, <1>5, AnswerReqs, StepShapes
     DEF RevokesAndAnswers, RotateCreate, DeleteAccount, Fail
<1>6. CASE UNCHANGED req
  BY <1>6, StaysPut
<1> QED
  BY <1>1, <1>2, <1>5, <1>6 DEF Next, vars, StartSession, Tick

-----------------------------------------------------------------------------
(* What a step does to the set of rows. *)

SameRows == DOMAIN sessions' = DOMAIN sessions /\ users' = users

Inserts(s) ==
    /\ s \notin minted
    /\ DOMAIN sessions' = DOMAIN sessions \cup {s}
    /\ users' = users
    /\ \/ sessions'[s].family \notin families
       \/ \E r \in Reqs : /\ req[r] # Idle
                          /\ sessions'[s].user = req[r].user
                          /\ sessions'[s].family = req[r].family

Deletes(u) ==
    /\ users' = users \ {u}
    /\ DOMAIN sessions' = DOMAIN sessions \ OfUser(u)

\* Every step, seen from the table: the same ids, an insert, a cascade.
LEMMA TableStep ==
    ASSUME SessionsInv, [Next]_vars
    PROVE  SameRows \/ (\E s \in Sids : Inserts(s)) \/ (\E u \in Users : Deletes(u))
<1> USE DEF SessionsInv
<1>1. ASSUME NEW u \in Users, NEW f \in Families, NEW s \in Sids,
             StartSession(u, f, s)
      PROVE  Inserts(s)
  <2>1. Create(s, u, f, now) /\ f \notin families /\ users' = users
    BY <1>1 DEF StartSession
  <2>2. /\ s \notin minted
        /\ DOMAIN sessions' = DOMAIN sessions \cup {s}
        /\ sessions'[s].family = f
    BY <2>1 DEF Create
  <2> QED
    BY <2>1, <2>2 DEF Inserts
<1>2. ASSUME NEW r \in Reqs, NEW s \in Sids, RotateCreate(r, s)
      PROVE  Inserts(s)
  <2>1. req[r] # Idle /\ users' = users
    BY <1>2 DEF RotateCreate, At
  <2>2. PICK date \in SentAt(r) : Create(s, req[r].user, req[r].family, date)
    BY <1>2 DEF RotateCreate
  <2>3. /\ s \notin minted
        /\ DOMAIN sessions' = DOMAIN sessions \cup {s}
        /\ sessions'[s].user = req[r].user
        /\ sessions'[s].family = req[r].family
    BY <2>2 DEF Create
  <2> QED
    BY <2>1, <2>3 DEF Inserts
<1>3. ASSUME NEW r \in Reqs, NEW S, RevokesAndAnswers(r, S)
      PROVE  SameRows
  BY <1>3 DEF RevokesAndAnswers, Revoke, SameRows
<1>4. ASSUME NEW r \in Reqs, RotateClaim(r)
      PROVE  SameRows
  BY <1>4 DEF RotateClaim, Revoke, SameRows
<1>5. ASSUME NEW r \in Reqs, DeleteAccount(r)
      PROVE  \E u \in Users : Deletes(u)
  <2>1. req[r].user \in Users
    BY <1>5, BusyPc DEF DeleteAccount, At, Busy
  <2> QED
    BY <1>5, <2>1, DeleteEffect DEF Deletes
<1>6. CASE UNCHANGED <<users, sessions>>
  BY <1>6 DEF SameRows
<1>7. ASSUME NEW r \in Reqs, Step(r)
      PROVE  SameRows \/ (\E s \in Sids : Inserts(s)) \/ (\E u \in Users : Deletes(u))
  BY <1>2, <1>3, <1>4, <1>5, <1>6, <1>7, StepShapes DEF RotateReread, Fail
<1> QED
  BY <1>1, <1>6, <1>7 DEF Next, vars, RotateFind, CanActivate, Tick

-----------------------------------------------------------------------------
(* A family belongs to one user, and a row disappears only with its user. *)

\* A row, or the request that read one, says that family f is user u's.
Owns(u, f) ==
    \/ \E s \in DOMAIN sessions : sessions[s].user = u /\ sessions[s].family = f
    \/ \E q \in Reqs : req[q] # Idle /\ req[q].user = u /\ req[q].family = f

OneOwner == \A u, v \in Users, f \in Families : Owns(u, f) /\ Owns(v, f) => u = v

GoneWithUser ==
    \A q \in Reqs : req[q] # Idle /\ req[q].sid \notin DOMAIN sessions =>
                       req[q].user \notin users

OwnerInv == SessionsInv /\ OneOwner /\ GoneWithUser

\* A request on its way was there before, or has just read its row.
LEMMA ReqOrigin ==
    ASSUME NEW q \in Reqs, ReqStep(q), req'[q] # Idle
    PROVE  \/ req[q] # Idle /\ Copies(q)
           \/ /\ UNCHANGED <<users, sessions>>
              /\ \E s \in DOMAIN sessions :
                    /\ req'[q].sid = s
                    /\ req'[q].user = sessions[s].user
                    /\ req'[q].family = sessions[s].family
BY DEF ReqStep, Advances, Arrives

\* An owner is known from before, or the family is new.
OpensFor(s, u, f) ==
    /\ Inserts(s)
    /\ f \notin families
    /\ sessions'[s].user = u
    /\ sessions'[s].family = f

\* Who owns a family owned it before, or has just opened it.
LEMMA OwnsStep ==
    ASSUME SessionsInv, [Next]_vars, NEW u \in Users, NEW f \in Families, Owns(u, f)'
    PROVE  Owns(u, f) \/ \E s \in Sids : OpensFor(s, u, f)
<1>1. ASSUME NEW s \in DOMAIN sessions',
             sessions'[s].user = u, sessions'[s].family = f
      PROVE  Owns(u, f) \/ \E t \in Sids : OpensFor(t, u, f)
  <2>1. CASE s \in DOMAIN sessions
    <3>1. RowStep(s)
      BY <2>1, RowsStep
    <3> QED BY <1>1, <2>1, <3>1 DEF RowStep, Owns
  <2>2. CASE s \notin DOMAIN sessions
    <3>1. s \in Sids /\ Inserts(s)
      BY <2>2, TableStep DEF SameRows, Inserts, Deletes
    <3> QED
      BY <1>1, <3>1 DEF Inserts, OpensFor, Owns
  <2> QED
    BY <2>1, <2>2
<1>2. ASSUME NEW q \in Reqs, req'[q] # Idle,
             req'[q].user = u, req'[q].family = f
      PROVE  Owns(u, f)
  BY <1>2, ReqsStep, ReqOrigin DEF Copies, Owns
<1> QED
  BY <1>1, <1>2 DEF Owns

\* A family has one owner, whatever step is taken.
LEMMA OwnerNext ==
    ASSUME OwnerInv, [Next]_vars
    PROVE  OwnerInv'
<1> USE DEF OwnerInv
<1>1. SessionsInv'
  BY NextInv
<1>2. ASSUME NEW u \in Users, NEW v \in Users, NEW f \in Families,
             Owns(u, f)', Owns(v, f)'
      PROVE  u = v
  <2>1. Owns(u, f) => f \in families
    BY DEF Owns, SessionsInv, Linked
  <2>2. Owns(v, f) => f \in families
    BY DEF Owns, SessionsInv, Linked
  <2>3. \A s, t \in Sids : OpensFor(s, u, f) /\ OpensFor(t, v, f) => u = v
    BY DEF OpensFor, Inserts, SessionsInv, Linked
  <2>4. Owns(u, f) \/ \E s \in Sids : OpensFor(s, u, f)
    BY <1>2, OwnsStep
  <2>5. Owns(v, f) \/ \E s \in Sids : OpensFor(s, v, f)
    BY <1>2, OwnsStep
  <2> QED
    BY <2>1, <2>2, <2>3, <2>4, <2>5 DEF OneOwner, OpensFor
<1>3. OneOwner'
  BY <1>2 DEF OneOwner
<1>4. ASSUME NEW q \in Reqs, req'[q] # Idle, req'[q].sid \notin DOMAIN sessions'
      PROVE  req'[q].user \notin users'
  <2>1. req[q] # Idle /\ Copies(q)
    BY <1>4, ReqsStep, ReqOrigin
  <2>2. CASE req[q].sid \notin DOMAIN sessions
    BY <2>1, <2>2, TableStep DEF GoneWithUser, Copies, SameRows, Inserts, Deletes
  <2>3. CASE req[q].sid \in DOMAIN sessions
    <3>1. PICK u \in Users : Deletes(u)
      BY <1>4, <2>1, <2>3, TableStep DEF Copies, SameRows, Inserts
    <3>2. req[q].sid \in OfUser(u)
      BY <1>4, <2>1, <2>3, <3>1 DEF Copies, Deletes
    <3>3. req[q].user = u
      <4>1. sessions[req[q].sid].user = u
        BY <3>2 DEF OfUser
      <4>2. sessions[req[q].sid].family = req[q].family
        BY <2>1, <2>3 DEF SessionsInv, Linked
      <4>3. req[q].user \in Users /\ req[q].family \in Families
        BY <2>1, BusyPc DEF SessionsInv, Busy
      <4> QED
        BY <2>1, <2>3, <4>1, <4>2, <4>3 DEF OneOwner, Owns
    <3> QED
      BY <2>1, <3>1, <3>3 DEF Copies, Deletes
  <2> QED
    BY <2>2, <2>3
<1> QED
  BY <1>1, <1>3, <1>4 DEF GoneWithUser

-----------------------------------------------------------------------------
(* Requests are answered in time, and what they found is still recent. *)

\* A request that found its token unused finds it used only recently; one that
\* is about to revoke a family all the same belongs to a deleted account.
OnTime(q) ==
    /\ req[q].at <= now /\ now <= req[q].at + Lag
    /\ req[q].pc \in {"claim", "reread"} /\ req[q].unused
          /\ req[q].sid \in DOMAIN sessions
          /\ sessions[req[q].sid].revokedAt # Never
       => req[q].at <= sessions[req[q].sid].revokedAt + Lag
    /\ req[q].pc = "reread" => ~ Live(req[q].sid)
    /\ req[q].pc = "revokeFamily" /\ req[q].unused => req[q].user \notin users

TimelyInv == OwnerInv /\ \A q \in Reqs : req[q] # Idle => OnTime(q)

\* The clock stands still, or advances alone while all are within Lag.
LEMMA TimeStep ==
    ASSUME [Next]_vars
    PROVE  \/ now' = now
           \/ /\ UNCHANGED <<users, sessions, req>>
              /\ now' = now + 1
              /\ \A q \in Reqs : req[q] # Idle => now - req[q].at < Lag
<1>1. ASSUME NEW r \in Reqs, Step(r) PROVE now' = now
  BY <1>1, StepShapes
     DEF RotateClaim, RotateReread, RevokesAndAnswers, RotateCreate, DeleteAccount, Fail
<1> QED
  BY <1>1 DEF Next, vars, StartSession, RotateFind, CanActivate, Tick

\* Every step keeps each request's dates within Lag.
LEMMA TimelyNext ==
    ASSUME TimelyInv, [Next]_vars, 2 * Lag < Grace,
           NEW q \in Reqs, req'[q] # Idle
    PROVE  OnTime(q)'
<1> USE DEF TimelyInv, OwnerInv
<1>1. /\ Lag \in Nat /\ now \in Nat
      /\ \A r \in Reqs : req[r] # Idle =>
            req[r] \in Busy /\ req[r].at \in Nat /\ req[r].sid \in Sids
  BY SessionsAssumption, BusyPc DEF SessionsInv, TypeOK, Busy
<1>2. CASE UNCHANGED <<users, sessions, req>> /\ now' = now + 1
           /\ \A r \in Reqs : req[r] # Idle => now - req[r].at < Lag
  BY <1>1, <1>2 DEF OnTime, Live
<1>3. CASE now' = now /\ Arrives(q)
  <2>1. PICK s \in DOMAIN sessions :
           /\ req'[q].sid = s
           /\ req'[q].unused = Live(s)
           /\ req'[q].at = now
    BY <1>3 DEF Arrives
  <2>2. /\ sessions' = sessions
        /\ req'[q].pc # "reread" /\ req'[q].pc # "revokeFamily"
    BY <1>3 DEF Arrives, HandlerSteps
  <2>3. req'[q].unused => sessions'[s].revokedAt = Never
    BY <2>1, <2>2 DEF Live
  <2> QED
    BY <1>1, <1>3, <2>1, <2>2, <2>3 DEF OnTime
<1>4. CASE now' = now /\ Advances(q)
  <2>1. req[q] # Idle /\ Copies(q) /\ OnTime(q) /\ req[q].sid \in minted
    BY <1>4 DEF Advances, SessionsInv, Linked
  <2> DEFINE s == req[q].sid
  <2>2. /\ req'[q].at <= now' /\ now' <= req'[q].at + Lag
    BY <1>4, <2>1 DEF OnTime, Copies
  <2>3. s \in DOMAIN sessions' => s \in DOMAIN sessions /\ RowStep(s)
    BY <2>1, TableStep, RowsStep DEF SameRows, Inserts, Deletes
  <2>4. ~ Live(s) => \A t \in Sids : t = s => ~ Live(t)'
    BY <2>3 DEF Live, RowStep
  <2>5. \A u : u \notin users => u \notin users'
    BY TableStep DEF SameRows, Inserts, Deletes
  <2>6. ASSUME req'[q].pc \in {"claim", "reread"}, req[q].unused,
               s \in DOMAIN sessions', sessions'[s].revokedAt # Never
        PROVE  req[q].at <= sessions'[s].revokedAt + Lag
    <3>1. req[q].pc \in {"claim", "reread"}
      BY <1>4, <2>6 DEF Advances
    <3>2. s \in DOMAIN sessions /\ RowStep(s)
      BY <2>3, <2>6
    <3>3. CASE sessions'[s].revokedAt = sessions[s].revokedAt
      BY <2>1, <2>6, <3>1, <3>2, <3>3 DEF OnTime
    <3>4. ASSUME NEW r \in Reqs, req[r] # Idle, sessions'[s].revokedAt \in SentAt(r)
          PROVE  req[q].at <= sessions'[s].revokedAt + Lag
      <4>1. req[q].at <= now /\ now <= req[r].at + Lag
        BY <2>1, <3>4 DEF OnTime
      <4>2. req[r].at <= sessions'[s].revokedAt /\ sessions'[s].revokedAt \in Nat
        BY <1>1, <3>4, SentAtDate DEF SessionsInv
      <4> QED
        BY <1>1, <2>1, <3>4, <4>1, <4>2
    <3> QED
      BY <3>2, <3>3, <3>4 DEF RowStep
  <2>7. req'[q].pc = "reread" => \A t \in Sids : t = s => ~ Live(t)'
    BY <1>4, <2>1, <2>4 DEF Advances, OnTime
  <2>8. ASSUME req'[q].pc = "revokeFamily", req[q].unused
        PROVE  req[q].user \notin users
    <3>1. CASE req[q].pc = "revokeFamily"
      BY <2>1, <2>8, <3>1 DEF OnTime
    <3>2. CASE req[q].pc = "reread" /\ ~ WithinGrace(s)
      <4>1. ASSUME s \in DOMAIN sessions PROVE FALSE
        <5>1. sessions[s].revokedAt # Never /\ sessions[s].revokedAt \in Nat
          BY <2>1, <3>2, <4>1 DEF OnTime, Live, SessionsInv, TypeOK, Row
        <5>2. req[q].at <= sessions[s].revokedAt + Lag /\ now <= req[q].at + Lag
          BY <2>1, <2>8, <3>2, <4>1, <5>1 DEF OnTime
        <5>3. ~ (now - sessions[s].revokedAt < Grace)
          BY <3>2, <4>1, <5>1 DEF WithinGrace
        <5>4. Grace \in Nat /\ req[q].at \in Nat
          BY <1>1, <2>1, SessionsAssumption
        <5> QED
          BY <1>1, <5>1, <5>2, <5>3, <5>4
      <4> QED
        BY <2>1, <4>1 DEF GoneWithUser
    <3> QED
      BY <1>4, <2>8, <3>1, <3>2 DEF Advances
  <2> QED
    BY <1>1, <2>1, <2>2, <2>5, <2>6, <2>7, <2>8 DEF OnTime, Copies
<1> QED
  BY <1>2, <1>3, <1>4, TimeStep, ReqsStep DEF ReqStep, Advances, OwnerInv

\* OnTime of every request, as long as the process answers in time.
THEOREM TimelyHolds ==
    ASSUME 2 * Lag < Grace
    PROVE  Spec => []TimelyInv
<1>1. Init => TimelyInv
  <2> SUFFICES ASSUME Init PROVE TimelyInv
    OBVIOUS
  <2>1. DOMAIN sessions = {} /\ \A q \in Reqs : req[q] = Idle
    BY DEF Init
  <2> QED
    BY <2>1, InitInv, SessionsAssumption
       DEF TimelyInv, OwnerInv, OneOwner, Owns, GoneWithUser
<1>2. TimelyInv /\ [Next]_vars => TimelyInv'
  BY TimelyNext, OwnerNext DEF TimelyInv
<1> QED
  BY <1>1, <1>2, PTL DEF Spec

\* With every request answered within Lag and the grace period more than twice
\* that, two refreshes that found the same token unused never revoke a session.
THEOREM SimultaneousIsNotTheft ==
    ASSUME 2 * Lag < Grace
    PROVE  Spec => SimultaneousRefreshIsNotTheft
<1>1. ASSUME TimelyInv, NEW r \in Reqs, RotateRevokeFamily(r), req[r].unused
      PROVE  UNCHANGED sessions
  <2>1. /\ req[r] # Idle /\ req[r] \in Busy
        /\ req[r].user \notin users
        /\ req[r].user \in Users /\ req[r].family \in Families
    BY <1>1, BusyPc
       DEF RotateRevokeFamily, At, TimelyInv, OwnerInv, SessionsInv, OnTime, Busy
  <2>2. OfFamily(req[r].family) = {}
    <3>1. ASSUME NEW s \in DOMAIN sessions, sessions[s].family = req[r].family
          PROVE  FALSE
      <4>1. sessions[s].user \in users /\ sessions[s].user \in Users
        BY <1>1 DEF TimelyInv, OwnerInv, SessionsInv, SessionsHaveUsers, TypeOK, Row
      <4> QED
        BY <1>1, <2>1, <3>1, <4>1 DEF TimelyInv, OwnerInv, OneOwner, Owns
    <3> QED
      BY <3>1 DEF OfFamily
  <2>3. PICK date \in SentAt(r) : Revoke({}, date)
    BY <1>1, <2>2 DEF RotateRevokeFamily
  <2>4. sessions' = [s \in DOMAIN sessions |-> sessions[s]]
    BY <2>3 DEF Revoke
  <2>5. sessions \in [DOMAIN sessions -> Row]
    BY <1>1 DEF TimelyInv, OwnerInv, SessionsInv, TypeOK
  <2> QED
    BY <2>4, <2>5
<1>2. TimelyInv /\ [Next]_vars =>
        [\A r \in Reqs :
            RotateRevokeFamily(r) /\ req[r].unused => UNCHANGED sessions]_vars
  BY <1>1
<1>3. Spec => []TimelyInv
  BY TimelyHolds
<1> QED
  BY <1>2, <1>3, PTL DEF Spec, SimultaneousRefreshIsNotTheft

-----------------------------------------------------------------------------
(* A family whose tokens have all expired gets no other.  Nothing writes    *)
(* expiresAt after the insert, so a step can end a family's expiry only by  *)
(* inserting a row, which takes a refresh that is already under way, or by  *)
(* letting a refresh in, which takes a token that has not expired.          *)

\* The rows of f are among those there were, with the same expiry, no refresh
\* of f begins, and the clock does not go back.
KeepsExpired(f) ==
    /\ families \subseteq families'
    /\ DOMAIN sessions' \subseteq DOMAIN sessions
    /\ \A s \in DOMAIN sessions' : /\ sessions'[s].family = sessions[s].family
                                   /\ sessions'[s].expiresAt = sessions[s].expiresAt
    /\ \A r \in Reqs : Redeeming(r, f)' => Redeeming(r, f)
    /\ now' = now \/ now' = now + 1

\* A step that keeps a family's rows and refreshes keeps it expired.
LEMMA KeptExpired ==
    ASSUME TypeOK, NEW f \in Families, Expired(f), KeepsExpired(f)
    PROVE  Expired(f)'
<1>1. f \in families' /\ \A r \in Reqs : ~ Redeeming(r, f)'
  BY DEF Expired, KeepsExpired
<1>2. ASSUME NEW s \in DOMAIN sessions', sessions'[s].family = f
      PROVE  sessions'[s].expiresAt <= now'
  <2>1. s \in OfFamily(f) /\ sessions'[s].expiresAt = sessions[s].expiresAt
    BY <1>2 DEF KeepsExpired, OfFamily
  <2>2. sessions[s] \in Row /\ now \in Nat
    BY <2>1 DEF TypeOK, OfFamily
  <2> QED
    BY <2>1, <2>2 DEF Expired, KeepsExpired, Row
<1> QED
  BY <1>1, <1>2 DEF Expired, OfFamily

\* A revocation writes revokedAt alone.
LEMMA RevokeKeepsRows ==
    ASSUME TypeOK, NEW S, NEW date, Revoke(S, date)
    PROVE  /\ DOMAIN sessions' = DOMAIN sessions
           /\ \A s \in DOMAIN sessions' :
                 /\ sessions'[s].family = sessions[s].family
                 /\ sessions'[s].expiresAt = sessions[s].expiresAt
<1>1. DOMAIN sessions' = DOMAIN sessions
  BY DEF Revoke
<1>2. ASSUME NEW s \in DOMAIN sessions
      PROVE  /\ sessions'[s].family = sessions[s].family
             /\ sessions'[s].expiresAt = sessions[s].expiresAt
  <2>1. sessions[s] \in Row
    BY DEF TypeOK
  <2>2. sessions'[s] = sessions[s] \/ sessions'[s] = [sessions[s] EXCEPT !.revokedAt = date]
    BY DEF Revoke
  <2> QED
    BY <2>1, <2>2 DEF Row
<1> QED
  BY <1>1, <1>2

\* A request that only answers redeems nothing.
LEMMA AnswerKeeps ==
    ASSUME TypeOK, NEW r \in Reqs, Answer(r), NEW f \in Families
    PROVE  \A q \in Reqs : Redeeming(q, f)' => Redeeming(q, f)
BY AnswerEffect DEF Redeeming, At

\* A request that goes on within the same family redeems nothing new, unless
\* it begins to; and it was redeeming when it was at its claim.
LEMMA ClaimKeeps ==
    ASSUME SessionsInv, NEW r \in Reqs, RotateClaim(r),
           NEW f \in Families, Expired(f)
    PROVE  Expired(f)'
<1>1. TypeOK /\ req[r] # Idle /\ req[r].family # f
  BY DEF RotateClaim, SessionsInv, At, Expired, Redeeming
<1>2. PICK date \in SentAt(r) : Revoke({req[r].sid}, date)
  BY DEF RotateClaim
<1>3. PICK step \in RotateSteps : GoTo(r, step)
  <2>1. "create" \in RotateSteps /\ "reread" \in RotateSteps
    BY DEF RotateSteps
  <2> QED
    BY <2>1 DEF RotateClaim
<1>4. req'[r].family = req[r].family /\ \A q \in Reqs \ {r} : req'[q] = req[q]
  BY <1>1, <1>3, GoToEffect
<1>5. \A q \in Reqs : Redeeming(q, f)' => Redeeming(q, f)
  BY <1>1, <1>4 DEF Redeeming, At
<1>6. now' = now /\ families' = families
  BY DEF RotateClaim
<1>7. KeepsExpired(f)
  BY <1>1, <1>2, <1>5, <1>6, RevokeKeepsRows DEF KeepsExpired
<1> QED
  BY <1>1, <1>7, KeptExpired

\* The second look of a refresh gives nobody a token.
LEMMA RereadKeeps ==
    ASSUME SessionsInv, NEW r \in Reqs, RotateReread(r),
           NEW f \in Families, Expired(f)
    PROVE  Expired(f)'
<1>1. TypeOK /\ req[r] # Idle
  BY DEF RotateReread, SessionsInv, At
<1>2. \A q \in Reqs : Redeeming(q, f)' => Redeeming(q, f)
  <2>1. CASE Answer(r)
    BY <1>1, <2>1, AnswerKeeps
  <2>2. CASE GoTo(r, "revokeFamily")
    <3>1. "revokeFamily" \in RotateSteps
      BY DEF RotateSteps
    <3>2. req'[r].pc = "revokeFamily" /\ \A q \in Reqs \ {r} : req'[q] = req[q]
      BY <1>1, <2>2, <3>1, GoToEffect
    <3> QED
      BY <3>2 DEF Redeeming, At
  <2> QED
    BY <2>1, <2>2 DEF RotateReread
<1>3. KeepsExpired(f)
  BY <1>2 DEF RotateReread, KeepsExpired
<1> QED
  BY <1>1, <1>3, KeptExpired

\* The insert of a row for another family leaves those of f alone.
LEMMA InsertKeeps ==
    ASSUME SessionsInv, SessionsAssumption,
           NEW s \in Sids, NEW u \in Users, NEW g \in Families, NEW date \in Nat,
           Create(s, u, g, date), now' = now, families \subseteq families',
           NEW f \in Families, Expired(f), f # g,
           \A q \in Reqs : Redeeming(q, f)' => Redeeming(q, f)
    PROVE  Expired(f)'
<1>1. DOMAIN sessions \subseteq minted /\ TypeOK
  BY DEF SessionsInv, Linked
<1>2. /\ DOMAIN sessions' = DOMAIN sessions \cup {s}
      /\ \A t \in DOMAIN sessions : sessions'[t] = sessions[t]
      /\ sessions'[s].family = g
  BY <1>1, CreateEffect
<1>3. \A t \in DOMAIN sessions' : sessions'[t].family = f =>
         t \in OfFamily(f) /\ sessions'[t] = sessions[t]
  BY <1>2 DEF OfFamily
<1> QED
  BY <1>3 DEF Expired, OfFamily

\* The insert of a rotation is no insert into an expired family.
LEMMA CreateKeeps ==
    ASSUME SessionsInv, SessionsAssumption, NEW r \in Reqs, NEW s \in Sids,
           RotateCreate(r, s), NEW f \in Families, Expired(f)
    PROVE  Expired(f)'
<1>1. TypeOK /\ req[r] # Idle /\ req[r].family # f
  BY DEF RotateCreate, SessionsInv, At, Expired, Redeeming
<1>2. req[r].user \in Users /\ req[r].family \in Families
  BY <1>1, BusyPc DEF Busy
<1>3. PICK date \in SentAt(r) : Create(s, req[r].user, req[r].family, date)
  BY DEF RotateCreate
<1>4. date \in Nat
  BY <1>1, SentAtDate
<1>5. \A q \in Reqs : Redeeming(q, f)' => Redeeming(q, f)
  BY <1>1, AnswerKeeps DEF RotateCreate
<1>6. now' = now /\ families' = families
  BY DEF RotateCreate
<1> QED
  BY <1>1, <1>2, <1>3, <1>4, <1>5, <1>6, InsertKeeps

\* A login opens a family of its own.
LEMMA StartKeeps ==
    ASSUME SessionsInv, SessionsAssumption, NEW u \in Users, NEW g \in Families,
           NEW s \in Sids, StartSession(u, g, s), NEW f \in Families, Expired(f)
    PROVE  Expired(f)'
<1>1. now \in Nat /\ now' = now /\ families \subseteq families' /\ Create(s, u, g, now)
  BY DEF StartSession, SessionsInv, TypeOK
<1>2. f # g
  BY DEF StartSession, Expired
<1>3. \A q \in Reqs : Redeeming(q, f)' => Redeeming(q, f)
  BY DEF StartSession, Redeeming, At
<1> QED
  BY <1>1, <1>2, <1>3, InsertKeeps

\* A read lets a refresh in only with a token that has not expired.
LEMMA ReadKeeps ==
    ASSUME SessionsInv, NEW r \in Reqs, NEW s \in Sids, NEW f \in Families, Expired(f),
           RotateFind(r, s) \/ \E step \in HandlerSteps : CanActivate(r, s, step)
    PROVE  Expired(f)'
<1>1. TypeOK /\ s \in DOMAIN sessions
  BY DEF SessionsInv, RotateFind, CanActivate, Live
<1>2. PICK step \in {"claim"} \cup HandlerSteps : Reads(r, s, step)
  BY DEF RotateFind, CanActivate
<1>3. step \in RotateSteps \cup HandlerSteps
  BY <1>2 DEF RotateSteps
<1>4. sessions[s].family # f
  <2>1. sessions[s].expiresAt > now
    BY DEF RotateFind, CanActivate
  <2>2. sessions[s] \in Row /\ now \in Nat
    BY <1>1 DEF TypeOK
  <2> QED
    BY <1>1, <2>1, <2>2 DEF Expired, OfFamily, Row
<1>5. req'[r].family # f /\ \A q \in Reqs \ {r} : req'[q] = req[q]
  BY <1>1, <1>2, <1>3, <1>4, ReadingEffect
<1>6. \A q \in Reqs : Redeeming(q, f)' => Redeeming(q, f)
  BY <1>5 DEF Redeeming, At
<1>7. KeepsExpired(f)
  BY <1>6 DEF RotateFind, CanActivate, KeepsExpired
<1> QED
  BY <1>1, <1>7, KeptExpired

\* No statement of a handler revives an expired family.
LEMMA StepKeeps ==
    ASSUME SessionsInv, SessionsAssumption, NEW r \in Reqs, Step(r),
           NEW f \in Families, Expired(f)
    PROVE  Expired(f)'
<1> TypeOK
  BY DEF SessionsInv
<1>1. CASE RotateClaim(r)
  BY <1>1, ClaimKeeps
<1>2. CASE RotateReread(r)
  BY <1>2, RereadKeeps
<1>3. ASSUME NEW S, RevokesAndAnswers(r, S)
      PROVE  Expired(f)'
  <2>1. PICK date \in SentAt(r) : Revoke(S, date)
    BY <1>3 DEF RevokesAndAnswers
  <2>2. now' = now /\ families' = families /\ Answer(r)
    BY <1>3 DEF RevokesAndAnswers
  <2>3. KeepsExpired(f)
    BY <2>1, <2>2, RevokeKeepsRows, AnswerKeeps DEF KeepsExpired
  <2> QED
    BY <2>3, KeptExpired
<1>4. ASSUME NEW s \in Sids, RotateCreate(r, s)
      PROVE  Expired(f)'
  BY <1>4, CreateKeeps
<1>5. CASE DeleteAccount(r)
  <2>1. /\ DOMAIN sessions' \subseteq DOMAIN sessions
        /\ \A s \in DOMAIN sessions' : sessions'[s] = sessions[s]
        /\ now' = now /\ families' = families /\ Answer(r)
    BY <1>5 DEF DeleteAccount
  <2>2. KeepsExpired(f)
    BY <2>1, AnswerKeeps DEF KeepsExpired
  <2> QED
    BY <2>2, KeptExpired
<1>6. CASE Fail(r)
  <2>1. KeepsExpired(f)
    BY <1>6, AnswerKeeps DEF Fail, KeepsExpired
  <2> QED
    BY <2>1, KeptExpired
<1> QED
  BY <1>1, <1>2, <1>3, <1>4, <1>5, <1>6, StepShapes

\* No step revives an expired family.
LEMMA NextKeeps ==
    ASSUME SessionsInv, SessionsAssumption, [Next]_vars,
           NEW f \in Families, Expired(f)
    PROVE  Expired(f)'
<1> TypeOK
  BY DEF SessionsInv
<1>1. ASSUME NEW u \in Users, NEW g \in Families, NEW s \in Sids, StartSession(u, g, s)
      PROVE  Expired(f)'
  BY <1>1, StartKeeps
<1>2. ASSUME NEW r \in Reqs, NEW s \in Sids,
             RotateFind(r, s) \/ \E step \in HandlerSteps : CanActivate(r, s, step)
      PROVE  Expired(f)'
  BY <1>2, ReadKeeps
<1>3. ASSUME NEW r \in Reqs, Step(r)
      PROVE  Expired(f)'
  BY <1>3, StepKeeps
<1>4. CASE Tick
  <2>1. KeepsExpired(f)
    BY <1>4 DEF Tick, KeepsExpired, Redeeming, At
  <2> QED
    BY <2>1, KeptExpired
<1>5. CASE UNCHANGED vars
  BY <1>5 DEF vars, Expired, OfFamily, Redeeming, At
<1> QED
  BY <1>1, <1>2, <1>3, <1>4, <1>5 DEF Next

-----------------------------------------------------------------------------
\* For any numbers of users, tokens and requests and any times to live: once
\* every token of a family has expired and no refresh of it is under way, no
\* refresh of it ever is again, and no token of it is created.
THEOREM ExpiredStayExpired == Spec => ExpiredFamiliesStayExpired
<1>1. SessionsInv /\ [Next]_vars =>
         [\A f \in Families : Expired(f) => Expired(f)']_vars
  BY NextKeeps, SessionsAssumption
<1> QED
  BY <1>1, InvHolds, PTL DEF Spec, ExpiredFamiliesStayExpired
=============================================================================
