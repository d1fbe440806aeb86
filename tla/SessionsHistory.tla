--------------------------- MODULE SessionsHistory ---------------------------
(***************************************************************************)
(* Sessions with a history variable: the families that a user closed with  *)
(* logout-all.  It states what the tests say of it, which no single state  *)
(* of the table shows.                                                     *)
(***************************************************************************)
EXTENDS Sessions

VARIABLE loggedOut      \* families of a user who ran LogoutAll

historyVars == <<now, users, sessions, minted, families, req, loggedOut>>

FamiliesOf(u) == {sessions[s].family : s \in OfUser(u)}

HistoryInit == Init /\ loggedOut = {}

\* A step of Sessions, and the families it was meant to close.
HistoryNext ==
    /\ Next
    /\ loggedOut' = loggedOut \cup
          UNION {FamiliesOf(req[r].user) : r \in {q \in Reqs : LogoutAll(q)}}

HistorySpec == HistoryInit /\ [][HistoryNext]_historyVars

-----------------------------------------------------------------------------
\* test/auth.e2e-spec.ts:292: logout-all ends every session of the user.
LogoutAllEndsEverySession ==
    \A f \in loggedOut, s \in Sids : ~ LiveIn(s, f)

=============================================================================
