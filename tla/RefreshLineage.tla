--------------------------- MODULE RefreshLineage ---------------------------
(***************************************************************************)
(* What a family of refresh tokens promises, without saying how the        *)
(* service keeps the promise.  A login opens a family; from then on the    *)
(* family is either held by exactly one token, or it is moving from the    *)
(* token just redeemed to one not minted yet, or it is closed for good.    *)
(* Every token is minted once, for one family.                             *)
(*                                                                         *)
(* One step may touch many families (an account-wide logout closes them    *)
(* all), so a step is described family by family; only one family gains a  *)
(* token in a step.                                                        *)
(***************************************************************************)
CONSTANTS Families,   \* ids of the token families
          Tokens,     \* refresh tokens (one per session row)
          NoToken     \* what a family that is not held has for a holder

VARIABLES phase,      \* [Families -> Phases]
          holder,     \* the token that can be redeemed for each family
          minted      \* every token handed out so far

lineageVars == <<phase, holder, minted>>

Phases == {"unopened", "held", "moving", "closed"}

Init ==
    /\ phase = [f \in Families |-> "unopened"]
    /\ holder = [f \in Families |-> NoToken]
    /\ minted = {}

\* A family gains a token nobody has seen: its first one, or the successor
\* of the token whose hand-over was under way.
Gains(f) ==
    /\ phase[f] \in {"unopened", "moving"}
    /\ phase'[f] = "held"
    /\ holder'[f] \in Tokens \ minted

\* The holder is redeemed: no token of the family is good until the successor.
HandsOver(f) ==
    /\ phase[f] = "held"
    /\ phase'[f] = "moving"
    /\ holder'[f] = NoToken

\* Logout, reuse detection, deletion of the account, or a hand-over that was
\* cut short.  Nothing leads out of "closed".
Closes(f) ==
    /\ phase[f] \in {"held", "moving"}
    /\ phase'[f] = "closed"
    /\ holder'[f] = NoToken

Keeps(f) == phase'[f] = phase[f] /\ holder'[f] = holder[f]

Next ==
    /\ phase' \in [Families -> Phases]
    /\ holder' \in [Families -> Tokens \cup {NoToken}]
    /\ \A f \in Families : Gains(f) \/ HandsOver(f) \/ Closes(f) \/ Keeps(f)
    /\ \A f, g \in Families : Gains(f) /\ Gains(g) => f = g
    /\ minted' = minted \cup {holder'[f] : f \in {g \in Families : Gains(g)}}

Spec == Init /\ [][Next]_lineageVars
=============================================================================
