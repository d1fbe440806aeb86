----------------------------- MODULE AdminSeed -----------------------------
(***************************************************************************)
(* scripts/seed-admin.ts beside the running API: it looks SEED_ADMIN_EMAIL *)
(* up, then makes the account it found an ADMIN or, when it found none,    *)
(* creates one.  Meanwhile people register, move their email and delete    *)
(* their accounts, between the script's two statements too.                *)
(*                                                                         *)
(* Of users only the email and the role matter here; Credentials models    *)
(* what precedes the statements of the API, and what else a row holds.     *)
(***************************************************************************)
EXTENDS Naturals, FiniteSets

CONSTANTS
    Users,         \* the uuids of accounts
    Emails,        \* normalized emails, each with its blind index
    SeedEmail      \* SEED_ADMIN_EMAIL

ASSUME AdminSeedAssumption == SeedEmail \in Emails

VARIABLES
    accounts,      \* the table users: a function from the rows' ids to the rows
    born,          \* accounts created so far
    seed           \* what the script is doing

seedVars == <<accounts, born, seed>>

Roles == {"ADMIN", "CLIENT"}

\* `moved` is history: the account found has lost SeedEmail since.
Seed == [pc : {"off", "create", "done"}]
            \cup [pc : {"promote"}, user : Users, moved : BOOLEAN]

SeedTypeOK ==
    /\ DOMAIN accounts \subseteq born
    /\ born \subseteq Users
    /\ accounts \in [DOMAIN accounts -> [email : Emails, role : Roles]]
    /\ seed \in Seed

-----------------------------------------------------------------------------
SeedInit ==
    /\ accounts = [u \in {} |-> {}]
    /\ born = {}
    /\ seed = [pc |-> "off"]

\* emailHash is unique.
Free(e) == \A u \in DOMAIN accounts : accounts[u].email # e

Has(u, e) == u \in DOMAIN accounts /\ accounts[u].email = e
IsAdmin(u) == u \in DOMAIN accounts /\ accounts[u].role = "ADMIN"

\* users.create; a taken email is a conflict.
Create(u, e, role) ==
    /\ u \in Users \ born
    /\ Free(e)
    /\ born' = born \cup {u}
    /\ accounts' = [v \in DOMAIN accounts \cup {u} |->
                       IF v = u THEN [email |-> e, role |-> role] ELSE accounts[v]]

\* History: the account the script found loses the email it was found by.
Leaves(u) ==
    seed' = IF seed.pc = "promote" /\ seed.user = u
            THEN [seed EXCEPT !.moved = TRUE] ELSE seed

\* register: always a CLIENT.
Register(u, e) == Create(u, e, "CLIENT") /\ UNCHANGED seed

\* changeEmail: users.updateEmail.
UpdateEmail(u, e) ==
    /\ u \in DOMAIN accounts
    /\ Free(e)
    /\ accounts' = [accounts EXCEPT ![u].email = e]
    /\ Leaves(u)
    /\ UNCHANGED born

\* users.delete
DeleteAccount(u) ==
    /\ u \in DOMAIN accounts
    /\ accounts' = [v \in DOMAIN accounts \ {u} |-> accounts[v]]
    /\ Leaves(u)
    /\ UNCHANGED born

-----------------------------------------------------------------------------
(* scripts/seed-admin.ts; when it fails, the operator may start it again. *)

\* users.findByEmail
SeedFind ==
    /\ seed.pc \in {"off", "done"}
    /\ seed' = IF Free(SeedEmail)
               THEN [pc |-> "create"]
               ELSE [pc |-> "promote", moved |-> FALSE,
                     user |-> CHOOSE u \in DOMAIN accounts : Has(u, SeedEmail)]
    /\ UNCHANGED <<accounts, born>>

SeedEnds == seed' = [pc |-> "done"]
SeedFails == seed.pc \in {"create", "promote"} /\ seed' = [pc |-> "off"]

\* users.updateRole: fails when the row is gone.
SeedPromote ==
    /\ seed.pc = "promote"
    /\ seed.user \in DOMAIN accounts
    /\ accounts' = [accounts EXCEPT ![seed.user].role = "ADMIN"]
    /\ SeedEnds
    /\ UNCHANGED born

\* Mutant of SeedCreate: the role is left to its default.
SeedCreateClient(u) ==
    seed.pc = "create" /\ Create(u, SeedEmail, "CLIENT") /\ SeedEnds

\* users.create, with role ADMIN.
SeedCreate(u) ==
    seed.pc = "create" /\ Create(u, SeedEmail, "ADMIN") /\ SeedEnds

SeedStep ==
    \/ SeedFind \/ SeedPromote \/ \E u \in Users : SeedCreate(u)
    \/ SeedFails /\ UNCHANGED <<accounts, born>>

SeedNext ==
    \/ \E u \in Users, e \in Emails : Register(u, e) \/ UpdateEmail(u, e)
    \/ \E u \in Users : DeleteAccount(u)
    \/ SeedStep

SeedSpec == SeedInit /\ [][SeedNext]_seedVars

-----------------------------------------------------------------------------
(* Properties *)

\* README.md:43: the script creates an ADMIN with the email it was given or
\* promotes the account that has it.  When it reports success there is such an
\* ADMIN, though the email may have left the account since the script looked;
\* and nobody else becomes one, least of all when an account was registered or
\* deleted between the script's statements and it fails.
SuccessMeansAnAdmin ==
    [][LET new == {u \in DOMAIN accounts' : IsAdmin(u)' /\ ~ IsAdmin(u)} IN
       IF seed.pc \in {"create", "promote"} /\ seed'.pc = "done"
         THEN \E u \in DOMAIN accounts' :
                 /\ IsAdmin(u)'
                 /\ Has(u, SeedEmail)' \/ (seed.pc = "promote" /\ seed.moved)
                 /\ new \subseteq {u}
         ELSE new = {}]_seedVars
=============================================================================
