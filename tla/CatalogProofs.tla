--------------------------- MODULE CatalogProofs ---------------------------
(***************************************************************************)
(* Proofs about Catalog and AdminSeed: the constraints between the tables, *)
(* what a refusal of an administrator's write means, and whom the script   *)
(* makes an ADMIN, for any number of accounts, rows and requests.          *)
(***************************************************************************)
EXTENDS Catalog, TLAPS

-----------------------------------------------------------------------------
(* The accounts and the script *)

\* As long as the account the script found has kept its email, it has SeedEmail.
FoundBySeedEmail == seed.pc = "promote" /\ ~ seed.moved => Has(seed.user, SeedEmail)

SeedInv == SeedTypeOK /\ FoundBySeedEmail

AccountRow == [email : Emails, role : Roles]
Promoting == [pc : {"promote"}, user : Users, moved : BOOLEAN]

\* A script that is about to promote has an account to promote.
LEMMA SeedRecord ==
    ASSUME SeedTypeOK
    PROVE  /\ seed.pc \in {"off", "create", "done", "promote"}
           /\ seed.pc = "promote" => seed \in Promoting
           /\ seed.pc # "promote" => seed \in [pc : {"off", "create", "done"}]
BY DEF SeedTypeOK, Seed, Promoting

\* The columns of a row of users.
LEMMA AccountIs ==
    ASSUME NEW a \in AccountRow
    PROVE  /\ a.email \in Emails /\ a.role \in Roles
           /\ \A e \in Emails : /\ [a EXCEPT !.email = e] \in AccountRow
                                /\ [a EXCEPT !.email = e].email = e
                                /\ [a EXCEPT !.email = e].role = a.role
           /\ \A s \in Roles : /\ [a EXCEPT !.role = s] \in AccountRow
                               /\ [a EXCEPT !.role = s].role = s
                               /\ [a EXCEPT !.role = s].email = a.email
BY DEF AccountRow

\* A new account is added to the others.
LEMMA CreateEffect ==
    ASSUME SeedTypeOK, NEW u \in Users, NEW e \in Emails, NEW s \in Roles, Create(u, e, s)
    PROVE  /\ u \notin born /\ u \notin DOMAIN accounts /\ born' = born \cup {u}
           /\ DOMAIN accounts' = DOMAIN accounts \cup {u}
           /\ accounts' \in [DOMAIN accounts' -> AccountRow]
           /\ accounts'[u].email = e /\ accounts'[u].role = s
           /\ \A v \in DOMAIN accounts : accounts'[v] = accounts[v]
<1> DEFINE row == [email |-> e, role |-> s]
<1>1. row \in AccountRow /\ row.email = e /\ row.role = s
  BY DEF AccountRow
<1> HIDE DEF row
<1>2. /\ u \notin born /\ born' = born \cup {u}
      /\ accounts' = [v \in DOMAIN accounts \cup {u} |-> IF v = u THEN row ELSE accounts[v]]
  BY DEF Create, row
<1>3. u \notin DOMAIN accounts /\ accounts \in [DOMAIN accounts -> AccountRow]
  BY <1>2 DEF SeedTypeOK, AccountRow
<1> QED
  BY <1>1, <1>2, <1>3

\* Rows that change in one column.
LEMMA UpdateEmailEffect ==
    ASSUME SeedTypeOK, NEW u, NEW e \in Emails, UpdateEmail(u, e)
    PROVE  /\ u \in DOMAIN accounts
           /\ DOMAIN accounts' = DOMAIN accounts
           /\ accounts' \in [DOMAIN accounts' -> AccountRow]
           /\ accounts'[u].role = accounts[u].role
           /\ \A v \in DOMAIN accounts \ {u} : accounts'[v] = accounts[v]
<1> DEFINE row == [accounts[u] EXCEPT !.email = e]
<1>1. u \in DOMAIN accounts /\ accounts \in [DOMAIN accounts -> AccountRow]
  BY DEF UpdateEmail, SeedTypeOK, AccountRow
<1>2. row \in AccountRow /\ row.role = accounts[u].role
  BY <1>1, AccountIs
<1>3. accounts' = [accounts EXCEPT ![u] = row]
  BY DEF UpdateEmail
<1> HIDE DEF row
<1> QED
  BY <1>1, <1>2, <1>3

\* What SeedPromote does to each part of the state.
LEMMA SeedPromoteEffect ==
    ASSUME SeedTypeOK, SeedPromote
    PROVE  /\ seed.user \in DOMAIN accounts
           /\ DOMAIN accounts' = DOMAIN accounts
           /\ accounts' \in [DOMAIN accounts' -> AccountRow]
           /\ accounts'[seed.user].role = "ADMIN"
           /\ accounts'[seed.user].email = accounts[seed.user].email
           /\ \A v \in DOMAIN accounts \ {seed.user} : accounts'[v] = accounts[v]
<1>1. PICK u : u = seed.user
  OBVIOUS
<1> DEFINE row == [accounts[u] EXCEPT !.role = "ADMIN"]
<1>2. u \in DOMAIN accounts /\ accounts \in [DOMAIN accounts -> AccountRow]
  BY <1>1 DEF SeedPromote, SeedTypeOK, AccountRow
<1>3. "ADMIN" \in Roles
  BY DEF Roles
<1>4. row \in AccountRow /\ row.role = "ADMIN" /\ row.email = accounts[u].email
  BY <1>2, <1>3, AccountIs
<1>5. accounts' = [accounts EXCEPT ![u] = row]
  BY <1>1 DEF SeedPromote
<1> HIDE DEF row
<1> QED
  BY <1>1, <1>2, <1>4, <1>5

\* What an account that leaves its email does to the script's record of it.
LEMMA LeavesEffect ==
    ASSUME SeedTypeOK, NEW u, Leaves(u)
    PROVE  /\ seed' \in Seed /\ seed'.pc = seed.pc
           /\ seed.pc = "promote" => /\ seed'.user = seed.user
                                     /\ seed.user = u => seed'.moved
                                     /\ seed.user # u => seed' = seed
<1>1. CASE seed.pc = "promote" /\ seed.user = u
  <2>1. seed' = [seed EXCEPT !.moved = TRUE] /\ seed \in Promoting
    BY <1>1, SeedRecord DEF Leaves
  <2>2. seed' \in Promoting /\ seed'.user = seed.user /\ seed'.moved = TRUE /\ seed'.pc = "promote"
    BY <2>1 DEF Promoting
  <2> QED
    BY <1>1, <2>2 DEF Seed, Promoting
<1>2. CASE ~ (seed.pc = "promote" /\ seed.user = u)
  BY <1>2 DEF Leaves, SeedTypeOK
<1> QED
  BY <1>1, <1>2

\* Initially: the invariant of the script.
LEMMA SeedInvInit == SeedInit => SeedInv
<1> SUFFICES ASSUME SeedInit PROVE SeedInv
  OBVIOUS
<1>1. seed.pc = "off" /\ seed \in Seed
  BY DEF SeedInit, Seed
<1> QED
  BY <1>1 DEF SeedInit, SeedInv, SeedTypeOK, FoundBySeedEmail

\* SeedFind keeps the invariant.
LEMMA SeedFindInv == SeedInv /\ SeedFind => SeedInv'
<1> SUFFICES ASSUME SeedInv, SeedFind PROVE SeedInv'
  OBVIOUS
<1>0. SeedTypeOK /\ UNCHANGED <<accounts, born>>
  BY DEF SeedInv, SeedFind
<1>1. CASE Free(SeedEmail)
  <2>1. seed' = [pc |-> "create"]
    BY <1>1 DEF SeedFind
  <2>2. seed' \in Seed /\ seed'.pc = "create"
    BY <2>1 DEF Seed
  <2> QED
    BY <1>0, <2>2 DEF SeedInv, SeedTypeOK, FoundBySeedEmail
<1>2. CASE ~ Free(SeedEmail)
  <2>1. PICK u \in DOMAIN accounts : u = CHOOSE v \in DOMAIN accounts : Has(v, SeedEmail)
    BY <1>2 DEF Free, Has
  <2>2. Has(u, SeedEmail)
    BY <1>2, <2>1 DEF Free, Has
  <2>3. seed' = [pc |-> "promote", moved |-> FALSE, user |-> u]
    BY <1>2, <2>1 DEF SeedFind
  <2>4. u \in Users
    BY <1>0, <2>1 DEF SeedTypeOK
  <2>5. seed' \in Promoting /\ seed'.user = u
    BY <2>3, <2>4 DEF Promoting
  <2>6. FoundBySeedEmail'
    BY <1>0, <2>2, <2>5 DEF FoundBySeedEmail, Has
  <2> QED
    BY <1>0, <2>5, <2>6 DEF SeedInv, SeedTypeOK, Seed, Promoting
<1> QED
  BY <1>1, <1>2

\* The end of a run, good or bad, keeps the invariant of the script.
LEMMA SeedEndsInv ==
    ASSUME SeedEnds \/ SeedFails
    PROVE  seed' \in Seed /\ FoundBySeedEmail'
<1>1. seed' \in {[pc |-> "done"], [pc |-> "off"]}
  BY DEF SeedEnds, SeedFails
<1>2. seed' \in Seed /\ seed'.pc # "promote"
  BY <1>1 DEF Seed
<1> QED
  BY <1>2 DEF FoundBySeedEmail

\* Every step keeps the invariant of the script.
LEMMA SeedInvNext == SeedInv /\ [SeedNext]_seedVars => SeedInv'
<1> SUFFICES ASSUME SeedInv, [SeedNext]_seedVars PROVE SeedInv'
  OBVIOUS
<1>0. SeedTypeOK /\ SeedEmail \in Emails
  BY AdminSeedAssumption DEF SeedInv
<1>1. ASSUME NEW u \in Users, NEW e \in Emails, Register(u, e)
      PROVE  SeedInv'
  <2>1. Create(u, e, "CLIENT") /\ UNCHANGED seed /\ "CLIENT" \in Roles
    BY <1>1 DEF Register, Roles
  <2>2. /\ born' = born \cup {u} /\ DOMAIN accounts' = DOMAIN accounts \cup {u}
        /\ accounts' \in [DOMAIN accounts' -> AccountRow]
        /\ \A v \in DOMAIN accounts : accounts'[v] = accounts[v]
    BY <1>0, <2>1, CreateEffect
  <2> QED
    BY <1>0, <2>1, <2>2 DEF SeedInv, SeedTypeOK, FoundBySeedEmail, Has, AccountRow
<1>2. ASSUME NEW u \in Users, NEW e \in Emails, UpdateEmail(u, e)
      PROVE  SeedInv'
  <2>1. /\ DOMAIN accounts' = DOMAIN accounts
        /\ accounts' \in [DOMAIN accounts' -> AccountRow]
        /\ \A v \in DOMAIN accounts \ {u} : accounts'[v] = accounts[v]
    BY <1>0, <1>2, UpdateEmailEffect
  <2>2. Leaves(u) /\ UNCHANGED born
    BY <1>2 DEF UpdateEmail
  <2>3. /\ seed' \in Seed /\ seed'.pc = seed.pc
        /\ seed.pc = "promote" => /\ seed'.user = seed.user
                                  /\ seed.user = u => seed'.moved
                                  /\ seed.user # u => seed' = seed
    BY <1>0, <2>2, LeavesEffect
  <2>4. SeedTypeOK'
    BY <1>0, <2>1, <2>2, <2>3 DEF SeedTypeOK, AccountRow
  <2>5. FoundBySeedEmail'
    BY <2>1, <2>3 DEF SeedInv, FoundBySeedEmail, Has
  <2> QED
    BY <2>4, <2>5 DEF SeedInv
<1>3. ASSUME NEW u \in Users, DeleteAccount(u)
      PROVE  SeedInv'
  <2>1. /\ DOMAIN accounts' = DOMAIN accounts \ {u}
        /\ accounts' \in [DOMAIN accounts' -> AccountRow]
        /\ \A v \in DOMAIN accounts \ {u} : accounts'[v] = accounts[v]
    BY <1>0, <1>3 DEF DeleteAccount, SeedTypeOK, AccountRow
  <2>2. Leaves(u) /\ UNCHANGED born
    BY <1>3 DEF DeleteAccount
  <2>3. /\ seed' \in Seed /\ seed'.pc = seed.pc
        /\ seed.pc = "promote" => /\ seed'.user = seed.user
                                  /\ seed.user = u => seed'.moved
                                  /\ seed.user # u => seed' = seed
    BY <1>0, <2>2, LeavesEffect
  <2>4. SeedTypeOK'
    BY <1>0, <2>1, <2>2, <2>3 DEF SeedTypeOK, AccountRow
  <2>5. FoundBySeedEmail'
    BY <2>1, <2>3 DEF SeedInv, FoundBySeedEmail, Has
  <2> QED
    BY <2>4, <2>5 DEF SeedInv
<1>4. CASE SeedFind
  BY <1>4, SeedFindInv
<1>5. CASE SeedPromote
  <2>1. DOMAIN accounts' = DOMAIN accounts /\ accounts' \in [DOMAIN accounts' -> AccountRow]
    BY <1>0, <1>5, SeedPromoteEffect
  <2>2. SeedEnds /\ UNCHANGED born
    BY <1>5 DEF SeedPromote
  <2>3. seed' \in Seed /\ FoundBySeedEmail'
    BY <2>2, SeedEndsInv
  <2> QED
    BY <1>0, <2>1, <2>2, <2>3 DEF SeedInv, SeedTypeOK, AccountRow
<1>6. ASSUME NEW u \in Users, SeedCreate(u)
      PROVE  SeedInv'
  <2>1. Create(u, SeedEmail, "ADMIN") /\ SeedEnds /\ "ADMIN" \in Roles
    BY <1>6 DEF SeedCreate, Roles
  <2>2. /\ born' = born \cup {u} /\ DOMAIN accounts' = DOMAIN accounts \cup {u}
        /\ accounts' \in [DOMAIN accounts' -> AccountRow]
    BY <1>0, <2>1, CreateEffect
  <2>3. seed' \in Seed /\ FoundBySeedEmail'
    BY <2>1, SeedEndsInv
  <2> QED
    BY <1>0, <2>2, <2>3 DEF SeedInv, SeedTypeOK, AccountRow
<1>7. CASE SeedFails /\ UNCHANGED <<accounts, born>>
  BY <1>0, <1>7, SeedEndsInv DEF SeedInv, SeedTypeOK
<1>8. CASE UNCHANGED seedVars
  BY <1>8 DEF seedVars, SeedInv, SeedTypeOK, FoundBySeedEmail, Has
<1> QED
  BY <1>1, <1>2, <1>3, <1>4, <1>5, <1>6, <1>7, <1>8 DEF SeedNext, SeedStep

\* Whom a step makes an ADMIN.
NewAdmins == {u \in DOMAIN accounts' : IsAdmin(u)' /\ ~ IsAdmin(u)}

Succeeds == seed.pc \in {"create", "promote"} /\ seed'.pc = "done"

\* What SuccessMeansAnAdmin says of a step.
AdminStep ==
    IF Succeeds
      THEN \E u \in DOMAIN accounts' :
              /\ IsAdmin(u)'
              /\ Has(u, SeedEmail)' \/ (seed.pc = "promote" /\ seed.moved)
              /\ NewAdmins \subseteq {u}
      ELSE NewAdmins = {}

\* A step of the script's model takes the role of ADMIN from nobody.
LEMMA AdminStepInv == SeedInv /\ [SeedNext]_seedVars => AdminStep
<1> SUFFICES ASSUME SeedInv, [SeedNext]_seedVars PROVE AdminStep
  OBVIOUS
<1>0. SeedTypeOK /\ SeedEmail \in Emails
  BY AdminSeedAssumption DEF SeedInv
<1>1. ASSUME NEW u \in Users, NEW e \in Emails, Register(u, e)
      PROVE  AdminStep
  <2>1. Create(u, e, "CLIENT") /\ UNCHANGED seed /\ "CLIENT" \in Roles
    BY <1>1 DEF Register, Roles
  <2>2. /\ DOMAIN accounts' = DOMAIN accounts \cup {u} /\ accounts'[u].role = "CLIENT"
        /\ \A v \in DOMAIN accounts : accounts'[v] = accounts[v]
        /\ u \notin DOMAIN accounts
    BY <1>0, <2>1, CreateEffect
  <2>3. NewAdmins = {}
    BY <2>2 DEF NewAdmins, IsAdmin
  <2>4. ~ Succeeds
    BY <2>1 DEF Succeeds
  <2> QED
    BY <2>3, <2>4 DEF AdminStep
<1>2. ASSUME NEW u \in Users, NEW e \in Emails, UpdateEmail(u, e)
      PROVE  AdminStep
  <2>1. /\ DOMAIN accounts' = DOMAIN accounts /\ accounts'[u].role = accounts[u].role
        /\ \A v \in DOMAIN accounts \ {u} : accounts'[v] = accounts[v]
    BY <1>0, <1>2, UpdateEmailEffect
  <2>2. NewAdmins = {}
    BY <2>1 DEF NewAdmins, IsAdmin
  <2>3. seed'.pc = seed.pc
    BY <1>0, <1>2, LeavesEffect DEF UpdateEmail
  <2> QED
    BY <2>2, <2>3 DEF AdminStep, Succeeds
<1>3. ASSUME NEW u \in Users, DeleteAccount(u)
      PROVE  AdminStep
  <2>1. /\ DOMAIN accounts' = DOMAIN accounts \ {u}
        /\ \A v \in DOMAIN accounts' : accounts'[v] = accounts[v]
    BY <1>3 DEF DeleteAccount
  <2>2. NewAdmins = {}
    BY <2>1 DEF NewAdmins, IsAdmin
  <2>3. seed'.pc = seed.pc
    BY <1>0, <1>3, LeavesEffect DEF DeleteAccount
  <2> QED
    BY <2>2, <2>3 DEF AdminStep, Succeeds
<1>4. CASE SeedFind
  <2>1. UNCHANGED accounts /\ seed.pc \in {"off", "done"}
    BY <1>4 DEF SeedFind
  <2> QED
    BY <2>1 DEF AdminStep, NewAdmins, IsAdmin, Succeeds
<1>5. CASE SeedPromote
  <2>0. PICK u : u = seed.user
    OBVIOUS
  <2>1. /\ u \in DOMAIN accounts' /\ DOMAIN accounts' = DOMAIN accounts
        /\ accounts'[u].role = "ADMIN" /\ accounts'[u].email = accounts[u].email
        /\ \A v \in DOMAIN accounts \ {u} : accounts'[v] = accounts[v]
    BY <1>0, <1>5, <2>0, SeedPromoteEffect
  <2>2. seed.pc = "promote" /\ seed' = [pc |-> "done"]
    BY <1>5 DEF SeedPromote, SeedEnds
  <2>3. Succeeds
    BY <2>2 DEF Succeeds
  <2>4. NewAdmins \subseteq {u} /\ IsAdmin(u)'
    BY <2>1 DEF NewAdmins, IsAdmin
  <2>5. seed.moved \/ Has(u, SeedEmail)'
    BY <2>0, <2>1, <2>2 DEF SeedInv, FoundBySeedEmail, Has
  <2> QED
    BY <2>1, <2>2, <2>3, <2>4, <2>5 DEF AdminStep
<1>6. ASSUME NEW u \in Users, SeedCreate(u)
      PROVE  AdminStep
  <2>1. Create(u, SeedEmail, "ADMIN") /\ seed.pc = "create" /\ "ADMIN" \in Roles
        /\ seed' = [pc |-> "done"]
    BY <1>6 DEF SeedCreate, Roles, SeedEnds
  <2>2. /\ DOMAIN accounts' = DOMAIN accounts \cup {u}
        /\ accounts'[u].email = SeedEmail /\ accounts'[u].role = "ADMIN"
        /\ \A v \in DOMAIN accounts : accounts'[v] = accounts[v]
    BY <1>0, <2>1, CreateEffect
  <2>3. IsAdmin(u)' /\ Has(u, SeedEmail)' /\ NewAdmins \subseteq {u}
    BY <2>2 DEF NewAdmins, IsAdmin, Has
  <2>4. Succeeds
    BY <2>1 DEF Succeeds
  <2> QED
    BY <2>2, <2>3, <2>4 DEF AdminStep
<1>7. CASE SeedFails /\ UNCHANGED <<accounts, born>>
  <2>1. UNCHANGED accounts /\ seed' = [pc |-> "off"]
    BY <1>7 DEF SeedFails
  <2> QED
    BY <2>1 DEF AdminStep, NewAdmins, IsAdmin, Succeeds
<1>8. CASE UNCHANGED seedVars
  <2>1. UNCHANGED <<accounts, seed>>
    BY <1>8 DEF seedVars
  <2> QED
    BY <2>1 DEF AdminStep, NewAdmins, IsAdmin, Succeeds
<1> QED
  BY <1>1, <1>2, <1>3, <1>4, <1>5, <1>6, <1>7, <1>8 DEF SeedNext, SeedStep

\* A step of the catalogue is one of the accounts and the script, or leaves them alone.
LEMMA SeedSteps == [Next]_vars => [SeedNext]_seedVars
<1> SUFFICES ASSUME [Next]_vars, UNCHANGED seedVars \/ SeedNext PROVE [SeedNext]_seedVars
  BY DEF Next, vars, seedVars, CanActivate, RequestCreate, RequestWrite, CreateCategory,
         CreateProduct, FindOne, UpdateCategory, UpdateProduct, RemoveCategory,
         RemoveProduct, Reject, Fail
<1> QED
  OBVIOUS

\* When seed-admin reports success there is an ADMIN who has SEED_ADMIN_EMAIL, or had it
\* when the script looked; and no other step of it or of the API makes anybody an ADMIN.
THEOREM SuccessMakesAnAdmin == Spec => SuccessMeansAnAdmin
<1>1. Init => SeedInv
  BY SeedInvInit DEF Init
<1>2. SeedInv /\ [Next]_vars => SeedInv'
  BY SeedInvNext, SeedSteps
<1>3. SeedInv /\ [Next]_vars =>
         [LET new == {u \in DOMAIN accounts' : IsAdmin(u)' /\ ~ IsAdmin(u)} IN
          IF seed.pc \in {"create", "promote"} /\ seed'.pc = "done"
            THEN \E u \in DOMAIN accounts' :
                    /\ IsAdmin(u)'
                    /\ Has(u, SeedEmail)' \/ (seed.pc = "promote" /\ seed.moved)
                    /\ new \subseteq {u}
            ELSE new = {}]_seedVars
  BY AdminStepInv, SeedSteps DEF AdminStep, NewAdmins, Succeeds
<1> QED
  BY <1>1, <1>2, <1>3, PTL DEF Spec, SuccessMeansAnAdmin

-----------------------------------------------------------------------------
(* The tables *)

CatalogTypeOK ==
    /\ DOMAIN drawn = Tables
    /\ \A t \in Tables : drawn[t] \subseteq Ids[t]
    /\ DOMAIN categories \subseteq drawn["categories"]
    /\ categories \in [DOMAIN categories -> Names]
    /\ DOMAIN products \subseteq drawn["products"]
    /\ products \in [DOMAIN products -> Ids["categories"]]
    /\ req \in [Reqs -> {Idle} \cup Busy]
    /\ overtaken \subseteq Reqs

\* A write finds its row, unless the row was removed since findOne.
FoundOrOvertaken == \A r \in Reqs : At(r, "write") => r \in overtaken \/ Found(r)

Inv ==
    /\ CatalogTypeOK
    /\ ProductsHaveCategories
    /\ FoundOrOvertaken

Creating(t) == [pc : {"create"}, table : {t}, dto : Dtos(t, "create")]
Writing(t, op) == [pc : {"find", "write"}, op : {op}, table : {t}, id : Ids[t], dto : Dtos(t, op)]

\* A request that is being served creates a row or writes one.
LEMMA BusyHas ==
    \A b : b \in Busy <=> \/ \E t \in Tables : b \in Creating(t)
                          \/ \E t \in Tables, op \in {"update", "remove"} : b \in Writing(t, op)
<1>1. Busy = (UNION {Creating(t) : t \in Tables})
                 \cup (UNION {Writing(t, op) : t \in Tables, op \in {"update", "remove"}})
  BY DEF Busy, Creating, Writing
<1>2. \A b : b \in UNION {Creating(t) : t \in Tables} <=> \E t \in Tables : b \in Creating(t)
  OBVIOUS
<1>3. \A b : b \in UNION {Writing(t, op) : t \in Tables, op \in {"update", "remove"}} <=>
               \E t \in Tables, op \in {"update", "remove"} : b \in Writing(t, op)
  OBVIOUS
<1> QED
  BY <1>1, <1>2, <1>3

\* What a request that is being served is made of.
LEMMA BusyIs ==
    ASSUME NEW b \in Busy
    PROVE  /\ b # Idle /\ b.table \in Tables
           /\ \/ b \in Creating(b.table) /\ b.pc = "create" /\ b.dto \in Dtos(b.table, "create")
              \/ /\ b.op \in {"update", "remove"} /\ b \in Writing(b.table, b.op)
                 /\ b.pc \in {"find", "write"}
                 /\ b.id \in Ids[b.table] /\ b.dto \in Dtos(b.table, b.op)
<1>1. CASE \E t \in Tables : b \in Creating(t)
  <2>1. PICK t \in Tables : b \in Creating(t)
    BY <1>1
  <2>2. b.pc = "create" /\ b.table = t /\ b.dto \in Dtos(t, "create")
    BY <2>1 DEF Creating
  <2>3. b # Idle
    BY <2>2 DEF Idle
  <2> QED
    BY <2>1, <2>2, <2>3
<1>2. CASE \E t \in Tables, op \in {"update", "remove"} : b \in Writing(t, op)
  <2>1. PICK t \in Tables, op \in {"update", "remove"} : b \in Writing(t, op)
    BY <1>2
  <2>2. /\ b.pc \in {"find", "write"} /\ b.op = op /\ b.table = t /\ b.id \in Ids[t]
        /\ b.dto \in Dtos(t, op)
    BY <2>1 DEF Writing
  <2>3. b # Idle
    BY <2>2 DEF Idle
  <2> QED
    BY <2>1, <2>2, <2>3
<1> QED
  BY <1>1, <1>2, BusyHas

\* The columns of what a request gives.
LEMMA DtoIs ==
    /\ \A dto \in Dtos("categories", "create") : "name" \in DOMAIN dto /\ dto.name \in Names
    /\ \A dto \in Dtos("categories", "update") :
          "name" \in DOMAIN dto => dto.name \in Names \cup {Null}
    /\ \A dto \in Dtos("products", "create") : "categoryId" \in DOMAIN dto
<1>1. \A dto \in Dtos("categories", "create") : dto \in CategoryDto
  BY DEF Dtos
<1>2. \A dto \in Dtos("categories", "update") : dto \in UpdateCategoryDto
  BY DEF Dtos
<1>3. \A dto \in Dtos("products", "create") : dto \in ProductDto
  BY DEF Dtos
<1>4. DOMAIN <<>> = {}
  OBVIOUS
<1>5. \A dto \in UpdateCategoryDto : "name" \in DOMAIN dto => dto \in [name : Names \cup {Null}]
  BY <1>4 DEF UpdateCategoryDto
<1> QED
  BY <1>1, <1>2, <1>3, <1>5 DEF CategoryDto, ProductDto

\* Request r is answered, and the others go on.
Answered(r) ==
    /\ req' \in [Reqs -> {Idle} \cup Busy]
    /\ req'[r] = Idle
    /\ \A q \in Reqs \ {r} : req'[q] = req[q]

\* Answering a request leaves every other one as it was.
LEMMA AnswerAnswered ==
    ASSUME CatalogTypeOK, NEW r \in Reqs, req' = [req EXCEPT ![r] = Idle]
    PROVE  Answered(r)
BY DEF CatalogTypeOK, Answered

\* An answer keeps FoundOrOvertaken when no row goes.
LEMMA AnswerFound ==
    ASSUME CatalogTypeOK, FoundOrOvertaken, NEW r \in Reqs, Answer(r),
           DOMAIN categories \subseteq DOMAIN categories',
           DOMAIN products \subseteq DOMAIN products'
    PROVE  /\ Answered(r) /\ overtaken' \subseteq Reqs
           /\ FoundOrOvertaken'
<1>1. Answered(r) /\ overtaken' = overtaken \ {r}
  BY AnswerAnswered DEF Answer
<1>2. ASSUME NEW q \in Reqs, At(q, "write")'
      PROVE  q \in overtaken' \/ Found(q)'
  <2>1. q # r /\ req'[q] = req[q]
    BY <1>1, <1>2 DEF Answered, At
  <2>2. q \in overtaken \/ Found(q)
    BY <1>2, <2>1 DEF FoundOrOvertaken, At
  <2> QED
    BY <1>1, <2>1, <2>2 DEF Found, Rows
<1> QED
  BY <1>1, <1>2 DEF FoundOrOvertaken, CatalogTypeOK

\* A removal marks who else had found the row.
LEMMA RemovalFound ==
    ASSUME CatalogTypeOK, FoundOrOvertaken, NEW r \in Reqs, At(r, "write"), Overtakes(r),
           \A t \in Tables : Rows(t) \ (IF req[r].table = t THEN {req[r].id} ELSE {}) \subseteq Rows(t)'
    PROVE  /\ Answered(r) /\ overtaken' \subseteq Reqs
           /\ FoundOrOvertaken'
<1>1. /\ Answered(r)
      /\ overtaken' = (overtaken \cup {q \in Reqs : At(q, "write") /\ On(q, req[r].table)
                                          /\ req[q].id = req[r].id}) \ {r}
  BY AnswerAnswered DEF Overtakes
<1>2. ASSUME NEW q \in Reqs, At(q, "write")'
      PROVE  q \in overtaken' \/ Found(q)'
  <2>1. q # r /\ req'[q] = req[q] /\ At(q, "write") /\ req[q] \in Busy /\ req[q] # Idle
    BY <1>1, <1>2 DEF Answered, At, CatalogTypeOK
  <2>2. q \in overtaken \/ Found(q)
    BY <2>1 DEF FoundOrOvertaken
  <2>3. req[q].table \in Tables
    BY <2>1, BusyIs
  <2>4. CASE req[q].table = req[r].table /\ req[q].id = req[r].id
    BY <1>1, <2>1, <2>4 DEF On
  <2>5. CASE ~ (req[q].table = req[r].table /\ req[q].id = req[r].id)
    <3>1. PICK t, i : t = req[q].table /\ i = req[q].id
      OBVIOUS
    <3>2. i \in Rows(t) => i \in Rows(t)'
      BY <2>3, <2>5, <3>1
    <3> QED
      BY <1>1, <2>1, <2>2, <3>1, <3>2 DEF Found
  <2> QED
    BY <2>4, <2>5
<1> QED
  BY <1>1, <1>2 DEF FoundOrOvertaken, CatalogTypeOK

\* The invariant holds initially.
LEMMA InvInit == Init => Inv
<1> SUFFICES ASSUME Init PROVE Inv
  OBVIOUS
<1>1. CatalogTypeOK
  BY DEF Init, CatalogTypeOK, Tables
<1>2. \A r \in Reqs : req[r] = Idle
  BY DEF Init
<1> QED
  BY <1>1, <1>2 DEF Init, Inv, ProductsHaveCategories, FoundOrOvertaken, At

\* A request that begins or goes on changes no row.
LEMMA RequestInv ==
    ASSUME Inv, NEW r \in Reqs, NEW b \in Busy, req' = [req EXCEPT ![r] = b],
           b.pc = "write" => b.id \in Rows(b.table),
           UNCHANGED <<categories, products, drawn, overtaken>>
    PROVE  Inv'
<1>1. /\ req' \in [Reqs -> {Idle} \cup Busy] /\ req'[r] = b
      /\ \A q \in Reqs \ {r} : req'[q] = req[q]
  BY DEF Inv, CatalogTypeOK
<1>2. CatalogTypeOK' /\ ProductsHaveCategories'
  BY <1>1 DEF Inv, CatalogTypeOK, ProductsHaveCategories
<1>3. FoundOrOvertaken'
  BY <1>1 DEF Inv, FoundOrOvertaken, At, Found, Rows
<1> QED
  BY <1>2, <1>3 DEF Inv

\* Every step keeps the invariant.
LEMMA InvNext == Inv /\ [Next]_vars => Inv'
<1> SUFFICES ASSUME Inv, [Next]_vars PROVE Inv'
  OBVIOUS
<1>0. CatalogTypeOK /\ FoundOrOvertaken /\ ProductsHaveCategories
  BY DEF Inv
<1>a. "categories" \in Tables /\ "products" \in Tables
      /\ \A t \in Tables : t = "categories" \/ t = "products"
  BY DEF Tables
<1>b. Rows("categories") = DOMAIN categories /\ Rows("products") = DOMAIN products
      /\ Rows("categories")' = DOMAIN categories' /\ Rows("products")' = DOMAIN products'
  BY DEF Rows
<1>1. ASSUME UNCHANGED catalogVars
      PROVE  Inv'
  BY <1>1 DEF catalogVars, Inv, CatalogTypeOK, FoundOrOvertaken, ProductsHaveCategories,
              At, Found, Rows
<1>2. ASSUME NEW r \in Reqs, NEW t \in Tables, NEW dto \in Dtos(t, "create"),
             RequestCreate(r, t, dto)
      PROVE  Inv'
  <2> DEFINE b == [pc |-> "create", table |-> t, dto |-> dto]
  <2>1. b \in Creating(t) /\ b.pc = "create"
    BY DEF Creating
  <2>2. req' = [req EXCEPT ![r] = b] /\ UNCHANGED <<categories, products, drawn, overtaken>>
    BY <1>2 DEF RequestCreate, CanActivate
  <2> HIDE DEF b
  <2> QED
    BY <2>1, <2>2, BusyHas, RequestInv
<1>3. ASSUME NEW r \in Reqs, NEW t \in Tables, NEW op \in {"update", "remove"}, NEW id \in DtoIds,
             NEW dto \in Dtos(t, op), RequestWrite(r, t, op, id, dto)
      PROVE  Inv'
  <2> DEFINE b == [pc |-> "find", op |-> op, table |-> t, id |-> id, dto |-> dto]
  <2>1. /\ req' = [req EXCEPT ![r] = b] /\ UNCHANGED <<categories, products, drawn, overtaken>>
        /\ IsId(id, IF t = "products" THEN BigIntMax ELSE IntMax)
    BY <1>3 DEF RequestWrite, CanActivate
  <2>2. id \in Ids[t]
    BY <1>a, <2>1, CatalogAssumption DEF IsId, Ids
  <2>3. b \in Writing(t, op) /\ b.pc = "find"
    BY <2>2 DEF Writing
  <2> HIDE DEF b
  <2> QED
    BY <2>1, <2>3, BusyHas, RequestInv
<1>4. ASSUME NEW r \in Reqs, NEW i \in Ids["categories"], CreateCategory(r, i)
      PROVE  Inv'
  <2>1. /\ At(r, "create") /\ On(r, "categories") /\ i \notin drawn["categories"]
        /\ categories' = [j \in DOMAIN categories \cup {i} |->
                             IF j = i THEN req[r].dto.name ELSE categories[j]]
        /\ drawn' = [drawn EXCEPT !["categories"] = @ \cup {i}]
        /\ Answer(r) /\ UNCHANGED products
    BY <1>4 DEF CreateCategory
  <2>2. req[r].dto.name \in Names
    <3>1. req[r] \in Busy /\ req[r].pc = "create" /\ req[r].table = "categories"
      BY <1>0, <2>1 DEF At, On, CatalogTypeOK
    <3>2. req[r].dto \in Dtos("categories", "create")
      BY <3>1, BusyIs
    <3> QED
      BY <3>2, DtoIs
  <2>3. /\ DOMAIN categories' = DOMAIN categories \cup {i}
        /\ categories' \in [DOMAIN categories' -> Names]
    BY <1>0, <2>1, <2>2 DEF CatalogTypeOK
  <2>4. /\ DOMAIN drawn' = Tables /\ drawn'["categories"] = drawn["categories"] \cup {i}
        /\ drawn'["products"] = drawn["products"]
    BY <1>0, <1>a, <2>1 DEF CatalogTypeOK
  <2>5. Answered(r) /\ overtaken' \subseteq Reqs /\ FoundOrOvertaken'
    BY <1>0, <2>1, <2>3, AnswerFound
  <2>6. CatalogTypeOK'
    BY <1>0, <1>a, <2>1, <2>3, <2>4, <2>5 DEF CatalogTypeOK, Answered
  <2> QED
    BY <2>1, <2>3, <2>5, <2>6 DEF Inv, ProductsHaveCategories
<1>5. ASSUME NEW r \in Reqs, NEW p \in Ids["products"], CreateProduct(r, p)
      PROVE  Inv'
  <2>1. /\ At(r, "create") /\ On(r, "products") /\ p \notin drawn["products"]
        /\ CategoryExists(req[r].dto)
        /\ products' = [q \in DOMAIN products \cup {p} |->
                           IF q = p THEN req[r].dto.categoryId ELSE products[q]]
        /\ drawn' = [drawn EXCEPT !["products"] = @ \cup {p}]
        /\ Answer(r) /\ UNCHANGED categories
    BY <1>5 DEF CreateProduct
  <2>2. req[r].dto.categoryId \in DOMAIN categories
    <3>1. req[r] \in Busy /\ req[r].pc = "create" /\ req[r].table = "products"
      BY <1>0, <2>1 DEF At, On, CatalogTypeOK
    <3>2. req[r].dto \in Dtos("products", "create")
      BY <3>1, BusyIs
    <3> QED
      BY <2>1, <3>2, DtoIs DEF CategoryExists
  <2>3. DOMAIN categories \subseteq Ids["categories"]
    BY <1>0, <1>a DEF CatalogTypeOK
  <2>4. /\ DOMAIN products' = DOMAIN products \cup {p}
        /\ products' \in [DOMAIN products' -> Ids["categories"]]
        /\ \A q \in DOMAIN products' : products'[q] \in DOMAIN categories
    BY <1>0, <2>1, <2>2, <2>3 DEF CatalogTypeOK, ProductsHaveCategories
  <2>5. /\ DOMAIN drawn' = Tables /\ drawn'["products"] = drawn["products"] \cup {p}
        /\ drawn'["categories"] = drawn["categories"]
    BY <1>0, <1>a, <2>1 DEF CatalogTypeOK
  <2>6. Answered(r) /\ overtaken' \subseteq Reqs /\ FoundOrOvertaken'
    BY <1>0, <2>1, <2>4, AnswerFound
  <2>7. CatalogTypeOK'
    BY <1>0, <1>a, <2>1, <2>4, <2>5, <2>6 DEF CatalogTypeOK, Answered
  <2> QED
    BY <2>1, <2>4, <2>6, <2>7 DEF Inv, ProductsHaveCategories
<1>6. ASSUME NEW r \in Reqs, FindOne(r)
      PROVE  Inv'
  <2>1. At(r, "find") /\ UNCHANGED <<categories, products, drawn>>
    BY <1>6 DEF FindOne
  <2>2. CASE Found(r)
    <3>1. req' = [req EXCEPT ![r].pc = "write"] /\ UNCHANGED overtaken
      BY <1>6, <2>2 DEF FindOne
    <3> DEFINE b == [req[r] EXCEPT !.pc = "write"]
    <3>2. req' = [req EXCEPT ![r] = b]
      BY <3>1
    <3>3. req[r] \in Busy /\ req[r].pc = "find"
      BY <1>0, <2>1 DEF At, CatalogTypeOK
    <3>4. PICK t \in Tables, op \in {"update", "remove"} : t = req[r].table /\ req[r] \in Writing(t, op)
      BY <3>3, BusyIs
    <3>5. b \in Writing(t, op) /\ b.id = req[r].id /\ b.table = req[r].table
      BY <3>4 DEF Writing
    <3>6. b \in Busy /\ b.id \in Rows(b.table)
      BY <2>2, <3>5, BusyHas DEF Found
    <3> HIDE DEF b
    <3> QED
      BY <2>1, <3>1, <3>2, <3>6, RequestInv
  <2>3. CASE ~ Found(r)
    <3>1. Answer(r)
      BY <1>6, <2>3 DEF FindOne
    <3>2. Answered(r) /\ overtaken' \subseteq Reqs /\ FoundOrOvertaken'
      BY <1>0, <2>1, <3>1, AnswerFound
    <3> QED
      BY <1>0, <2>1, <3>2 DEF Inv, CatalogTypeOK, ProductsHaveCategories, Answered
  <2> QED
    BY <2>2, <2>3
<1>7. ASSUME NEW r \in Reqs, UpdateCategory(r)
      PROVE  Inv'
  <2>0. PICK i, dto : i = req[r].id /\ dto = req[r].dto
    OBVIOUS
  <2>1. /\ Writes(r, "update") /\ On(r, "categories") /\ i \in DOMAIN categories
        /\ NameIsFree(dto, i)
        /\ categories' = [categories EXCEPT ![i] = IF "name" \in DOMAIN dto THEN dto.name
                                                                            ELSE @]
        /\ Answer(r) /\ UNCHANGED <<products, drawn>>
    BY <1>7, <2>0 DEF UpdateCategory, Found, On, Rows
  <2>2. "name" \in DOMAIN dto => dto.name \in Names
    <3>1. /\ req[r] \in Busy /\ req[r].pc = "write" /\ req[r].op = "update"
          /\ req[r].table = "categories"
      BY <1>0, <2>1 DEF At, On, Writes, CatalogTypeOK
    <3>2. dto \in Dtos("categories", "update")
      BY <2>0, <3>1, BusyIs
    <3> QED
      BY <2>1, <3>2, DtoIs DEF NameIsFree
  <2>3. DOMAIN categories' = DOMAIN categories /\ categories' \in [DOMAIN categories' -> Names]
    BY <1>0, <2>1, <2>2 DEF CatalogTypeOK
  <2>4. Answered(r) /\ overtaken' \subseteq Reqs /\ FoundOrOvertaken'
    BY <1>0, <2>1, <2>3, AnswerFound
  <2> QED
    BY <1>0, <2>1, <2>3, <2>4 DEF Inv, CatalogTypeOK, ProductsHaveCategories, Answered
<1>8. ASSUME NEW r \in Reqs, UpdateProduct(r)
      PROVE  Inv'
  <2>0. PICK p, dto : p = req[r].id /\ dto = req[r].dto
    OBVIOUS
  <2>1. /\ CategoryExists(dto)
        /\ products' = [products EXCEPT ![p] = IF "categoryId" \in DOMAIN dto
                                                 THEN dto.categoryId ELSE @]
        /\ Answer(r) /\ UNCHANGED <<categories, drawn>>
    BY <1>8, <2>0 DEF UpdateProduct
  <2>2. "categoryId" \in DOMAIN dto => dto.categoryId \in DOMAIN categories
    BY <2>1 DEF CategoryExists
  <2>3. DOMAIN categories \subseteq Ids["categories"]
    BY <1>0, <1>a DEF CatalogTypeOK
  <2>4. /\ DOMAIN products' = DOMAIN products
        /\ products' \in [DOMAIN products' -> Ids["categories"]]
        /\ \A q \in DOMAIN products' : products'[q] \in DOMAIN categories
    BY <1>0, <2>1, <2>2, <2>3 DEF CatalogTypeOK, ProductsHaveCategories
  <2>5. Answered(r) /\ overtaken' \subseteq Reqs /\ FoundOrOvertaken'
    BY <1>0, <2>1, <2>4, AnswerFound
  <2> QED
    BY <1>0, <2>1, <2>4, <2>5 DEF Inv, CatalogTypeOK, ProductsHaveCategories, Answered
<1>9. ASSUME NEW r \in Reqs, RemoveCategory(r)
      PROVE  Inv'
  <2>0. PICK i : i = req[r].id
    OBVIOUS
  <2>1. /\ At(r, "write") /\ req[r].table = "categories" /\ Unused(i) /\ Overtakes(r)
        /\ categories' = [j \in DOMAIN categories \ {i} |-> categories[j]]
        /\ UNCHANGED <<products, drawn>>
    BY <1>9, <2>0 DEF RemoveCategory, Writes, On
  <2>2. /\ DOMAIN categories' = DOMAIN categories \ {i}
        /\ categories' \in [DOMAIN categories' -> Names]
    BY <1>0, <2>1 DEF CatalogTypeOK
  <2>3. \A t \in Tables : Rows(t) \ (IF req[r].table = t THEN {req[r].id} ELSE {}) \subseteq Rows(t)'
    BY <1>a, <1>b, <2>0, <2>1, <2>2
  <2>4. Answered(r) /\ overtaken' \subseteq Reqs /\ FoundOrOvertaken'
    BY <1>0, <2>1, <2>3, RemovalFound
  <2>5. ProductsHaveCategories'
    BY <1>0, <2>1, <2>2 DEF ProductsHaveCategories, Unused
  <2> QED
    BY <1>0, <2>1, <2>2, <2>4, <2>5 DEF Inv, CatalogTypeOK, Answered
<1>10. ASSUME NEW r \in Reqs, RemoveProduct(r)
       PROVE  Inv'
  <2>0. PICK p : p = req[r].id
    OBVIOUS
  <2>1. /\ At(r, "write") /\ req[r].table = "products" /\ Overtakes(r)
        /\ products' = [q \in DOMAIN products \ {p} |-> products[q]]
        /\ UNCHANGED <<categories, drawn>>
    BY <1>10, <2>0 DEF RemoveProduct, Writes, On
  <2>2. /\ DOMAIN products' = DOMAIN products \ {p}
        /\ products' \in [DOMAIN products' -> Ids["categories"]]
        /\ \A q \in DOMAIN products' : products'[q] = products[q]
    BY <1>0, <2>1 DEF CatalogTypeOK
  <2>3. \A t \in Tables : Rows(t) \ (IF req[r].table = t THEN {req[r].id} ELSE {}) \subseteq Rows(t)'
    BY <1>a, <1>b, <2>0, <2>1, <2>2
  <2>4. Answered(r) /\ overtaken' \subseteq Reqs /\ FoundOrOvertaken'
    BY <1>0, <2>1, <2>3, RemovalFound
  <2> QED
    BY <1>0, <2>1, <2>2, <2>4 DEF Inv, CatalogTypeOK, ProductsHaveCategories, Answered
<1>11. ASSUME NEW r \in Reqs, Reject(r) \/ Fail(r)
       PROVE  Inv'
  <2>1. Answer(r) /\ UNCHANGED <<categories, products, drawn>>
    BY <1>11 DEF Reject, Fail
  <2>2. Answered(r) /\ overtaken' \subseteq Reqs /\ FoundOrOvertaken'
    BY <1>0, <2>1, AnswerFound
  <2> QED
    BY <1>0, <2>1, <2>2 DEF Inv, CatalogTypeOK, ProductsHaveCategories, Answered
<1> QED
  BY <1>1, <1>2, <1>3, <1>4, <1>5, <1>6, <1>7, <1>8, <1>9, <1>10, <1>11 DEF Next, vars

\* The tables hold rows of their types, and the script's record is one of its stages.
THEOREM TypeCorrect == Spec => []TypeOK
<1>1. Init => SeedInv /\ Inv
  BY SeedInvInit, InvInit DEF Init
<1>2. SeedInv /\ Inv /\ [Next]_vars => (SeedInv /\ Inv)'
  BY SeedInvNext, SeedSteps, InvNext
<1>3. SeedInv /\ Inv => TypeOK
  BY DEF SeedInv, Inv, CatalogTypeOK, TypeOK
<1> QED
  BY <1>1, <1>2, <1>3, PTL DEF Spec

\* Whatever administrators create, move and remove at once, a product is in a category
\* there is: the look-up of findOne plays no part, the constraints of the tables do.
THEOREM CategoriesOutliveProducts == Spec => []ProductsHaveCategories
<1>1. Inv => ProductsHaveCategories
  BY DEF Inv
<1> QED
  BY <1>1, InvInit, InvNext, PTL DEF Spec

\* A write that finds no row was overtaken by another request's removal of it; every
\* other refusal of a write is by a constraint.
THEOREM RefusalsHaveReasons == Spec => RefusalsAreExplained
<1>1. ASSUME Inv, NEW r \in Reqs, Reject(r), At(r, "write")
      PROVE  \/ r \in overtaken
             \/ Found(r) /\ (On(r, "categories") \/ ~ CategoryExists(req[r].dto))
  <2>1. r \in overtaken \/ Found(r)
    BY <1>1 DEF Inv, FoundOrOvertaken
  <2>2. req[r] # Idle /\ req[r] \in Busy /\ req[r].pc = "write"
    BY <1>1 DEF At, Inv, CatalogTypeOK
  <2>3. On(r, "products") \/ On(r, "categories")
    BY <2>2, BusyIs DEF On, Tables
  <2> QED
    BY <1>1, <2>1, <2>2, <2>3 DEF Reject, At, Writes
<1>2. Inv /\ [Next]_vars =>
         [\A r \in Reqs : Reject(r) /\ At(r, "write") =>
             \/ r \in overtaken
             \/ Found(r) /\ (On(r, "categories") \/ ~ CategoryExists(req[r].dto))]_vars
  BY <1>1
<1> QED
  BY <1>2, InvInit, InvNext, PTL DEF Spec, RefusalsAreExplained

=============================================================================
