------------------------------ MODULE Catalog ------------------------------
(***************************************************************************)
(* The tables products and categories, and the handlers that only an ADMIN *)
(* may use: CategoryService and ProductsService behind the guards, beside  *)
(* the accounts and the script that makes the first ADMIN (AdminSeed).     *)
(*                                                                         *)
(* update and remove look the row up and write it in a second statement,   *)
(* so another administrator's request may come in between.  The reads      *)
(* anyone may do (findAll, findOne) change nothing and are no steps.       *)
(***************************************************************************)
EXTENDS AdminSeed

CONSTANTS
    Reqs,          \* requests the process can serve at the same time
    IntMax,        \* PG_INT_MAX: ids of categories; their sequence ends there
    BigIntMax,     \* PG_BIGINT_MAX, the same of products
    Names,         \* names of categories
    Null           \* null, for a column

ASSUME CatalogAssumption ==
    /\ IntMax \in Nat \ {0}
    /\ BigIntMax \in Nat \ {0}
    /\ Null \notin Names \cup Nat

VARIABLES
    categories,    \* a function from the ids of the rows to their names
    products,      \* a function from the ids of the rows to their categoryId
    drawn,         \* ids the two sequences have given
    req,           \* what each request is doing
    \* History: no code reads it.
    overtaken      \* requests whose row was removed since they found it

catalogVars == <<categories, products, drawn, req, overtaken>>
vars == <<seedVars, catalogVars>>

Tables == {"categories", "products"}
Ids == [t \in Tables |-> 1 .. (IF t = "categories" THEN IntMax ELSE BigIntMax)]

\* categoryId: @IsInt, @Min(1) and no maximum.
DtoIds == 1 .. IntMax + 1

\* What a request may give, past the ValidationPipe: an update, the column or
\* not, and @IsOptional lets a null through.  The columns that no constraint
\* is about are left out.
CategoryDto == [name : Names]
UpdateCategoryDto == {<<>>} \cup [name : Names \cup {Null}]
ProductDto == [categoryId : DtoIds]
UpdateProductDto == {<<>>} \cup [categoryId : DtoIds \cup {Null}]

Dtos(table, op) ==
    CASE op = "remove" -> {<<>>}
      [] op = "create" -> IF table = "products" THEN ProductDto ELSE CategoryDto
      [] op = "update" -> IF table = "products" THEN UpdateProductDto ELSE UpdateCategoryDto

Idle == [pc |-> "idle"]
Busy ==
    (UNION {[pc : {"create"}, table : {t}, dto : Dtos(t, "create")] : t \in Tables})
    \cup (UNION {[pc : {"find", "write"}, op : {op}, table : {t}, id : Ids[t],
                  dto : Dtos(t, op)]
                    : t \in Tables, op \in {"update", "remove"}})

TypeOK ==
    /\ SeedTypeOK
    /\ DOMAIN drawn = Tables
    /\ \A t \in Tables : drawn[t] \subseteq Ids[t]
    /\ DOMAIN categories \subseteq drawn["categories"]
    /\ categories \in [DOMAIN categories -> Names]
    /\ DOMAIN products \subseteq drawn["products"]
    /\ products \in [DOMAIN products -> Ids["categories"]]
    /\ req \in [Reqs -> {Idle} \cup Busy]
    /\ overtaken \subseteq Reqs

-----------------------------------------------------------------------------
Rows(table) == IF table = "categories" THEN DOMAIN categories ELSE DOMAIN products

At(r, step) == req[r] # Idle /\ req[r].pc = step
On(r, table) == req[r] # Idle /\ req[r].table = table
Writes(r, op) == At(r, "write") /\ req[r].op = op
Found(r) == req[r].id \in Rows(req[r].table)

\* The constraints of the two tables: a name is there and unique, a product
\* is in a category there is, and a category that has one is not removed.
NameIsFree(dto, i) ==
    "name" \in DOMAIN dto =>
        dto.name # Null /\ \A j \in DOMAIN categories \ {i} : categories[j] # dto.name
CategoryExists(dto) == "categoryId" \in DOMAIN dto => dto.categoryId \in DOMAIN categories
Unused(i) == \A p \in DOMAIN products : products[p] # i

\* Mutant of IsId: an id beyond the column's type goes through.
IsAnyId(value, max) == value \in Nat \ {0}

\* parsePositiveId: what a path may give for an id goes no further otherwise.
IsId(value, max) == value \in Nat \ {0} /\ value <= max

Answer(r) == req' = [req EXCEPT ![r] = Idle] /\ overtaken' = overtaken \ {r}

-----------------------------------------------------------------------------
Init ==
    /\ SeedInit
    /\ categories = [i \in {} |-> {}]
    /\ products = [i \in {} |-> {}]
    /\ drawn = [t \in Tables |-> {}]
    /\ req = [r \in Reqs |-> Idle]
    /\ overtaken = {}

\* JwtAuthGuard reads the role of the session's account; RolesGuard wants ADMIN.
CanActivate(r, busy) ==
    /\ req[r] = Idle
    /\ \E u \in Users : IsAdmin(u)
    /\ req' = [req EXCEPT ![r] = busy]
    /\ UNCHANGED <<seedVars, categories, products, drawn, overtaken>>

RequestCreate(r, table, dto) ==
    CanActivate(r, [pc |-> "create", table |-> table, dto |-> dto])

RequestWrite(r, table, op, id, dto) ==
    /\ IsId(id, IF table = "products" THEN BigIntMax ELSE IntMax)
    /\ CanActivate(r, [pc |-> "find", op |-> op, table |-> table, id |-> id, dto |-> dto])

\* create of CategoryService: the name is unique.
CreateCategory(r, i) ==
    /\ At(r, "create") /\ On(r, "categories")
    /\ NameIsFree(req[r].dto, i)
    /\ i \in Ids["categories"] \ drawn["categories"]
    /\ categories' = [j \in DOMAIN categories \cup {i} |->
                         IF j = i THEN req[r].dto.name ELSE categories[j]]
    /\ drawn' = [drawn EXCEPT !["categories"] = @ \cup {i}]
    /\ Answer(r)
    /\ UNCHANGED <<seedVars, products>>

\* create of ProductsService
CreateProduct(r, p) ==
    /\ At(r, "create") /\ On(r, "products")
    /\ CategoryExists(req[r].dto)
    /\ p \in Ids["products"] \ drawn["products"]
    /\ products' = [q \in DOMAIN products \cup {p} |->
                       IF q = p THEN req[r].dto.categoryId ELSE products[q]]
    /\ drawn' = [drawn EXCEPT !["products"] = @ \cup {p}]
    /\ Answer(r)
    /\ UNCHANGED <<seedVars, categories>>

\* Mutant of FindOne: a row that is not there is not noticed.
FindNothing(r) ==
    /\ At(r, "find")
    /\ req' = [req EXCEPT ![r].pc = "write"]
    /\ UNCHANGED <<seedVars, categories, products, drawn, overtaken>>

\* findOne, of update and remove: 404 when the row is not there.
FindOne(r) ==
    /\ At(r, "find")
    /\ IF Found(r)
         THEN req' = [req EXCEPT ![r].pc = "write"] /\ UNCHANGED overtaken
         ELSE Answer(r)
    /\ UNCHANGED <<seedVars, categories, products, drawn>>

UpdateCategory(r) ==
    LET i == req[r].id
        dto == req[r].dto IN
    /\ Writes(r, "update") /\ On(r, "categories")
    /\ Found(r)
    /\ NameIsFree(dto, i)
    /\ categories' = [categories EXCEPT ![i] = IF "name" \in DOMAIN dto THEN dto.name ELSE @]
    /\ Answer(r)
    /\ UNCHANGED <<seedVars, products, drawn>>

\* update of ProductsService: data: dto, the columns that were given.
UpdateProduct(r) ==
    LET p == req[r].id
        dto == req[r].dto IN
    /\ Writes(r, "update") /\ On(r, "products")
    /\ Found(r)
    /\ CategoryExists(dto)
    /\ products' = [products EXCEPT ![p] =
                       IF "categoryId" \in DOMAIN dto THEN dto.categoryId ELSE @]
    /\ Answer(r)
    /\ UNCHANGED <<seedVars, categories, drawn>>

\* The row that request r removes is gone for whoever else had found it.
Overtakes(r) ==
    /\ req' = [req EXCEPT ![r] = Idle]
    /\ overtaken' = (overtaken \cup {q \in Reqs : At(q, "write") /\ On(q, req[r].table)
                                          /\ req[q].id = req[r].id}) \ {r}

\* Mutant of RemoveCategory: the foreign key of products is not looked at.
RemoveUsedCategory(r) ==
    /\ Writes(r, "remove") /\ On(r, "categories")
    /\ Found(r)
    /\ categories' = [i \in DOMAIN categories \ {req[r].id} |-> categories[i]]
    /\ Overtakes(r)
    /\ UNCHANGED <<seedVars, products, drawn>>

\* remove of CategoryService; products_categoryId_fkey is ON DELETE RESTRICT.
RemoveCategory(r) ==
    /\ Writes(r, "remove") /\ On(r, "categories")
    /\ Found(r)
    /\ Unused(req[r].id)
    /\ categories' = [i \in DOMAIN categories \ {req[r].id} |-> categories[i]]
    /\ Overtakes(r)
    /\ UNCHANGED <<seedVars, products, drawn>>

RemoveProduct(r) ==
    /\ Writes(r, "remove") /\ On(r, "products")
    /\ Found(r)
    /\ products' = [p \in DOMAIN products \ {req[r].id} |-> products[p]]
    /\ Overtakes(r)
    /\ UNCHANGED <<seedVars, categories, drawn>>

\* The statement breaks a constraint or finds no row: nothing catches what
\* Prisma throws, and the client sees an internal error.
Reject(r) ==
    /\ \/ At(r, "create") /\ ~ (IF On(r, "products") THEN CategoryExists(req[r].dto)
                                                     ELSE NameIsFree(req[r].dto, 0))
       \/ At(r, "write") /\ ~ Found(r)
       \/ Writes(r, "update") /\ ~ (IF On(r, "products") THEN CategoryExists(req[r].dto)
                                       ELSE NameIsFree(req[r].dto, req[r].id))
       \/ Writes(r, "remove") /\ On(r, "categories") /\ ~ Unused(req[r].id)
    /\ Answer(r)
    /\ UNCHANGED <<seedVars, categories, products, drawn>>

\* The connection is lost, or the process dies.
Fail(r) ==
    /\ req[r] # Idle
    /\ Answer(r)
    /\ UNCHANGED <<seedVars, categories, products, drawn>>

Next ==
    \/ SeedNext /\ UNCHANGED catalogVars
    \/ \E r \in Reqs :
          \/ \E t \in Tables : \E dto \in Dtos(t, "create") : RequestCreate(r, t, dto)
          \/ \E t \in Tables, op \in {"update", "remove"}, id \in DtoIds :
                \E dto \in Dtos(t, op) : RequestWrite(r, t, op, id, dto)
    \/ \E r \in Reqs : \/ \E i \in Ids["categories"] : CreateCategory(r, i)
                       \/ \E p \in Ids["products"] : CreateProduct(r, p)
    \/ \E r \in Reqs :
          \/ FindOne(r) \/ UpdateCategory(r) \/ UpdateProduct(r)
          \/ RemoveCategory(r) \/ RemoveProduct(r) \/ Reject(r) \/ Fail(r)

Spec == Init /\ [][Next]_vars

-----------------------------------------------------------------------------
(* Properties *)

\* Whatever administrators do at once, a product is in a category there is.
ProductsHaveCategories ==
    \A p \in DOMAIN products : products[p] \in DOMAIN categories

\* The look-up that precedes a write is worth this much: when the write finds
\* no row, it is because another request has removed it in between.  Every
\* other refusal is by a constraint that the look-up does not consider.
RefusalsAreExplained ==
    [][\A r \in Reqs : Reject(r) /\ At(r, "write") =>
          \/ r \in overtaken
          \/ Found(r) /\ (On(r, "categories") \/ ~ CategoryExists(req[r].dto))]_vars
=============================================================================
