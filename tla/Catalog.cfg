CONSTANTS
    Users = {u1, u2, u3}
    Emails = {e1, e2}
    SeedEmail = e1
    Reqs = {r1, r2}
    IntMax = 2
    BigIntMax = 1
    Names = {n1, n2}
    Null = Null
SPECIFICATION Spec
SYMMETRY Symmetry
INVARIANTS TypeOK ProductsHaveCategories
PROPERTIES SuccessMeansAnAdmin RefusalsAreExplained
CHECK_DEADLOCK FALSE
