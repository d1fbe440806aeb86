CONSTANTS
    Ips = {i1}
    Users = {u1}
    Admins = {u1}
    Routes = {"mail", "catalogWrite"}
    Reqs = {r1, r2}
    Minute = 2
    Day = 3
    GlobalPerMinute = 2
    FormPerMinute = 1
    FormPerDay = 1
    AuthPerMinute = 3
    RefreshPerMinute = 3
    ProfilePer15Minutes = 3
    MaxTime = 3
SPECIFICATION Spec
SYMMETRY Symmetry
INVARIANTS TypeOK LimitsHold RefusedFormsAreFree
PROPERTIES RefusedForOwnUse
CHECK_DEADLOCK FALSE
