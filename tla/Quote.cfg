CONSTANTS
    Names = {wine}
    Quantities = {1, 3}
    Prices = {5, 7}
    MaxItems = 8
SPECIFICATION Spec
INVARIANTS TypeOK AllOnTheBackground SheetAddsUp
PROPERTIES NothingIsOverwritten
CHECK_DEADLOCK FALSE
