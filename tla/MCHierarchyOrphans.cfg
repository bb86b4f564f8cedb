\* Any entity may be dropped on the free area of the window.
CONSTANTS
    Entities = {e1, e2, e3}
    Null = Null
    LeafDrops = FALSE
    LeafDestroys = TRUE
SPECIFICATION Spec
CHECK_DEADLOCK FALSE
INVARIANTS EveryChildUpdated
