\* Five entities; those with children are deleted by the window alone.
CONSTANTS
    Entities = {e1, e2, e3, e4, e5}
    Null = Null
    LeafDrops = TRUE
    LeafDestroys = TRUE
SPECIFICATION Spec
CHECK_DEADLOCK FALSE
INVARIANTS TypeOK LinksAgree EveryChildUpdated
PROPERTIES MoveAppends DeletionsAreWhole
