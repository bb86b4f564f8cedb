\* The allocator may hand out the address of a destroyed handler again.
CONSTANTS
    Addresses = {h1, h2}
    Priorities = {1, 2}
    Types = {0}
    Events = {e1}
    TypeOf <- OneType
    MaxCreated = 3
    MaxOps = 4
    ReuseAddresses = TRUE
SPECIFICATION Spec
SYMMETRY Perms
CHECK_DEADLOCK FALSE
INVARIANTS HandledHidesLower
