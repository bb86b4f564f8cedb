\* Three handlers of two priorities, two events, no address reuse.
CONSTANTS
    Addresses = {h1, h2, h3}
    Priorities = {1, 2}
    Types = {0}
    Events = {e1, e2}
    TypeOf <- OneType
    MaxCreated = 3
    MaxOps = 4
    ReuseAddresses = FALSE
SPECIFICATION Spec
SYMMETRY Perms
CHECK_DEADLOCK FALSE
INVARIANTS TypeOK PointersAreLive NoDuplicateHandlers HandledHidesLower UnhandledSeenByAll EventsInOrder
