\* Liveness: two handlers, two events.
CONSTANTS
    Addresses = {h1, h2}
    Priorities = {1, 2}
    Types = {0}
    Events = {e1, e2}
    TypeOf <- OneType
    MaxCreated = 2
    MaxOps = 3
    ReuseAddresses = FALSE
SPECIFICATION FairSpec
CHECK_DEADLOCK FALSE
PROPERTIES EveryEventResolved
