\* Liveness: two workers, one waiting client, two tasks (no symmetry).
CONSTANTS
    ThreadCount = 2
    Clients = {m, c}
    Main = m
    Waiters = {m}
    Worker = Worker
    Tasks = {a, b}
    HasJob = {a, b}
    HasComplete = {a}
    NoTask = NoTask
SPECIFICATION FairSpec
CHECK_DEADLOCK FALSE
PROPERTIES EveryTaskServed EveryCompletionDelivered EveryWaitReturns
