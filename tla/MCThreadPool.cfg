\* Two workers, one waiting client, two clients adding three tasks.
CONSTANTS
    ThreadCount = 2
    Clients = {m, c}
    Main = m
    Waiters = {m}
    Worker = Worker
    Tasks = {a, b, d}
    HasJob = {a, b}
    HasComplete = {a, b, d}
    NoTask = NoTask
SPECIFICATION Spec
SYMMETRY Perms
CHECK_DEADLOCK FALSE
INVARIANTS TypeOK ServedInOrder NoLostWakeup CompletionsInOrder NothingDropped
PROPERTIES WaitIsBarrier PoolIsExecutor
