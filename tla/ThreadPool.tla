----------------------------- MODULE ThreadPool -----------------------------
(***************************************************************************)
(* Maple's background workers (Thread/ThreadPool.cpp) and the mailbox they *)
(* report to (Application::postOnMainThread and Application::executeAll).  *)
(*                                                                         *)
(* Every Thread owns a list of jobs, one mutex and ONE condition variable  *)
(* on which its worker waits for work and on which every caller of wait()  *)
(* waits for the list to drain.  All notifications are notify_one.  A      *)
(* critical section of the mutex is one action here; the job, the posting  *)
(* of its completion and the pop of the job are separate steps because the *)
(* mutex is released between them.                                         *)
(***************************************************************************)
EXTENDS Naturals, Sequences, Functions

CONSTANTS
    ThreadCount,    \* size of the pool; Application.cpp builds it with 4
    Clients,        \* OS threads that call the pool
    Main,           \* the client that runs the frame loop and owns the pool
    Waiters,        \* clients that call Thread::wait or ThreadPool::waitAll
    Worker,         \* how a Thread's own worker appears in its wait set
    Tasks,          \* Task objects, each added at most once
    HasJob,         \* tasks whose job is a callable function
    HasComplete,    \* tasks whose complete is a callable function
    NoTask          \* an empty task slot

ASSUME PoolAssumption ==
    /\ ThreadCount \in Nat \ {0}
    /\ Main \in Clients
    /\ Waiters \subseteq Clients
    /\ Worker \notin Clients
    /\ HasJob \subseteq Tasks
    /\ HasComplete \subseteq Tasks
    /\ NoTask \notin Tasks

Threads == 1 .. ThreadCount

VARIABLES
    jobs,           \* jobs[w]      : Thread::jobs
    close,          \* close[w]     : Thread::close
    condition,      \* condition[w] : who is blocked in Thread::condition
    wpc,            \* wpc[w]       : where Thread::run of w is
    task,           \* task[w]      : the local copy of jobs.front()
    cpc,            \* cpc[c]       : where client c is
    op,             \* op[c]        : the pool operation c is inside
    at,             \* at[c]        : the thread index that operation is at
    item,           \* item[c]      : the task c is adding
    minIndex,       \* minIndex[c]  : least loaded thread found so far, or 0
    minLen,         \* minLen[c]    : its length when it was read
    executeQueue,   \* Application::executeQueue
    executing,      \* the completion executeAll has popped and is calling
    added,          \* history: tasks given to w, in order
    served,         \* history: tasks whose turn on w has come, in order
    delivered,      \* history: completions called on the main thread
    before          \* history: tasks queued when c called wait or waitAll

workerVars == <<wpc, task>>
clientVars == <<cpc, op, at, item, minIndex, minLen, before>>
mailVars   == <<executeQueue, executing, delivered>>
vars == <<jobs, close, condition, workerVars, clientVars, mailVars, added, served>>

(* condition_variable::notify_one: some blocked thread, if there is one. *)
NotifyOne(w) ==
    IF condition[w] = {}
    THEN UNCHANGED condition
    ELSE \E p \in condition[w] : condition' = [condition EXCEPT ![w] = @ \ {p}]

Init ==
    /\ jobs = [w \in Threads |-> <<>>]
    /\ close = [w \in Threads |-> FALSE]
    /\ condition = [w \in Threads |-> {}]
    /\ wpc = [w \in Threads |-> "wait"]
    /\ task = [w \in Threads |-> NoTask]
    /\ cpc = [c \in Clients |-> "idle"]
    /\ op = [c \in Clients |-> "none"]
    /\ at = [c \in Clients |-> 1]
    /\ item = [c \in Clients |-> NoTask]
    /\ minIndex = [c \in Clients |-> 0]
    /\ minLen = [c \in Clients |-> 0]
    /\ executeQueue = <<>>
    /\ executing = NoTask
    /\ added = [w \in Threads |-> <<>>]
    /\ served = [w \in Threads |-> <<>>]
    /\ delivered = <<>>
    /\ before = [c \in Clients |-> {}]

-----------------------------------------------------------------------------
(* The worker: Thread::run.                                                *)

(* The predicate of condition.wait is false: release the mutex and block.  *)
WorkerBlock(w) ==
    /\ wpc[w] = "wait"
    /\ Worker \notin condition[w]
    /\ jobs[w] = <<>> /\ ~close[w]
    /\ condition' = [condition EXCEPT ![w] = @ \union {Worker}]
    /\ UNCHANGED <<jobs, close, workerVars, clientVars, mailVars, added, served>>

(* close is tested first: a closed thread leaves with its jobs unserved.   *)
WorkerExit(w) ==
    /\ wpc[w] = "wait"
    /\ Worker \notin condition[w]
    /\ close[w]
    /\ wpc' = [wpc EXCEPT ![w] = "exit"]
    /\ UNCHANGED <<jobs, close, condition, task, clientVars, mailVars, added, served>>

(* task = jobs.front(): copied, and left in the list while it runs.        *)
WorkerTake(w) ==
    /\ wpc[w] = "wait"
    /\ Worker \notin condition[w]
    /\ ~close[w] /\ jobs[w] # <<>>
    /\ task' = [task EXCEPT ![w] = Head(jobs[w])]
    /\ wpc' = [wpc EXCEPT ![w] = "job"]
    /\ UNCHANGED <<jobs, close, condition, clientVars, mailVars, added, served>>

(* The job runs, outside the mutex; an empty job is skipped together with  *)
(* its completion.                                                         *)
WorkerRun(w) ==
    /\ wpc[w] = "job"
    /\ served' = [served EXCEPT ![w] = Append(@, task[w])]
    /\ wpc' = [wpc EXCEPT ![w] =
                 IF task[w] \in HasJob \intersect HasComplete THEN "post" ELSE "pop"]
    /\ UNCHANGED <<jobs, close, condition, task, clientVars, mailVars, added>>

(* Mutant: executeQueue used as a stack. *)
WorkerPostFirst(w) ==
    /\ wpc[w] = "post"
    /\ executeQueue' = <<task[w]>> \o executeQueue
    /\ wpc' = [wpc EXCEPT ![w] = "pop"]
    /\ UNCHANGED <<jobs, close, condition, task, clientVars, executing, delivered,
                   added, served>>

(* Application::postOnMainThread, under executeMutex.                      *)
WorkerPost(w) ==
    /\ wpc[w] = "post"
    /\ executeQueue' = Append(executeQueue, task[w])
    /\ wpc' = [wpc EXCEPT ![w] = "pop"]
    /\ UNCHANGED <<jobs, close, condition, task, clientVars, executing, delivered,
                   added, served>>

(* Mutant: the pop does not notify. *)
WorkerPopSilently(w) ==
    /\ wpc[w] = "pop"
    /\ jobs' = [jobs EXCEPT ![w] = Tail(@)]
    /\ task' = [task EXCEPT ![w] = NoTask]
    /\ wpc' = [wpc EXCEPT ![w] = "wait"]
    /\ UNCHANGED <<close, condition, clientVars, mailVars, added, served>>

(* pop_front and notify_one, in one critical section.                      *)
WorkerPop(w) ==
    /\ wpc[w] = "pop"
    /\ jobs' = [jobs EXCEPT ![w] = Tail(@)]
    /\ NotifyOne(w)
    /\ task' = [task EXCEPT ![w] = NoTask]
    /\ wpc' = [wpc EXCEPT ![w] = "wait"]
    /\ UNCHANGED <<close, clientVars, mailVars, added, served>>

(* A condition variable may wake a blocked thread without a notification.  *)
SpuriousWake(w) ==
    /\ \E p \in condition[w] : condition' = [condition EXCEPT ![w] = @ \ {p}]
    /\ UNCHANGED <<jobs, close, workerVars, clientVars, mailVars, added, served>>

-----------------------------------------------------------------------------
(* Callers of the pool.  Nobody calls a pool that is being destroyed, and  *)
(* nobody is inside it when its owner destroys it.                         *)

Destroying == op[Main] = "destroy"

Unused(t) ==
    /\ \A w \in Threads : t \notin Range(added[w])
    /\ \A c \in Clients : item[c] # t

(* Mutant: the index is off by one. *)
CallAddToPrevious(c, t, w) ==
    /\ cpc[c] = "idle" /\ ~Destroying /\ Unused(t)
    /\ op' = [op EXCEPT ![c] = "add"]
    /\ cpc' = [cpc EXCEPT ![c] = "add"]
    /\ item' = [item EXCEPT ![c] = t]
    /\ at' = [at EXCEPT ![c] = w - 1]
    /\ UNCHANGED <<jobs, close, condition, workerVars, mailVars, added, served,
                   minIndex, minLen, before>>

(* ThreadPool::addTask with an index: straight to that thread.             *)
CallAddTo(c, t, w) ==
    /\ cpc[c] = "idle" /\ ~Destroying /\ Unused(t)
    /\ op' = [op EXCEPT ![c] = "add"]
    /\ cpc' = [cpc EXCEPT ![c] = "add"]
    /\ item' = [item EXCEPT ![c] = t]
    /\ at' = [at EXCEPT ![c] = w]
    /\ UNCHANGED <<jobs, close, condition, workerVars, mailVars, added, served,
                   minIndex, minLen, before>>

(* ThreadPool::addTask without one: look for the least loaded thread.      *)
CallAdd(c, t) ==
    /\ cpc[c] = "idle" /\ ~Destroying /\ Unused(t)
    /\ op' = [op EXCEPT ![c] = "add"]
    /\ cpc' = [cpc EXCEPT ![c] = "scan"]
    /\ item' = [item EXCEPT ![c] = t]
    /\ at' = [at EXCEPT ![c] = 1]
    /\ minIndex' = [minIndex EXCEPT ![c] = 0]
    /\ minLen' = [minLen EXCEPT ![c] = 0]
    /\ UNCHANGED <<jobs, close, condition, workerVars, mailVars, added, served, before>>

(* One getTaskSize of the scan; the mutex of that thread is released again *)
(* before the next is read.                                                *)
Scan(c) ==
    LET len  == Len(jobs[at[c]])
        less == minIndex[c] = 0 \/ minLen[c] > len
        idx  == IF less THEN at[c] ELSE minIndex[c]
        last == at[c] = ThreadCount \/ (less /\ len = 0)
    IN  /\ cpc[c] = "scan"
        /\ minIndex' = [minIndex EXCEPT ![c] = idx]
        /\ minLen' = [minLen EXCEPT ![c] = IF less THEN len ELSE @]
        /\ cpc' = [cpc EXCEPT ![c] = IF last THEN "add" ELSE "scan"]
        /\ at' = [at EXCEPT ![c] = IF last THEN idx ELSE @ + 1]
        /\ UNCHANGED <<jobs, close, condition, workerVars, mailVars, added, served,
                       op, item, before>>

(* Mutant: emplace_front in place of emplace_back. *)
AddTaskAtFront(c) ==
    /\ cpc[c] = "add"
    /\ jobs' = [jobs EXCEPT ![at[c]] = <<item[c]>> \o @]
    /\ added' = [added EXCEPT ![at[c]] = Append(@, item[c])]
    /\ NotifyOne(at[c])
    /\ op' = [op EXCEPT ![c] = "none"]
    /\ cpc' = [cpc EXCEPT ![c] = "idle"]
    /\ item' = [item EXCEPT ![c] = NoTask]
    /\ UNCHANGED <<close, workerVars, mailVars, served, at, minIndex, minLen, before>>

(* Mutant: no notify_one after the job is added. *)
AddTaskSilently(c) ==
    /\ cpc[c] = "add"
    /\ jobs' = [jobs EXCEPT ![at[c]] = Append(@, item[c])]
    /\ added' = [added EXCEPT ![at[c]] = Append(@, item[c])]
    /\ op' = [op EXCEPT ![c] = "none"]
    /\ cpc' = [cpc EXCEPT ![c] = "idle"]
    /\ item' = [item EXCEPT ![c] = NoTask]
    /\ UNCHANGED <<close, condition, workerVars, mailVars, served, at, minIndex, minLen, before>>

(* Thread::addTask: emplace_back and notify_one, in one critical section.  *)
AddTask(c) ==
    /\ cpc[c] = "add"
    /\ jobs' = [jobs EXCEPT ![at[c]] = Append(@, item[c])]
    /\ added' = [added EXCEPT ![at[c]] = Append(@, item[c])]
    /\ NotifyOne(at[c])
    /\ op' = [op EXCEPT ![c] = "none"]
    /\ cpc' = [cpc EXCEPT ![c] = "idle"]
    /\ item' = [item EXCEPT ![c] = NoTask]
    /\ UNCHANGED <<close, workerVars, mailVars, served, at, minIndex, minLen, before>>

(* Thread::wait on one thread.                                             *)
CallWait(c, w) ==
    /\ cpc[c] = "idle" /\ ~Destroying
    /\ op' = [op EXCEPT ![c] = "wait"]
    /\ cpc' = [cpc EXCEPT ![c] = "wait"]
    /\ at' = [at EXCEPT ![c] = w]
    /\ before' = [before EXCEPT ![c] = Range(jobs[w])]
    /\ UNCHANGED <<jobs, close, condition, workerVars, mailVars, added, served,
                   item, minIndex, minLen>>

(* ThreadPool::waitAll: wait on every thread in turn.                      *)
CallWaitAll(c) ==
    /\ cpc[c] = "idle" /\ ~Destroying
    /\ op' = [op EXCEPT ![c] = "waitAll"]
    /\ cpc' = [cpc EXCEPT ![c] = "wait"]
    /\ at' = [at EXCEPT ![c] = 1]
    /\ before' = [before EXCEPT ![c] = UNION {Range(jobs[w]) : w \in Threads}]
    /\ UNCHANGED <<jobs, close, condition, workerVars, mailVars, added, served,
                   item, minIndex, minLen>>

(* Mutant: ~Thread without its wait(). *)
CallDestroyAtOnce ==
    /\ \A c \in Clients : cpc[c] = "idle"
    /\ ~Destroying
    /\ op' = [op EXCEPT ![Main] = "destroy"]
    /\ cpc' = [cpc EXCEPT ![Main] = "close"]
    /\ at' = [at EXCEPT ![Main] = 1]
    /\ before' = [before EXCEPT ![Main] = UNION {Range(jobs[w]) : w \in Threads}]
    /\ UNCHANGED <<jobs, close, condition, workerVars, mailVars, added, served,
                   item, minIndex, minLen>>

(* The owner destroys the pool, which destroys its threads in order:       *)
(* wait(), then close and notify_one, then join, for each of them.         *)
CallDestroy ==
    /\ \A c \in Clients : cpc[c] = "idle"
    /\ ~Destroying
    /\ op' = [op EXCEPT ![Main] = "destroy"]
    /\ cpc' = [cpc EXCEPT ![Main] = "wait"]
    /\ at' = [at EXCEPT ![Main] = 1]
    /\ before' = [before EXCEPT ![Main] = UNION {Range(jobs[w]) : w \in Threads}]
    /\ UNCHANGED <<jobs, close, condition, workerVars, mailVars, added, served,
                   item, minIndex, minLen>>

(* The predicate jobs.empty() of Thread::wait is false: block.             *)
WaitBlock(c) ==
    /\ cpc[c] = "wait" /\ c \notin condition[at[c]]
    /\ jobs[at[c]] # <<>>
    /\ condition' = [condition EXCEPT ![at[c]] = @ \union {c}]
    /\ UNCHANGED <<jobs, close, workerVars, clientVars, mailVars, added, served>>

(* Mutant: wait() does not count the job that is running. *)
WaitReturnEarly(c) ==
    LET more == op[c] = "waitAll" /\ at[c] < ThreadCount
    IN  /\ cpc[c] = "wait" /\ c \notin condition[at[c]]
        /\ Len(jobs[at[c]]) <= 1
        /\ cpc' = [cpc EXCEPT ![c] = CASE op[c] = "destroy" -> "close"
                                       [] more              -> "wait"
                                       [] OTHER             -> "idle"]
        /\ op' = [op EXCEPT ![c] = IF more \/ op[c] = "destroy" THEN @ ELSE "none"]
        /\ at' = [at EXCEPT ![c] = IF more THEN @ + 1 ELSE @]
        /\ UNCHANGED <<jobs, close, condition, workerVars, mailVars, added, served,
                       item, minIndex, minLen, before>>

(* It is true: wait() returns, to waitAll's loop or to ~Thread or to the   *)
(* caller.                                                                 *)
WaitReturn(c) ==
    LET more == op[c] = "waitAll" /\ at[c] < ThreadCount
    IN  /\ cpc[c] = "wait" /\ c \notin condition[at[c]]
        /\ jobs[at[c]] = <<>>
        /\ cpc' = [cpc EXCEPT ![c] = CASE op[c] = "destroy" -> "close"
                                       [] more              -> "wait"
                                       [] OTHER             -> "idle"]
        /\ op' = [op EXCEPT ![c] = IF more \/ op[c] = "destroy" THEN @ ELSE "none"]
        /\ at' = [at EXCEPT ![c] = IF more THEN @ + 1 ELSE @]
        /\ UNCHANGED <<jobs, close, condition, workerVars, mailVars, added, served,
                       item, minIndex, minLen, before>>

(* Mutant: ~Thread does not notify the worker it closes. *)
CloseThreadSilently ==
    /\ cpc[Main] = "close"
    /\ close' = [close EXCEPT ![at[Main]] = TRUE]
    /\ cpc' = [cpc EXCEPT ![Main] = "join"]
    /\ UNCHANGED <<jobs, condition, workerVars, mailVars, added, served,
                   op, at, item, minIndex, minLen, before>>

(* close = true and notify_one, in one critical section of ~Thread.        *)
CloseThread ==
    /\ cpc[Main] = "close"
    /\ close' = [close EXCEPT ![at[Main]] = TRUE]
    /\ NotifyOne(at[Main])
    /\ cpc' = [cpc EXCEPT ![Main] = "join"]
    /\ UNCHANGED <<jobs, workerVars, mailVars, added, served,
                   op, at, item, minIndex, minLen, before>>

(* thread->join() returns; the next thread is destroyed.                   *)
JoinThread ==
    /\ cpc[Main] = "join"
    /\ wpc[at[Main]] = "exit"
    /\ cpc' = [cpc EXCEPT ![Main] = IF at[Main] < ThreadCount THEN "wait" ELSE "gone"]
    /\ at' = [at EXCEPT ![Main] = IF @ < ThreadCount THEN @ + 1 ELSE @]
    /\ UNCHANGED <<jobs, close, condition, workerVars, mailVars, added, served,
                   op, item, minIndex, minLen, before>>

-----------------------------------------------------------------------------
(* Application::executeAll: pop under executeMutex, call outside it, until *)
(* the queue is found empty.                                               *)

(* Mutant: executeAll leaves the last entry in the queue. *)
ExecuteBeginLate ==
    /\ cpc[Main] = "idle" /\ ~Destroying
    /\ Len(executeQueue) > 1
    /\ cpc' = [cpc EXCEPT ![Main] = "executeAll"]
    /\ UNCHANGED <<jobs, close, condition, workerVars, mailVars, added, served,
                   op, at, item, minIndex, minLen, before>>

ExecuteBegin ==
    /\ cpc[Main] = "idle" /\ ~Destroying
    /\ executeQueue # <<>>
    /\ cpc' = [cpc EXCEPT ![Main] = "executeAll"]
    /\ UNCHANGED <<jobs, close, condition, workerVars, mailVars, added, served,
                   op, at, item, minIndex, minLen, before>>

(* Mutant: executeAll calls the front without popping it. *)
ExecutePeek ==
    /\ cpc[Main] = "executeAll" /\ executing = NoTask
    /\ executeQueue # <<>>
    /\ executing' = Head(executeQueue)
    /\ UNCHANGED <<jobs, close, condition, workerVars, clientVars, executeQueue, delivered, added, served>>

ExecutePop ==
    /\ cpc[Main] = "executeAll" /\ executing = NoTask
    /\ executeQueue # <<>>
    /\ executing' = Head(executeQueue)
    /\ executeQueue' = Tail(executeQueue)
    /\ UNCHANGED <<jobs, close, condition, workerVars, clientVars, delivered, added, served>>

ExecuteCall ==
    /\ cpc[Main] = "executeAll" /\ executing # NoTask
    /\ delivered' = Append(delivered, executing)
    /\ executing' = NoTask
    /\ UNCHANGED <<jobs, close, condition, workerVars, clientVars, executeQueue, added, served>>

ExecuteEnd ==
    /\ cpc[Main] = "executeAll" /\ executing = NoTask
    /\ executeQueue = <<>>
    /\ cpc' = [cpc EXCEPT ![Main] = "idle"]
    /\ UNCHANGED <<jobs, close, condition, workerVars, mailVars, added, served,
                   op, at, item, minIndex, minLen, before>>

-----------------------------------------------------------------------------
Run(w) == WorkerBlock(w) \/ WorkerExit(w) \/ WorkerTake(w) \/ WorkerRun(w)
             \/ WorkerPost(w) \/ WorkerPop(w)

InPool(c) == Scan(c) \/ AddTask(c) \/ WaitBlock(c) \/ WaitReturn(c)

ExecuteAll == ExecuteBegin \/ ExecutePop \/ ExecuteCall \/ ExecuteEnd

Next ==
    \/ \E w \in Threads : Run(w) \/ SpuriousWake(w)
    \/ \E c \in Clients, t \in Tasks : CallAdd(c, t) \/ \E w \in Threads : CallAddTo(c, t, w)
    \/ \E c \in Waiters : CallWaitAll(c) \/ \E w \in Threads : CallWait(c, w)
    \/ \E c \in Clients : InPool(c)
    \/ CallDestroy \/ CloseThread \/ JoinThread
    \/ ExecuteAll

Spec == Init /\ [][Next]_vars

(* Every OS thread that can run is scheduled: the workers, the callers     *)
(* once inside the pool, and the frame loop.  Application::start calls     *)
(* executeAll in every frame whatever else the frame calls, which is the   *)
(* strong fairness of ExecuteBegin.  Nobody is obliged to call the pool or *)
(* to destroy it.                                                          *)
Fairness ==
    /\ \A w \in Threads : WF_vars(Run(w))
    /\ \A c \in Clients : WF_vars(InPool(c))
    /\ WF_vars(CloseThread \/ JoinThread)
    /\ SF_vars(ExecuteBegin)
    /\ WF_vars(ExecuteAll)

FairSpec == Spec /\ Fairness

-----------------------------------------------------------------------------
(* Properties.                                                             *)

TypeOK ==
    /\ jobs \in [Threads -> Seq(Tasks)]
    /\ close \in [Threads -> BOOLEAN]
    /\ condition \in [Threads -> SUBSET (Clients \union {Worker})]
    /\ wpc \in [Threads -> {"wait", "job", "post", "pop", "exit"}]
    /\ task \in [Threads -> Tasks \union {NoTask}]
    /\ cpc \in [Clients -> {"idle", "scan", "add", "wait", "close", "join", "gone",
                            "executeAll"}]
    /\ op \in [Clients -> {"none", "add", "wait", "waitAll", "destroy"}]
    /\ at \in [Clients -> Threads]
    /\ item \in [Clients -> Tasks \union {NoTask}]
    /\ minIndex \in [Clients -> Threads \union {0}]
    /\ minLen \in [Clients -> Nat]
    /\ executeQueue \in Seq(Tasks)
    /\ executing \in Tasks \union {NoTask}
    /\ added \in [Threads -> Seq(Tasks)]
    /\ served \in [Threads -> Seq(Tasks)]
    /\ delivered \in Seq(Tasks)
    /\ before \in [Clients -> SUBSET Tasks]

(* The part of jobs[w] whose turn has not come: the front job stays in the *)
(* list while it runs and until its completion is posted.                  *)
Unserved(w) == IF wpc[w] \in {"post", "pop"} THEN Tail(jobs[w]) ELSE jobs[w]

(* Each thread serves exactly the tasks it was given, each once and in the *)
(* order of the addTask calls, although Thread::run works on a copy of     *)
(* jobs.front() and pops with the mutex released in between.               *)
ServedInOrder == \A w \in Threads : added[w] = served[w] \o Unserved(w)

(* With at most one thread in wait(), the single notify_one of addTask,    *)
(* run and ~Thread never goes to the wrong sleeper: a blocked worker has   *)
(* nothing to do, and a blocked waiter really has something to wait for.   *)
NoLostWakeup ==
    \A w \in Threads :
        /\ Worker \in condition[w] => jobs[w] = <<>> /\ ~close[w]
        /\ condition[w] \intersect Clients # {} => jobs[w] # <<>>

Posted == Range(executeQueue) \union Range(delivered) \union ({executing} \ {NoTask})

Submitted == UNION {Range(added[w]) : w \in Threads}

Served == UNION {Range(served[w]) : w \in Threads}

(* When wait() or waitAll() returns to its caller, every task queued when  *)
(* it was called has run and its completion has been posted: Thread::run   *)
(* pops a job only after both.                                             *)
WaitIsBarrier ==
    [][\A c \in Clients :
          cpc[c] = "wait" /\ cpc'[c] \in {"idle", "gone"} =>
              /\ before[c] \subseteq Served
              /\ before[c] \intersect HasJob \intersect HasComplete \subseteq Posted]_vars

(* The mailbox as its reader sees it: a popped completion is still in it   *)
(* until it has been called.                                               *)
Mailbox == (IF executing = NoTask THEN <<>> ELSE <<executing>>) \o executeQueue

(* Completions reach the main thread at most once, only after their job    *)
(* ran, and for two tasks of one thread in the order they were added.      *)
CompletionsInOrder ==
    LET mail == delivered \o Mailbox
    IN  /\ Range(mail) \subseteq Served \intersect HasJob \intersect HasComplete
        /\ \A w \in Threads : \A i, j \in DOMAIN mail, k, l \in DOMAIN added[w] :
              mail[i] = added[w][k] /\ mail[j] = added[w][l] => (i < j <=> k < l)

(* ~Thread loses nothing: once a worker has left, every task it was given  *)
(* has been served.                                                        *)
NothingDropped ==
    \A w \in Threads : wpc[w] = "exit" => served[w] = added[w]

(* Every added task is eventually served (no worker sleeps on a job).      *)
EveryTaskServed ==
    \A t \in Tasks : t \in Submitted ~> t \in Served

(* Every posted completion is called in some frame, unless the pool's      *)
(* owner is being torn down.                                               *)
EveryCompletionDelivered ==
    \A t \in Tasks : t \in Range(executeQueue) ~> (t \in Range(delivered) \/ Destroying)

(* wait() and waitAll() return, and the destructor ends: nobody waits on   *)
(* an empty list, and join() finds a worker that saw close.                *)
EveryWaitReturns ==
    \A c \in Clients : cpc[c] \in {"wait", "close", "join"} ~> cpc[c] \in {"idle", "gone"}

(* The pool is an executor: a task is submitted by the addTask that puts   *)
(* it in a thread's list, executed when its turn on that thread comes, and *)
(* its completion is in the mailbox from postOnMainThread until executeAll *)
(* has called it.                                                          *)
Abstract == INSTANCE Executor WITH
    WithCompletion <- HasJob \intersect HasComplete,
    submitted      <- Submitted,
    executed       <- Served,
    mailbox        <- Mailbox

(* Every behaviour of the pool is a behaviour of the executor: no task is  *)
(* run twice or before it was added, no completion is posted before its    *)
(* job ran or delivered twice, whatever the threads do.                    *)
PoolIsExecutor == Abstract!Spec
=============================================================================
