-------------------------- MODULE ThreadPoolProofs --------------------------
(***************************************************************************)
(* What holds of the thread pool for every number of threads, clients and  *)
(* tasks: order of service, wake-ups, shutdown, then that completions      *)
(* reach the main thread once and in order, that wait() and waitAll() are  *)
(* barriers, and that the pool implements the executor of module Executor. *)
(***************************************************************************)
EXTENDS ThreadPool, SequenceFacts

(* The job a worker is at is the front of its list, and stays there.       *)
WorkerInv ==
    \A w \in Threads :
        /\ wpc[w] \in {"job", "post", "pop"} => /\ jobs[w] # <<>>
                                                /\ task[w] = Head(jobs[w])
        /\ wpc[w] = "exit" => close[w]

(* A client that adds has a task in hand; a pool being destroyed has only  *)
(* its owner in it.                                                        *)
ClientInv ==
    /\ \A c \in Clients :
         /\ cpc[c] \in {"scan", "add"} => item[c] \in Tasks
         /\ cpc[c] \in {"close", "join", "gone"} => c = Main /\ Destroying
         /\ cpc[c] \in {"idle", "scan", "add", "executeAll"} => op[c] # "destroy"
         /\ op[c] = "destroy" => c = Main
         /\ Destroying => c = Main \/ cpc[c] = "idle"

(* Only a drained thread is closed.                                        *)
CloseInv ==
    /\ cpc[Main] = "close" => jobs[at[Main]] = <<>>
    /\ \A w \in Threads : close[w] => Destroying /\ jobs[w] = <<>>

Inv == TypeOK /\ WorkerInv /\ ClientInv /\ CloseInv

(* notify_one only ever removes sleepers.                                  *)
LEMMA NotifyType ==
    ASSUME NEW w \in Threads, NotifyOne(w), 
           condition \in [Threads -> SUBSET (Clients \union {Worker})]
    PROVE  /\ condition' \in [Threads -> SUBSET (Clients \union {Worker})]
           /\ \A v \in Threads : condition'[v] \subseteq condition[v]
  BY DEF NotifyOne

(* The inductive invariant holds of a new pool.                            *)
LEMMA InitInv == Init => Inv
  BY PoolAssumption, EmptySeq, SMT DEF Init, Inv, TypeOK, WorkerInv, ClientInv, CloseInv, Threads, Destroying

(* The worker's copy of the front is a task, and still the front.          *)
LEMMA FrontIsTask ==
    ASSUME Inv, NEW w \in Threads, wpc[w] \in {"job", "post", "pop"}
    PROVE  task[w] \in Tasks /\ jobs[w] # <<>> /\ task[w] = Head(jobs[w])
<1>1. jobs[w] # <<>> /\ task[w] = Head(jobs[w]) /\ jobs[w] \in Seq(Tasks)
  BY DEF Inv, TypeOK, WorkerInv
<1>2. QED
  BY <1>1, HeadTailProperties

(* The loops over the threads do not run past the last one.                *)
LEMMA NextIndex ==
    ASSUME NEW i \in Threads, i # ThreadCount \/ i < ThreadCount
    PROVE  i + 1 \in Threads
  BY PoolAssumption DEF Threads

(* Every step preserves the inductive invariant.                           *)
LEMMA StepInv == Inv /\ [Next]_vars => Inv'
<1> SUFFICES ASSUME Inv, [Next]_vars PROVE Inv'
  OBVIOUS
<1>0. Inv /\ [Next]_vars
  OBVIOUS
<1>1. ASSUME NEW w \in Threads, WorkerBlock(w)
      PROVE  Inv'
  <2>1. TypeOK'
    BY <1>0, <1>1, PoolAssumption
    DEF WorkerBlock, workerVars, clientVars, mailVars, Inv, TypeOK, Threads, WorkerInv, ClientInv
  <2>2. WorkerInv'
    BY <1>0, <1>1 DEF WorkerBlock, workerVars, clientVars, mailVars, Inv, TypeOK, WorkerInv
  <2>3. ClientInv'
    BY <1>0, <1>1, PoolAssumption
    DEF WorkerBlock, workerVars, clientVars, mailVars, Inv, TypeOK, ClientInv, Destroying
  <2>4. CloseInv'
    BY <1>0, <1>1, PoolAssumption
    DEF WorkerBlock, workerVars, clientVars, mailVars, Inv, TypeOK, WorkerInv, ClientInv, CloseInv, Destroying
  <2>5. QED  BY <2>1, <2>2, <2>3, <2>4 DEF Inv
<1>2. ASSUME NEW w \in Threads, WorkerExit(w)
      PROVE  Inv'
  <2>1. TypeOK'
    BY <1>0, <1>2, PoolAssumption
    DEF WorkerExit, workerVars, clientVars, mailVars, Inv, TypeOK, Threads, WorkerInv, ClientInv
  <2>2. WorkerInv'
    BY <1>0, <1>2 DEF WorkerExit, workerVars, clientVars, mailVars, Inv, TypeOK, WorkerInv
  <2>3. ClientInv'
    BY <1>0, <1>2, PoolAssumption
    DEF WorkerExit, workerVars, clientVars, mailVars, Inv, TypeOK, ClientInv, Destroying
  <2>4. CloseInv'
    BY <1>0, <1>2, PoolAssumption
    DEF WorkerExit, workerVars, clientVars, mailVars, Inv, TypeOK, WorkerInv, ClientInv, CloseInv, Destroying
  <2>5. QED  BY <2>1, <2>2, <2>3, <2>4 DEF Inv
<1>3. ASSUME NEW w \in Threads, WorkerTake(w)
      PROVE  Inv'
  <2>1. TypeOK'
    BY <1>0, <1>3, HeadTailProperties, PoolAssumption
    DEF WorkerTake, workerVars, clientVars, mailVars, Inv, TypeOK, Threads, WorkerInv, ClientInv
  <2>2. WorkerInv'
    BY <1>0, <1>3, HeadTailProperties DEF WorkerTake, workerVars, clientVars, mailVars, Inv, TypeOK, WorkerInv
  <2>3. ClientInv'
    BY <1>0, <1>3, HeadTailProperties, PoolAssumption
    DEF WorkerTake, workerVars, clientVars, mailVars, Inv, TypeOK, ClientInv, Destroying
  <2>4. CloseInv'
    BY <1>0, <1>3, HeadTailProperties, PoolAssumption
    DEF WorkerTake, workerVars, clientVars, mailVars, Inv, TypeOK, WorkerInv, ClientInv, CloseInv, Destroying
  <2>5. QED  BY <2>1, <2>2, <2>3, <2>4 DEF Inv
<1>4. ASSUME NEW w \in Threads, WorkerRun(w)
      PROVE  Inv'
  <2>1. TypeOK'
    <3>1. task[w] \in Tasks
      BY <1>0, <1>4, FrontIsTask DEF WorkerRun
    <3>2. Append(served[w], task[w]) \in Seq(Tasks)
      BY <1>0, <1>4, <3>1, AppendProperties DEF Inv, TypeOK
    <3>3. served' \in [Threads -> Seq(Tasks)]
      BY <1>0, <1>4, <3>2 DEF WorkerRun, Inv, TypeOK
    <3>4. wpc' \in [Threads -> {"wait", "job", "post", "pop", "exit"}]
      BY <1>0, <1>4 DEF WorkerRun, Inv, TypeOK
    <3>5. QED
      BY <1>0, <1>4, <3>1, <3>2, <3>3, <3>4 DEF WorkerRun, workerVars, clientVars, mailVars, Inv, TypeOK
  <2>2. WorkerInv'
    BY <1>0, <1>4, AppendProperties, HeadTailProperties DEF WorkerRun, workerVars, clientVars, mailVars, Inv, TypeOK, WorkerInv
  <2>3. ClientInv'
    BY <1>0, <1>4, AppendProperties, HeadTailProperties, PoolAssumption
    DEF WorkerRun, workerVars, clientVars, mailVars, Inv, TypeOK, ClientInv, Destroying
  <2>4. CloseInv'
    BY <1>0, <1>4, AppendProperties, HeadTailProperties, PoolAssumption
    DEF WorkerRun, workerVars, clientVars, mailVars, Inv, TypeOK, WorkerInv, ClientInv, CloseInv, Destroying
  <2>5. QED  BY <2>1, <2>2, <2>3, <2>4 DEF Inv
<1>5. ASSUME NEW w \in Threads, WorkerPost(w)
      PROVE  Inv'
  <2>1. TypeOK'
    <3>1. task[w] \in Tasks
      BY <1>0, <1>5, FrontIsTask DEF WorkerPost
    <3>2. executeQueue' \in Seq(Tasks)
      BY <1>0, <1>5, <3>1, AppendProperties DEF WorkerPost, Inv, TypeOK
    <3>3. QED
      BY <1>0, <1>5, <3>1, <3>2 DEF WorkerPost, workerVars, clientVars, mailVars, Inv, TypeOK
  <2>2. WorkerInv'
    BY <1>0, <1>5, AppendProperties, HeadTailProperties DEF WorkerPost, workerVars, clientVars, mailVars, Inv, TypeOK, WorkerInv
  <2>3. ClientInv'
    BY <1>0, <1>5, AppendProperties, HeadTailProperties, PoolAssumption
    DEF WorkerPost, workerVars, clientVars, mailVars, Inv, TypeOK, ClientInv, Destroying
  <2>4. CloseInv'
    BY <1>0, <1>5, AppendProperties, HeadTailProperties, PoolAssumption
    DEF WorkerPost, workerVars, clientVars, mailVars, Inv, TypeOK, WorkerInv, ClientInv, CloseInv, Destroying
  <2>5. QED  BY <2>1, <2>2, <2>3, <2>4 DEF Inv
<1>6. ASSUME NEW w \in Threads, WorkerPop(w)
      PROVE  Inv'
  <2>1. TypeOK'
    BY <1>0, <1>6, HeadTailProperties, NotifyType, PoolAssumption
    DEF WorkerPop, workerVars, clientVars, mailVars, Inv, TypeOK, Threads, WorkerInv, ClientInv
  <2>2. WorkerInv'
    BY <1>0, <1>6, HeadTailProperties, NotifyType DEF WorkerPop, workerVars, clientVars, mailVars, Inv, TypeOK, WorkerInv
  <2>3. ClientInv'
    BY <1>0, <1>6, HeadTailProperties, NotifyType, PoolAssumption
    DEF WorkerPop, workerVars, clientVars, mailVars, Inv, TypeOK, ClientInv, Destroying
  <2>4. CloseInv'
    BY <1>0, <1>6, HeadTailProperties, NotifyType, PoolAssumption
    DEF WorkerPop, workerVars, clientVars, mailVars, Inv, TypeOK, WorkerInv, ClientInv, CloseInv, Destroying
  <2>5. QED  BY <2>1, <2>2, <2>3, <2>4 DEF Inv
<1>7. ASSUME NEW w \in Threads, SpuriousWake(w)
      PROVE  Inv'
  <2>1. TypeOK'
    <3>1. condition' \in [Threads -> SUBSET (Clients \union {Worker})]
      BY <1>0, <1>7 DEF SpuriousWake, Inv, TypeOK
    <3>2. QED
      BY <1>0, <1>7, <3>1 DEF SpuriousWake, workerVars, clientVars, mailVars, Inv, TypeOK
  <2>2. WorkerInv'
    BY <1>0, <1>7 DEF SpuriousWake, workerVars, clientVars, mailVars, Inv, TypeOK, WorkerInv
  <2>3. ClientInv'
    BY <1>0, <1>7, PoolAssumption
    DEF SpuriousWake, workerVars, clientVars, mailVars, Inv, TypeOK, ClientInv, Destroying
  <2>4. CloseInv'
    BY <1>0, <1>7, PoolAssumption
    DEF SpuriousWake, workerVars, clientVars, mailVars, Inv, TypeOK, WorkerInv, ClientInv, CloseInv, Destroying
  <2>5. QED  BY <2>1, <2>2, <2>3, <2>4 DEF Inv
<1>8. ASSUME NEW c \in Clients, NEW t \in Tasks, NEW w \in Threads, CallAddTo(c, t, w)
      PROVE  Inv'
  <2>1. TypeOK'
    BY <1>0, <1>8, PoolAssumption
    DEF CallAddTo, workerVars, clientVars, mailVars, Inv, TypeOK, Threads, WorkerInv, ClientInv
  <2>2. WorkerInv'
    BY <1>0, <1>8 DEF CallAddTo, workerVars, clientVars, mailVars, Inv, TypeOK, WorkerInv
  <2>3. ClientInv'
    BY <1>0, <1>8, PoolAssumption
    DEF CallAddTo, workerVars, clientVars, mailVars, Inv, TypeOK, ClientInv, Destroying
  <2>4. CloseInv'
    BY <1>0, <1>8, PoolAssumption
    DEF CallAddTo, workerVars, clientVars, mailVars, Inv, TypeOK, WorkerInv, ClientInv, CloseInv, Destroying
  <2>5. QED  BY <2>1, <2>2, <2>3, <2>4 DEF Inv
<1>9. ASSUME NEW c \in Clients, NEW t \in Tasks, CallAdd(c, t)
      PROVE  Inv'
  <2>1. TypeOK'
    <3>1. 1 \in Threads
      BY <1>0, <1>9, PoolAssumption DEF Threads
    <3>2. at' \in [Clients -> Threads]
      BY <1>0, <1>9, <3>1 DEF CallAdd, Inv, TypeOK
    <3>3. minIndex' \in [Clients -> Threads \union {0}] /\ minLen' \in [Clients -> Nat]
      BY <1>0, <1>9 DEF CallAdd, Inv, TypeOK
    <3>4. QED
      BY <1>0, <1>9, <3>1, <3>2, <3>3 DEF CallAdd, workerVars, clientVars, mailVars, Inv, TypeOK
  <2>2. WorkerInv'
    BY <1>0, <1>9 DEF CallAdd, workerVars, clientVars, mailVars, Inv, TypeOK, WorkerInv
  <2>3. ClientInv'
    BY <1>0, <1>9, PoolAssumption
    DEF CallAdd, workerVars, clientVars, mailVars, Inv, TypeOK, ClientInv, Destroying
  <2>4. CloseInv'
    BY <1>0, <1>9, PoolAssumption
    DEF CallAdd, workerVars, clientVars, mailVars, Inv, TypeOK, WorkerInv, ClientInv, CloseInv, Destroying
  <2>5. QED  BY <2>1, <2>2, <2>3, <2>4 DEF Inv
<1>10. ASSUME NEW c \in Clients, Scan(c)
      PROVE  Inv'
  <2>1. TypeOK'
    <3>1. Len(jobs[at[c]]) \in Nat
      BY <1>0, <1>10, LenProperties DEF Inv, TypeOK
    <3>2. minIndex' \in [Clients -> Threads \union {0}]
      BY <1>0, <1>10 DEF Scan, Inv, TypeOK
    <3>3. minLen' \in [Clients -> Nat]
      BY <1>0, <1>10, <3>1 DEF Scan, Inv, TypeOK
    <3>4. at[c] # ThreadCount => at[c] + 1 \in Threads
      BY <1>0, <1>10, NextIndex DEF Inv, TypeOK
    <3>5. at' \in [Clients -> Threads]
      BY <1>0, <1>10, <3>4 DEF Scan, Inv, TypeOK
    <3>6. cpc' \in [Clients -> {"idle", "scan", "add", "wait", "close", "join", "gone", "executeAll"}]
      BY <1>0, <1>10 DEF Scan, Inv, TypeOK
    <3>7. QED
      BY <1>0, <1>10, <3>1, <3>2, <3>3, <3>4, <3>5, <3>6 DEF Scan, workerVars, clientVars, mailVars, Inv, TypeOK
  <2>2. WorkerInv'
    BY <1>0, <1>10 DEF Scan, workerVars, clientVars, mailVars, Inv, TypeOK, WorkerInv
  <2>3. ClientInv'
    BY <1>0, <1>10, PoolAssumption
    DEF Scan, workerVars, clientVars, mailVars, Inv, TypeOK, ClientInv, Destroying
  <2>4. CloseInv'
    BY <1>0, <1>10, PoolAssumption
    DEF Scan, workerVars, clientVars, mailVars, Inv, TypeOK, WorkerInv, ClientInv, CloseInv, Destroying
  <2>5. QED  BY <2>1, <2>2, <2>3, <2>4 DEF Inv
<1>11. ASSUME NEW c \in Clients, AddTask(c)
      PROVE  Inv'
  <2>1. TypeOK'
    BY <1>0, <1>11, AppendProperties, TailAppend, NotifyType, PoolAssumption
    DEF AddTask, workerVars, clientVars, mailVars, Inv, TypeOK, Threads, WorkerInv, ClientInv
  <2>2. WorkerInv'
    <3> SUFFICES ASSUME NEW v \in Threads
                 PROVE  (/\ wpc[v] \in {"job", "post", "pop"} => jobs[v] # <<>> /\ task[v] = Head(jobs[v])
                         /\ wpc[v] = "exit" => close[v])'
      BY DEF WorkerInv
    <3>1. item[c] \in Tasks /\ at[c] \in Threads /\ jobs \in [Threads -> Seq(Tasks)]
      BY <1>0, <1>11 DEF AddTask, Inv, TypeOK, ClientInv
    <3>2. jobs'[v] = jobs[v] \/ jobs'[v] = Append(jobs[v], item[c])
      BY <1>11, <3>1 DEF AddTask
    <3>3. jobs[v] # <<>> => jobs'[v] # <<>> /\ Head(jobs'[v]) = Head(jobs[v])
      BY <3>1, <3>2, AppendProperties, TailAppend
    <3>4. QED
      BY <1>0, <1>11, <3>3 DEF AddTask, workerVars, Inv, TypeOK, WorkerInv
  <2>3. ClientInv'
    BY <1>0, <1>11, PoolAssumption, SMTT(30)
    DEF AddTask, workerVars, clientVars, mailVars, Inv, TypeOK, ClientInv, Destroying
  <2>4. CloseInv'
    <3>1. ~Destroying
      BY <1>0, <1>11, PoolAssumption DEF AddTask, Inv, ClientInv, Destroying
    <3>2. cpc'[Main] # "close" /\ close' = close
      BY <1>0, <1>11, <3>1, PoolAssumption DEF AddTask, Inv, TypeOK, ClientInv
    <3>3. QED
      BY <1>0, <3>1, <3>2 DEF Inv, CloseInv
  <2>5. QED  BY <2>1, <2>2, <2>3, <2>4 DEF Inv
<1>12. ASSUME NEW c \in Clients, NEW w \in Threads, CallWait(c, w)
      PROVE  Inv'
  <2>1. TypeOK'
    <3>1. before' \in [Clients -> SUBSET Tasks]
      BY <1>0, <1>12, RangeOfSeq DEF CallWait, Inv, TypeOK
    <3>2. QED
      BY <1>0, <1>12, <3>1 DEF CallWait, workerVars, clientVars, mailVars, Inv, TypeOK
  <2>2. WorkerInv'
    BY <1>0, <1>12, RangeOfSeq DEF CallWait, workerVars, clientVars, mailVars, Inv, TypeOK, WorkerInv
  <2>3. ClientInv'
    BY <1>0, <1>12, PoolAssumption, SMTT(30)
    DEF CallWait, workerVars, clientVars, mailVars, Inv, TypeOK, ClientInv, Destroying
  <2>4. CloseInv'
    BY <1>0, <1>12, RangeOfSeq, PoolAssumption
    DEF CallWait, workerVars, clientVars, mailVars, Inv, TypeOK, WorkerInv, ClientInv, CloseInv, Destroying
  <2>5. QED  BY <2>1, <2>2, <2>3, <2>4 DEF Inv
<1>13. ASSUME NEW c \in Clients, CallWaitAll(c)
      PROVE  Inv'
  <2>1. TypeOK'
    <3>1. UNION {Range(jobs[w]) : w \in Threads} \subseteq Tasks
      BY <1>0, <1>13, RangeOfSeq DEF Inv, TypeOK
    <3>2. before' \in [Clients -> SUBSET Tasks]
      BY <1>0, <1>13, <3>1 DEF CallWaitAll, Inv, TypeOK
    <3>3. 1 \in Threads
      BY <1>0, <1>13, PoolAssumption DEF Threads
    <3>4. at' \in [Clients -> Threads]
      BY <1>0, <1>13, <3>3 DEF CallWaitAll, Inv, TypeOK
    <3>5. QED
      BY <1>0, <1>13, <3>1, <3>2, <3>3, <3>4 DEF CallWaitAll, workerVars, clientVars, mailVars, Inv, TypeOK
  <2>2. WorkerInv'
    BY <1>0, <1>13, RangeOfSeq DEF CallWaitAll, workerVars, clientVars, mailVars, Inv, TypeOK, WorkerInv
  <2>3. ClientInv'
    BY <1>0, <1>13, RangeOfSeq, PoolAssumption
    DEF CallWaitAll, workerVars, clientVars, mailVars, Inv, TypeOK, ClientInv, Destroying
  <2>4. CloseInv'
    BY <1>0, <1>13, RangeOfSeq, PoolAssumption
    DEF CallWaitAll, workerVars, clientVars, mailVars, Inv, TypeOK, WorkerInv, ClientInv, CloseInv, Destroying
  <2>5. QED  BY <2>1, <2>2, <2>3, <2>4 DEF Inv
<1>14. ASSUME CallDestroy
      PROVE  Inv'
  <2>1. TypeOK'
    <3>1. UNION {Range(jobs[w]) : w \in Threads} \subseteq Tasks
      BY <1>0, <1>14, RangeOfSeq DEF Inv, TypeOK
    <3>2. before' \in [Clients -> SUBSET Tasks]
      BY <1>0, <1>14, <3>1 DEF CallDestroy, Inv, TypeOK
    <3>3. 1 \in Threads
      BY <1>0, <1>14, PoolAssumption DEF Threads
    <3>4. at' \in [Clients -> Threads]
      BY <1>0, <1>14, <3>3 DEF CallDestroy, Inv, TypeOK
    <3>5. QED
      BY <1>0, <1>14, <3>1, <3>2, <3>3, <3>4 DEF CallDestroy, workerVars, clientVars, mailVars, Inv, TypeOK
  <2>2. WorkerInv'
    BY <1>0, <1>14, RangeOfSeq, PoolAssumption DEF CallDestroy, workerVars, clientVars, mailVars, Inv, TypeOK, WorkerInv
  <2>3. ClientInv'
    BY <1>0, <1>14, RangeOfSeq, PoolAssumption
    DEF CallDestroy, workerVars, clientVars, mailVars, Inv, TypeOK, ClientInv, Destroying
  <2>4. CloseInv'
    BY <1>0, <1>14, RangeOfSeq, PoolAssumption
    DEF CallDestroy, workerVars, clientVars, mailVars, Inv, TypeOK, WorkerInv, ClientInv, CloseInv, Destroying
  <2>5. QED  BY <2>1, <2>2, <2>3, <2>4 DEF Inv
<1>15. ASSUME NEW c \in Clients, WaitBlock(c)
      PROVE  Inv'
  <2>1. TypeOK'
    <3>1. condition' \in [Threads -> SUBSET (Clients \union {Worker})]
      BY <1>0, <1>15 DEF WaitBlock, Inv, TypeOK
    <3>2. QED
      BY <1>0, <1>15, <3>1 DEF WaitBlock, workerVars, clientVars, mailVars, Inv, TypeOK
  <2>2. WorkerInv'
    BY <1>0, <1>15 DEF WaitBlock, workerVars, clientVars, mailVars, Inv, TypeOK, WorkerInv
  <2>3. ClientInv'
    BY <1>0, <1>15, PoolAssumption
    DEF WaitBlock, workerVars, clientVars, mailVars, Inv, TypeOK, ClientInv, Destroying
  <2>4. CloseInv'
    BY <1>0, <1>15, PoolAssumption
    DEF WaitBlock, workerVars, clientVars, mailVars, Inv, TypeOK, WorkerInv, ClientInv, CloseInv, Destroying
  <2>5. QED  BY <2>1, <2>2, <2>3, <2>4 DEF Inv
<1>16. ASSUME NEW c \in Clients, WaitReturn(c)
      PROVE  Inv'
  <2>1. TypeOK'
    <3>1. at[c] < ThreadCount => at[c] + 1 \in Threads
      BY <1>0, <1>16, NextIndex DEF Inv, TypeOK
    <3>2. at' \in [Clients -> Threads]
      BY <1>0, <1>16, <3>1 DEF WaitReturn, Inv, TypeOK
    <3>3. cpc' \in [Clients -> {"idle", "scan", "add", "wait", "close", "join", "gone", "executeAll"}]
      BY <1>0, <1>16 DEF WaitReturn, Inv, TypeOK
    <3>4. op' \in [Clients -> {"none", "add", "wait", "waitAll", "destroy"}]
      BY <1>0, <1>16 DEF WaitReturn, Inv, TypeOK
    <3>5. QED
      BY <1>0, <1>16, <3>1, <3>2, <3>3, <3>4 DEF WaitReturn, workerVars, clientVars, mailVars, Inv, TypeOK
  <2>2. WorkerInv'
    BY <1>0, <1>16 DEF WaitReturn, workerVars, clientVars, mailVars, Inv, TypeOK, WorkerInv
  <2>3. ClientInv'
    BY <1>0, <1>16, PoolAssumption
    DEF WaitReturn, workerVars, clientVars, mailVars, Inv, TypeOK, ClientInv, Destroying
  <2>4. CloseInv'
    BY <1>0, <1>16, PoolAssumption
    DEF WaitReturn, workerVars, clientVars, mailVars, Inv, TypeOK, WorkerInv, ClientInv, CloseInv, Destroying
  <2>5. QED  BY <2>1, <2>2, <2>3, <2>4 DEF Inv
<1>17. ASSUME CloseThread
      PROVE  Inv'
  <2>1. TypeOK'
    BY <1>0, <1>17, NotifyType, PoolAssumption
    DEF CloseThread, workerVars, clientVars, mailVars, Inv, TypeOK, Threads, WorkerInv, ClientInv
  <2>2. WorkerInv'
    BY <1>0, <1>17, NotifyType DEF CloseThread, workerVars, clientVars, mailVars, Inv, TypeOK, WorkerInv
  <2>3. ClientInv'
    BY <1>0, <1>17, NotifyType, PoolAssumption
    DEF CloseThread, workerVars, clientVars, mailVars, Inv, TypeOK, ClientInv, Destroying
  <2>4. CloseInv'
    BY <1>0, <1>17, NotifyType, PoolAssumption
    DEF CloseThread, workerVars, clientVars, mailVars, Inv, TypeOK, WorkerInv, ClientInv, CloseInv, Destroying
  <2>5. QED  BY <2>1, <2>2, <2>3, <2>4 DEF Inv
<1>18. ASSUME JoinThread
      PROVE  Inv'
  <2>1. TypeOK'
    <3>1. at' \in [Clients -> Threads]
      BY <1>0, <1>18, NextIndex, PoolAssumption DEF JoinThread, Inv, TypeOK
    <3>2. cpc' \in [Clients -> {"idle", "scan", "add", "wait", "close", "join", "gone", "executeAll"}]
      BY <1>0, <1>18 DEF JoinThread, Inv, TypeOK
    <3>3. QED
      BY <1>0, <1>18, <3>1, <3>2 DEF JoinThread, workerVars, clientVars, mailVars, Inv, TypeOK
  <2>2. WorkerInv'
    BY <1>0, <1>18 DEF JoinThread, workerVars, clientVars, mailVars, Inv, TypeOK, WorkerInv
  <2>3. ClientInv'
    BY <1>0, <1>18, PoolAssumption
    DEF JoinThread, workerVars, clientVars, mailVars, Inv, TypeOK, ClientInv, Destroying
  <2>4. CloseInv'
    BY <1>0, <1>18, PoolAssumption
    DEF JoinThread, workerVars, clientVars, mailVars, Inv, TypeOK, WorkerInv, ClientInv, CloseInv, Destroying
  <2>5. QED  BY <2>1, <2>2, <2>3, <2>4 DEF Inv
<1>19. ASSUME ExecuteBegin
      PROVE  Inv'
  <2>1. TypeOK'
    BY <1>0, <1>19, PoolAssumption
    DEF ExecuteBegin, workerVars, clientVars, mailVars, Inv, TypeOK, Threads, WorkerInv, ClientInv
  <2>2. WorkerInv'
    BY <1>0, <1>19 DEF ExecuteBegin, workerVars, clientVars, mailVars, Inv, TypeOK, WorkerInv
  <2>3. ClientInv'
    BY <1>0, <1>19, PoolAssumption
    DEF ExecuteBegin, workerVars, clientVars, mailVars, Inv, TypeOK, ClientInv, Destroying
  <2>4. CloseInv'
    BY <1>0, <1>19, PoolAssumption
    DEF ExecuteBegin, workerVars, clientVars, mailVars, Inv, TypeOK, WorkerInv, ClientInv, CloseInv, Destroying
  <2>5. QED  BY <2>1, <2>2, <2>3, <2>4 DEF Inv
<1>20. ASSUME ExecutePop
      PROVE  Inv'
  <2>1. TypeOK'
    BY <1>0, <1>20, HeadTailProperties, PoolAssumption
    DEF ExecutePop, workerVars, clientVars, mailVars, Inv, TypeOK, Threads, WorkerInv, ClientInv
  <2>2. WorkerInv'
    BY <1>0, <1>20, HeadTailProperties DEF ExecutePop, workerVars, clientVars, mailVars, Inv, TypeOK, WorkerInv
  <2>3. ClientInv'
    BY <1>0, <1>20, HeadTailProperties, PoolAssumption
    DEF ExecutePop, workerVars, clientVars, mailVars, Inv, TypeOK, ClientInv, Destroying
  <2>4. CloseInv'
    BY <1>0, <1>20, HeadTailProperties, PoolAssumption
    DEF ExecutePop, workerVars, clientVars, mailVars, Inv, TypeOK, WorkerInv, ClientInv, CloseInv, Destroying
  <2>5. QED  BY <2>1, <2>2, <2>3, <2>4 DEF Inv
<1>21. ASSUME ExecuteCall
      PROVE  Inv'
  <2>1. TypeOK'
    BY <1>0, <1>21, AppendProperties, PoolAssumption
    DEF ExecuteCall, workerVars, clientVars, mailVars, Inv, TypeOK, Threads, WorkerInv, ClientInv
  <2>2. WorkerInv'
    BY <1>0, <1>21, AppendProperties DEF ExecuteCall, workerVars, clientVars, mailVars, Inv, TypeOK, WorkerInv
  <2>3. ClientInv'
    BY <1>0, <1>21, AppendProperties, PoolAssumption
    DEF ExecuteCall, workerVars, clientVars, mailVars, Inv, TypeOK, ClientInv, Destroying
  <2>4. CloseInv'
    BY <1>0, <1>21, AppendProperties, PoolAssumption
    DEF ExecuteCall, workerVars, clientVars, mailVars, Inv, TypeOK, WorkerInv, ClientInv, CloseInv, Destroying
  <2>5. QED  BY <2>1, <2>2, <2>3, <2>4 DEF Inv
<1>22. ASSUME ExecuteEnd
      PROVE  Inv'
  <2>1. TypeOK'
    BY <1>0, <1>22, PoolAssumption
    DEF ExecuteEnd, workerVars, clientVars, mailVars, Inv, TypeOK, Threads, WorkerInv, ClientInv
  <2>2. WorkerInv'
    BY <1>0, <1>22 DEF ExecuteEnd, workerVars, clientVars, mailVars, Inv, TypeOK, WorkerInv
  <2>3. ClientInv'
    BY <1>0, <1>22, PoolAssumption
    DEF ExecuteEnd, workerVars, clientVars, mailVars, Inv, TypeOK, ClientInv, Destroying
  <2>4. CloseInv'
    BY <1>0, <1>22, PoolAssumption
    DEF ExecuteEnd, workerVars, clientVars, mailVars, Inv, TypeOK, WorkerInv, ClientInv, CloseInv, Destroying
  <2>5. QED  BY <2>1, <2>2, <2>3, <2>4 DEF Inv
<1>23. CASE UNCHANGED vars
  BY <1>0, <1>23
  DEF vars, workerVars, clientVars, mailVars, Inv, TypeOK, WorkerInv, ClientInv, CloseInv, Destroying
<1>24. QED
  BY <1>0, PoolAssumption, <1>1, <1>2, <1>3, <1>4, <1>5, <1>6, <1>7, <1>8, <1>9, <1>10, <1>11,
     <1>12, <1>13, <1>14, <1>15, <1>16, <1>17, <1>18, <1>19, <1>20, <1>21, <1>22, <1>23
  DEF Next, Run, InPool, ExecuteAll

(* So it always holds.                                                     *)
LEMMA AlwaysInv == Spec => []Inv
  BY InitInv, StepInv, PTL DEF Spec

(* The shape of the pool's state, for any number of threads, clients and   *)
(* tasks: run() never pops an empty list, addTask's scan stays inside the  *)
(* pool.                                                                   *)
THEOREM TypeCorrect == Spec => []TypeOK
<1>1. Inv => TypeOK
  BY DEF Inv
<1>2. QED
  BY <1>1, AlwaysInv, PTL

-----------------------------------------------------------------------------
(* Order of service.                                                       *)

(* Every step preserves the order of service.                              *)
LEMMA StepServed == Inv /\ ServedInOrder /\ [Next]_vars => ServedInOrder'
<1> SUFFICES ASSUME Inv, ServedInOrder, [Next]_vars, NEW v \in Threads
             PROVE  added'[v] = served'[v] \o Unserved(v)'
  BY DEF ServedInOrder
<1>0. /\ jobs \in [Threads -> Seq(Tasks)] /\ served \in [Threads -> Seq(Tasks)]
      /\ added \in [Threads -> Seq(Tasks)] /\ wpc \in [Threads -> {"wait", "job", "post", "pop", "exit"}]
      /\ at \in [Clients -> Threads]
      /\ added[v] = served[v] \o Unserved(v)
      /\ Main \in Clients
  BY PoolAssumption DEF Inv, TypeOK, ServedInOrder
<1>1. CASE /\ UNCHANGED <<jobs, served, added>>
           /\ wpc'[v] \in {"post", "pop"} <=> wpc[v] \in {"post", "pop"}
  BY <1>0, <1>1 DEF Unserved
<1>2. ASSUME NEW w \in Threads, WorkerRun(w)
      PROVE  added'[v] = served'[v] \o Unserved(v)'
  <2>1. CASE v # w
    BY <1>0, <1>2, <2>1 DEF WorkerRun, Unserved
  <2>2. CASE v = w
    <3>1. jobs[v] # <<>> /\ task[v] = Head(jobs[v])
      BY <1>2, <2>2, FrontIsTask DEF WorkerRun
    <3>2. served'[v] = Append(served[v], Head(jobs[v])) /\ Unserved(v)' = Tail(jobs[v])
          /\ Unserved(v) = jobs[v] /\ added' = added
      BY <1>0, <1>2, <2>2, <3>1 DEF WorkerRun, Unserved
    <3>3. served[v] \in Seq(Tasks) /\ jobs[v] \in Seq(Tasks)
      BY <1>0
    <3>4. served[v] \o jobs[v] = Append(served[v], Head(jobs[v])) \o Tail(jobs[v])
      BY <3>1, <3>3, ServeFront
    <3>5. QED
      BY <1>0, <3>2, <3>4
  <2>3. QED
    BY <2>1, <2>2
<1>3. ASSUME NEW w \in Threads, WorkerPop(w)
      PROVE  added'[v] = served'[v] \o Unserved(v)'
  BY <1>0, <1>3 DEF WorkerPop, Unserved
<1>4. ASSUME NEW c \in Clients, AddTask(c)
      PROVE  added'[v] = served'[v] \o Unserved(v)'
  <2>1. CASE v # at[c]
    BY <1>0, <1>4, <2>1 DEF AddTask, Unserved, workerVars
  <2>2. CASE v = at[c]
    <3>1. item[c] \in Tasks
      BY <1>4 DEF AddTask, Inv, ClientInv
    <3>2. Unserved(v) \in Seq(Tasks) /\ Unserved(v)' = Append(Unserved(v), item[c])
      <4>1. CASE wpc[v] \in {"post", "pop"}
        BY <1>0, <1>4, <2>2, <3>1, <4>1, FrontIsTask, TailAppend, HeadTailProperties
        DEF AddTask, Unserved, workerVars
      <4>2. CASE wpc[v] \notin {"post", "pop"}
        BY <1>0, <1>4, <2>2, <4>2 DEF AddTask, Unserved, workerVars
      <4>3. QED
        BY <4>1, <4>2
    <3>3. added'[v] = Append(added[v], item[c]) /\ served'[v] = served[v]
      BY <1>0, <1>4, <2>2 DEF AddTask
    <3>4. served[v] \in Seq(Tasks) /\ Unserved(v) \in Seq(Tasks)
      BY <1>0, <3>2
    <3>5. added'[v] = served[v] \o Unserved(v)'
      <4>1. added[v] = served[v] \o Unserved(v)
        BY <1>0
      <4>2. Unserved(v)' = Append(Unserved(v), item[c])
        BY <3>2
      <4>3. added'[v] = Append(added[v], item[c])
        BY <3>3
      <4>4. added[v] \in Seq(Tasks)
        BY <1>0
      <4>5. Append(added[v], item[c]) = served[v] \o Append(Unserved(v), item[c])
        BY <3>1, <3>4, <4>1, <4>4, AddAtEnd
      <4>6. QED
        BY <3>1, <3>4, <4>1, <4>2, <4>3, <4>4, <4>5
    <3>6. QED
      BY <3>3, <3>5
  <2>3. QED
    BY <2>1, <2>2
<1>5. CASE \E w \in Threads : WorkerBlock(w) \/ WorkerExit(w) \/ WorkerTake(w) \/ WorkerPost(w)
                                \/ SpuriousWake(w)
  BY <1>0, <1>1, <1>5
  DEF WorkerBlock, WorkerExit, WorkerTake, WorkerPost, SpuriousWake, workerVars
<1>6. CASE \/ \E c \in Clients, t \in Tasks : CallAdd(c, t) \/ \E w \in Threads : CallAddTo(c, t, w)
           \/ \E c \in Waiters : CallWaitAll(c) \/ \E w \in Threads : CallWait(c, w)
           \/ \E c \in Clients : Scan(c) \/ WaitBlock(c) \/ WaitReturn(c)
           \/ CallDestroy \/ CloseThread \/ JoinThread \/ ExecuteAll
           \/ UNCHANGED vars
  BY <1>1, <1>6
  DEF CallAdd, CallAddTo, CallWaitAll, CallWait, Scan, WaitBlock, WaitReturn, CallDestroy,
      CloseThread, JoinThread, ExecuteAll, ExecuteBegin, ExecutePop, ExecuteCall, ExecuteEnd,
      workerVars, vars
<1>7. QED
  BY <1>2, <1>3, <1>4, <1>5, <1>6 DEF Next, Run, InPool

(* Every thread serves exactly the tasks it was given, once each, in the   *)
(* order they were added.                                                  *)
THEOREM FirstComeFirstServed == Spec => []ServedInOrder
<1>1. Init => ServedInOrder
  <2> SUFFICES ASSUME Init, NEW w \in Threads
               PROVE  added[w] = served[w] \o Unserved(w)
    BY DEF ServedInOrder
  <2>1. added[w] = <<>> /\ served[w] = <<>> /\ Unserved(w) = <<>>
    BY DEF Init, Unserved
  <2>2. QED
    BY <2>1, ConcatEmptySeq, EmptySeq
<1>2. QED
  BY <1>1, StepServed, AlwaysInv, PTL DEF Spec

(* ~Thread loses no task: a worker that has left has served everything.    *)
THEOREM ShutdownServesAll == Spec => []NothingDropped
<1>1. Inv /\ ServedInOrder => NothingDropped
  <2> SUFFICES ASSUME Inv, ServedInOrder, NEW w \in Threads, wpc[w] = "exit"
               PROVE  served[w] = added[w]
    BY DEF NothingDropped
  <2>1. jobs[w] = <<>> /\ served[w] \in Seq(Tasks)
    BY DEF Inv, WorkerInv, CloseInv, TypeOK
  <2>2. added[w] = served[w] \o <<>>
    BY <2>1 DEF ServedInOrder, Unserved
  <2>3. QED
    BY <2>1, <2>2, ConcatEmptySeq
<1>2. QED
  BY <1>1, AlwaysInv, FirstComeFirstServed, PTL

-----------------------------------------------------------------------------
(* Wake-ups.                                                               *)

(* Who may be asleep on a thread's condition variable.                     *)
SleepInv ==
    /\ \A w \in Threads :
         Worker \in condition[w] => wpc[w] = "wait" /\ jobs[w] = <<>> /\ ~close[w]
    /\ \A w \in Threads, c \in Clients :
         c \in condition[w] => cpc[c] = "wait" /\ at[c] = w /\ jobs[w] # <<>>
    /\ \A c \in Clients : cpc[c] = "wait" => c \in Waiters \/ Destroying

(* With a single waiting client nobody else sleeps beside it.              *)
LEMMA OneSleeper ==
    ASSUME \A a, b \in Waiters : a = b, Inv, SleepInv, NEW w \in Threads
    PROVE  \A p, q \in condition[w] : p = q
<1> SUFFICES ASSUME NEW p \in condition[w], NEW q \in condition[w]
             PROVE  p = q
  OBVIOUS
<1>1. p \in Clients \union {Worker} /\ q \in Clients \union {Worker}
  BY DEF Inv, TypeOK
<1>2. CASE p \in Clients /\ q \in Clients
  <2>1. cpc[p] = "wait" /\ cpc[q] = "wait"
    BY <1>2 DEF SleepInv
  <2>2. CASE Destroying
    BY <1>2, <2>1, <2>2 DEF Inv, ClientInv
  <2>3. CASE ~Destroying
    BY <1>2, <2>1, <2>3 DEF SleepInv
  <2>4. QED
    BY <2>2, <2>3
<1>3. CASE p = Worker /\ q \in Clients
  BY <1>3 DEF SleepInv
<1>4. CASE p \in Clients /\ q = Worker
  BY <1>4 DEF SleepInv
<1>5. QED
  BY <1>1, <1>2, <1>3, <1>4

(* Hence notify_one leaves nobody asleep on that thread, and touches no    *)
(* other.                                                                  *)
LEMMA NotifyWakes ==
    ASSUME \A a, b \in Waiters : a = b, Inv, SleepInv, NEW w \in Threads, NotifyOne(w)
    PROVE  condition' = [condition EXCEPT ![w] = {}]
<1>1. \A p, q \in condition[w] : p = q
  BY OneSleeper
<1>2. condition = [condition EXCEPT ![w] = condition[w]]
  BY DEF Inv, TypeOK
<1>3. CASE condition[w] = {}
  BY <1>2, <1>3 DEF NotifyOne
<1>4. CASE condition[w] # {}
  <2>1. PICK p \in condition[w] : condition' = [condition EXCEPT ![w] = @ \ {p}]
    BY <1>4 DEF NotifyOne
  <2>2. condition[w] \ {p} = {}
    BY <1>1
  <2>3. QED
    BY <2>1, <2>2
<1>5. QED
  BY <1>3, <1>4

(* Every step keeps sleepers and predicates in agreement.                  *)
LEMMA StepSleep ==
    ASSUME \A a, b \in Waiters : a = b
    PROVE  Inv /\ SleepInv /\ [Next]_vars => SleepInv'
<1> SUFFICES ASSUME Inv, SleepInv, [Next]_vars
             PROVE  SleepInv'
  OBVIOUS
<1> USE PoolAssumption DEF SleepInv, Destroying
<1>0. /\ jobs \in [Threads -> Seq(Tasks)] /\ close \in [Threads -> BOOLEAN]
      /\ condition \in [Threads -> SUBSET (Clients \union {Worker})]
      /\ wpc \in [Threads -> {"wait", "job", "post", "pop", "exit"}]
      /\ at \in [Clients -> Threads]
      /\ cpc \in [Clients -> {"idle", "scan", "add", "wait", "close", "join", "gone",
                              "executeAll"}]
      /\ op \in [Clients -> {"none", "add", "wait", "waitAll", "destroy"}]
  BY DEF Inv, TypeOK
<1>1. ASSUME NEW w \in Threads, WorkerBlock(w) PROVE SleepInv'
  BY <1>0, <1>1 DEF WorkerBlock, workerVars, clientVars
<1>2. ASSUME NEW w \in Threads, WorkerExit(w) \/ WorkerTake(w) \/ WorkerRun(w) \/ WorkerPost(w)
      PROVE  SleepInv'
  BY <1>0, <1>2 DEF WorkerExit, WorkerTake, WorkerRun, WorkerPost, clientVars
<1>3. ASSUME NEW w \in Threads, WorkerPop(w) PROVE SleepInv'
  <2>1. condition' = [condition EXCEPT ![w] = {}]
    BY <1>3, NotifyWakes DEF WorkerPop
  <2>2. QED
    BY <1>0, <1>3, <2>1 DEF WorkerPop, clientVars
<1>4. ASSUME NEW w \in Threads, SpuriousWake(w) PROVE SleepInv'
  BY <1>0, <1>4 DEF SpuriousWake, workerVars, clientVars
<1>5. ASSUME NEW c \in Clients, AddTask(c) PROVE SleepInv'
  <2>1. condition' = [condition EXCEPT ![at[c]] = {}] /\ at[c] \in Threads
    BY <1>0, <1>5, NotifyWakes DEF AddTask
  <2>2. QED
    BY <1>0, <1>5, <2>1 DEF AddTask, workerVars, Inv, ClientInv
<1>6. ASSUME NEW c \in Clients, WaitBlock(c) PROVE SleepInv'
  BY <1>0, <1>6 DEF WaitBlock, workerVars, clientVars
<1>7. ASSUME NEW c \in Clients, WaitReturn(c) PROVE SleepInv'
  <2>1. \A w \in Threads : c \notin condition[w]
    BY <1>0, <1>7 DEF WaitReturn
  <2>2. QED
    BY <1>0, <1>7, <2>1 DEF WaitReturn, workerVars
<1>8. CASE CloseThread
  <2>1. condition' = [condition EXCEPT ![at[Main]] = {}] /\ at[Main] \in Threads
    BY <1>0, <1>8, NotifyWakes DEF CloseThread
  <2>2. QED
    BY <1>0, <1>8, <2>1 DEF CloseThread, workerVars
<1>9. CASE CallDestroy
  BY <1>0, <1>9 DEF CallDestroy, workerVars
<1>10. CASE JoinThread
  BY <1>0, <1>10 DEF JoinThread, workerVars, Inv, ClientInv
<1>11. ASSUME NEW c \in Clients, NEW t \in Tasks,
              CallAdd(c, t) \/ \E w \in Threads : CallAddTo(c, t, w)
       PROVE  SleepInv'
  BY <1>0, <1>11 DEF CallAdd, CallAddTo, workerVars
<1>12. ASSUME NEW c \in Waiters, CallWaitAll(c) \/ \E w \in Threads : CallWait(c, w)
       PROVE  SleepInv'
  BY <1>0, <1>12 DEF CallWaitAll, CallWait, workerVars
<1>13. ASSUME NEW c \in Clients, Scan(c) PROVE SleepInv'
  BY <1>0, <1>13 DEF Scan, workerVars
<1>14. CASE ExecuteAll
  BY <1>0, <1>14
  DEF ExecuteAll, ExecuteBegin, ExecutePop, ExecuteCall, ExecuteEnd, workerVars, clientVars
<1>15. CASE UNCHANGED vars
  BY <1>15 DEF vars, workerVars, clientVars
<1>16. QED
  BY <1>1, <1>2, <1>3, <1>4, <1>5, <1>6, <1>7, <1>8, <1>9, <1>10, <1>11, <1>12, <1>13, <1>14,
     <1>15 DEF Next, Run, InPool

(* No wake-up is lost as long as one client waits, whatever the number of  *)
(* threads, of adding clients and of tasks, and however the condition      *)
(* variable chooses: the one condition variable for two predicates, with   *)
(* notify_one everywhere, is safe under that usage (and only under it).    *)
THEOREM WakeupsArrive ==
    ASSUME \A a, b \in Waiters : a = b
    PROVE  Spec => []NoLostWakeup
<1>1. Init => SleepInv
  BY DEF Init, SleepInv
<1>2. Inv /\ SleepInv /\ [Next]_vars => SleepInv'
  BY StepSleep
<1>3. SleepInv => NoLostWakeup
  BY DEF SleepInv, NoLostWakeup
<1>4. QED
  BY <1>1, <1>2, <1>3, AlwaysInv, PTL DEF Spec

-----------------------------------------------------------------------------
(* The pool against Executor: no task is in two places, and the mail holds *)
(* the completions of exactly the tasks that were answered.                *)

Answering == HasJob \intersect HasComplete

(* All completions ever posted, those that were called first.              *)
Mail == delivered \o Mailbox

(* No task is in two places: lists, positions of a list, callers' hands.   *)
OnceInv ==
    /\ \A w, v \in Threads : \A k \in 1 .. Len(added[w]), l \in 1 .. Len(added[v]) :
          added[w][k] = added[v][l] => w = v /\ k = l
    /\ \A c \in Clients, w \in Threads : \A k \in 1 .. Len(added[w]) : added[w][k] # item[c]
    /\ \A c, d \in Clients : item[c] = item[d] /\ item[c] # NoTask => c = d

(* The task a worker holds after running it is the last one served.        *)
RunInv ==
    \A w \in Threads :
        /\ wpc[w] \in {"post", "pop"} => /\ Len(served[w]) \in Nat \ {0}
                                         /\ served[w][Len(served[w])] = task[w]
        /\ wpc[w] = "post" => task[w] \in Answering

(* How many of the tasks w has served have had their completion posted.    *)
Answered(w) == IF wpc[w] = "post" THEN Len(served[w]) - 1 ELSE Len(served[w])

(* The mail holds the completions of exactly those, in order of service.   *)
MailInv ==
    /\ \A i \in 1 .. Len(Mail) :
          /\ Mail[i] \in Answering
          /\ \E w \in Threads : \E k \in 1 .. Answered(w) : Mail[i] = served[w][k]
    /\ \A w \in Threads : \A k \in 1 .. Answered(w) :
          served[w][k] \in Answering => \E i \in 1 .. Len(Mail) : Mail[i] = served[w][k]
    /\ \A w \in Threads : \A i, j \in 1 .. Len(Mail), k, l \in 1 .. Len(served[w]) :
          Mail[i] = served[w][k] /\ Mail[j] = served[w][l] => (i < j <=> k < l)

(* How many of the tasks given to w have left its list.                    *)
Popped(w) == Len(added[w]) - Len(jobs[w])

(* What a caller of wait() or waitAll() waits for is in the list it is at, *)
(* or in a later one, or has been popped.                                  *)
Awaited(c, t) ==
    \E w \in Threads : \E k \in 1 .. Len(added[w]) :
        /\ t = added[w][k]
        /\ op[c] = "wait" => w = at[c]
        /\ op[c] = "waitAll" /\ w < at[c] => k <= Popped(w)

WaitInv ==
    \A c \in Clients : cpc[c] = "wait" =>
        /\ op[c] \in {"wait", "waitAll", "destroy"}
        /\ op[c] # "destroy" => \A t \in before[c] : Awaited(c, t)

-----------------------------------------------------------------------------
(* A task is added once.                                                   *)

(* Types that the proofs below keep needing.                               *)
LEMMA Shapes ==
    ASSUME Inv
    PROVE  /\ jobs \in [Threads -> Seq(Tasks)] /\ added \in [Threads -> Seq(Tasks)]
           /\ served \in [Threads -> Seq(Tasks)]
           /\ \A w \in Threads : /\ Len(added[w]) \in Nat /\ DOMAIN added[w] = 1 .. Len(added[w])
                                 /\ Len(served[w]) \in Nat /\ DOMAIN served[w] = 1 .. Len(served[w])
                                 /\ Len(jobs[w]) \in Nat /\ DOMAIN jobs[w] = 1 .. Len(jobs[w])
           /\ wpc \in [Threads -> {"wait", "job", "post", "pop", "exit"}]
           /\ task \in [Threads -> Tasks \union {NoTask}]
           /\ item \in [Clients -> Tasks \union {NoTask}] /\ at \in [Clients -> Threads]
           /\ executeQueue \in Seq(Tasks) /\ delivered \in Seq(Tasks)
           /\ executing \in Tasks \union {NoTask}
<1>1. TypeOK
  BY DEF Inv
<1>2. QED
  BY <1>1, LenProperties DEF TypeOK

(* What addTask does to the lists of all threads.                          *)
LEMMA AddedBy ==
    ASSUME Inv, NEW c \in Clients, AddTask(c)
    PROVE  /\ item[c] \in Tasks /\ at[c] \in Threads /\ item' = [item EXCEPT ![c] = NoTask]
           /\ Len(added'[at[c]]) = Len(added[at[c]]) + 1
           /\ added'[at[c]][Len(added[at[c]]) + 1] = item[c]
           /\ \A k \in 1 .. Len(added[at[c]]) : added'[at[c]][k] = added[at[c]][k]
           /\ \A w \in Threads : w # at[c] => added'[w] = added[w] /\ jobs'[w] = jobs[w]
           /\ Len(jobs'[at[c]]) = Len(jobs[at[c]]) + 1
           /\ UNCHANGED <<served, wpc, task, executeQueue, executing, delivered>>
<1>1. item[c] \in Tasks /\ at[c] \in Threads
  BY Shapes DEF AddTask, Inv, ClientInv
<1>2. /\ added'[at[c]] = Append(added[at[c]], item[c]) /\ jobs'[at[c]] = Append(jobs[at[c]], item[c])
      /\ \A w \in Threads : w # at[c] => added'[w] = added[w] /\ jobs'[w] = jobs[w]
      /\ item' = [item EXCEPT ![c] = NoTask]
      /\ UNCHANGED <<served, wpc, task, executeQueue, executing, delivered>>
  BY <1>1, Shapes DEF AddTask, workerVars, mailVars
<1>3. added[at[c]] \in Seq(Tasks) /\ jobs[at[c]] \in Seq(Tasks)
  BY <1>1, Shapes
<1>4. QED
  BY <1>1, <1>2, <1>3, AppendProperties

(* Every step keeps tasks from being added twice.                          *)
LEMMA StepOnce == Inv /\ OnceInv /\ [Next]_vars => OnceInv'
<1> SUFFICES ASSUME Inv, OnceInv, [Next]_vars PROVE OnceInv'
  OBVIOUS
<1>1. CASE UNCHANGED <<added, item>>
  BY <1>1 DEF OnceInv
<1>2. ASSUME NEW c \in Clients, NEW t \in Tasks,
             CallAdd(c, t) \/ \E w \in Threads : CallAddTo(c, t, w)
      PROVE  OnceInv'
  <2>1. added' = added /\ item' = [item EXCEPT ![c] = t] /\ Unused(t)
    BY <1>2 DEF CallAdd, CallAddTo
  <2>2. \A w \in Threads : \A k \in 1 .. Len(added[w]) : added[w][k] # t
    BY <2>1, Shapes DEF Unused, Range
  <2>3. \A d \in Clients : item[d] # t
    BY <2>1 DEF Unused
  <2>4. \A d \in Clients : item'[d] = IF d = c THEN t ELSE item[d]
    BY <2>1, Shapes
  <2>5. QED
    BY <2>1, <2>2, <2>3, <2>4 DEF OnceInv
<1>3. ASSUME NEW c \in Clients, AddTask(c) PROVE OnceInv'
  <2>1. \A d \in Clients : item'[d] = IF d = c THEN NoTask ELSE item[d]
    BY <1>3, AddedBy, Shapes
  <2>2. ASSUME NEW w \in Threads, NEW k \in 1 .. Len(added'[w])
        PROVE  \/ k \in 1 .. Len(added[w]) /\ added'[w][k] = added[w][k]
               \/ w = at[c] /\ k = Len(added[w]) + 1 /\ added'[w][k] = item[c]
    <3>1. at[c] \in Threads /\ Len(added[w]) \in Nat
      BY <1>3, Shapes
    <3>2. CASE w = at[c]
      <4>1. Len(added'[w]) = Len(added[w]) + 1 /\ added'[w][Len(added[w]) + 1] = item[c]
            /\ \A j \in 1 .. Len(added[w]) : added'[w][j] = added[w][j]
        BY <1>3, <3>2, AddedBy
      <4>2. QED
        BY <3>1, <3>2, <4>1
    <3>3. CASE w # at[c]
      BY <1>3, <3>3, AddedBy
    <3>4. QED
      BY <3>2, <3>3
  <2>3. ASSUME NEW w \in Threads, NEW v \in Threads,
               NEW k \in 1 .. Len(added'[w]), NEW l \in 1 .. Len(added'[v]),
               added'[w][k] = added'[v][l]
        PROVE  w = v /\ k = l
    BY <2>2, <2>3 DEF OnceInv
  <2>4. ASSUME NEW d \in Clients, NEW w \in Threads, NEW k \in 1 .. Len(added'[w])
        PROVE  added'[w][k] # item'[d]
    <3>1. item[c] \in Tasks /\ added'[w][k] \in Tasks
      <4>1. item[c] \in Tasks
        BY <1>3, AddedBy
      <4>2. \A j \in 1 .. Len(added[w]) : added[w][j] \in Tasks
        BY Shapes, ElementOfSeq
      <4>3. QED
        BY <2>2, <4>1, <4>2
    <3>2. CASE d = c
      BY <2>1, <3>1, <3>2, PoolAssumption
    <3>3. CASE d # c
      BY <2>1, <2>2, <3>1, <3>3, PoolAssumption DEF OnceInv
    <3>4. QED
      BY <3>2, <3>3
  <2>5. \A d, e \in Clients : item'[d] = item'[e] /\ item'[d] # NoTask => d = e
    BY <2>1 DEF OnceInv
  <2>6. QED
    BY <2>3, <2>4, <2>5 DEF OnceInv
<1>4. CASE \/ \E w \in Threads : Run(w) \/ SpuriousWake(w)
           \/ \E c \in Waiters : CallWaitAll(c) \/ \E w \in Threads : CallWait(c, w)
           \/ \E c \in Clients : Scan(c) \/ WaitBlock(c) \/ WaitReturn(c)
           \/ CallDestroy \/ CloseThread \/ JoinThread \/ ExecuteAll
           \/ UNCHANGED vars
  BY <1>1, <1>4
  DEF Run, WorkerBlock, WorkerExit, WorkerTake, WorkerRun, WorkerPost, WorkerPop, SpuriousWake,
      CallWaitAll, CallWait, Scan, WaitBlock, WaitReturn, CallDestroy, CloseThread, JoinThread,
      ExecuteAll, ExecuteBegin, ExecutePop, ExecuteCall, ExecuteEnd, clientVars, vars
<1>5. QED
  BY <1>2, <1>3, <1>4 DEF Next, InPool

(* The first part of what was added has been served, the rest is waiting.  *)
LEMMA ServedPrefix ==
    ASSUME Inv, ServedInOrder, NEW w \in Threads
    PROVE  /\ Unserved(w) \in Seq(Tasks) /\ Len(Unserved(w)) \in Nat
           /\ Len(added[w]) = Len(served[w]) + Len(Unserved(w))
           /\ \A k \in 1 .. Len(served[w]) : added[w][k] = served[w][k]
           /\ \A k \in 1 .. Len(Unserved(w)) : added[w][Len(served[w]) + k] = Unserved(w)[k]
<1>1. Unserved(w) \in Seq(Tasks)
  BY Shapes, FrontIsTask, HeadTailProperties DEF Unserved
<1>2. served[w] \in Seq(Tasks) /\ added[w] = served[w] \o Unserved(w) /\ Len(served[w]) \in Nat
  BY Shapes DEF ServedInOrder
<1>3. Len(Unserved(w)) \in Nat
  BY <1>1, LenProperties
<1>4. /\ Len(added[w]) = Len(served[w]) + Len(Unserved(w))
      /\ \A k \in 1 .. Len(served[w]) + Len(Unserved(w)) :
            added[w][k] = IF k <= Len(served[w]) THEN served[w][k]
                          ELSE Unserved(w)[k - Len(served[w])]
  BY <1>1, <1>2, ConcatProperties
<1>5. ASSUME NEW k \in 1 .. Len(Unserved(w))
      PROVE  added[w][Len(served[w]) + k] = Unserved(w)[k]
  <2>1. /\ Len(served[w]) + k \in 1 .. Len(served[w]) + Len(Unserved(w))
        /\ ~(Len(served[w]) + k <= Len(served[w]))
        /\ (Len(served[w]) + k) - Len(served[w]) = k
    BY <1>2, <1>3
  <2>2. QED
    BY <1>4, <2>1
<1>6. ASSUME NEW k \in 1 .. Len(served[w])
      PROVE  added[w][k] = served[w][k]
  BY <1>2, <1>3, <1>4
<1>7. QED
  BY <1>1, <1>3, <1>4, <1>5, <1>6

(* Hence no task is served twice.                                          *)
LEMMA ServedOnce ==
    ASSUME Inv, ServedInOrder, OnceInv, NEW w \in Threads, NEW v \in Threads,
           NEW k \in 1 .. Len(served[w]), NEW l \in 1 .. Len(served[v]),
           served[w][k] = served[v][l]
    PROVE  w = v /\ k = l
<1>1. k \in 1 .. Len(added[w]) /\ l \in 1 .. Len(added[v])
  BY ServedPrefix, Shapes, SMTT(30)
<1>2. added[w][k] = added[v][l]
  BY ServedPrefix
<1>3. QED
  BY <1>1, <1>2 DEF OnceInv

-----------------------------------------------------------------------------
(* The mailbox.                                                            *)

(* The mailbox holds tasks.                                                *)
LEMMA MailType ==
    ASSUME Inv
    PROVE  Mailbox \in Seq(Tasks) /\ Mail \in Seq(Tasks) /\ Len(Mail) \in Nat
<1>1. executeQueue \in Seq(Tasks) /\ delivered \in Seq(Tasks) /\ executing \in Tasks \union {NoTask}
  BY Shapes
<1>2. Mailbox \in Seq(Tasks)
  <2>1. CASE executing = NoTask
    BY <1>1, <2>1, ConcatEmptySeq DEF Mailbox
  <2>2. CASE executing # NoTask
    BY <1>1, <2>2, HeadTailCons DEF Mailbox
  <2>3. QED
    BY <2>1, <2>2
<1>3. Mail \in Seq(Tasks)
  BY <1>1, <1>2, ConcatProperties DEF Mail
<1>4. QED
  BY <1>2, <1>3, LenProperties

(* postOnMainThread puts the completion last.                              *)
LEMMA PostedLast ==
    ASSUME Inv, NEW w \in Threads, WorkerPost(w)
    PROVE  /\ task[w] \in Tasks /\ Mailbox' = Append(Mailbox, task[w])
           /\ Mail' = Append(Mail, task[w])
<1>1. task[w] \in Tasks
  BY FrontIsTask DEF WorkerPost
<1>2. /\ executeQueue' = Append(executeQueue, task[w]) /\ executing' = executing
      /\ delivered' = delivered
  BY DEF WorkerPost
<1>3. executeQueue \in Seq(Tasks) /\ delivered \in Seq(Tasks) /\ executing \in Tasks \union {NoTask}
  BY Shapes
<1> DEFINE called == IF executing = NoTask THEN <<>> ELSE <<executing>>
<1>4. called \in Seq(Tasks) /\ Mailbox = called \o executeQueue
      /\ Mailbox' = called \o Append(executeQueue, task[w])
  BY <1>2, <1>3, EmptySeq DEF Mailbox
<1>5. Mailbox' = Append(Mailbox, task[w])
  BY <1>1, <1>3, <1>4, MailType, AddAtEnd
<1>6. Mail' = Append(Mail, task[w])
  <2>1. Mail = delivered \o Mailbox /\ Mail' = delivered \o Append(Mailbox, task[w])
    BY <1>2, <1>5 DEF Mail
  <2>2. QED
    BY <1>1, <1>3, <2>1, MailType, AddAtEnd
<1>7. QED
  BY <1>1, <1>5, <1>6

(* executeAll's pop leaves the mailbox as its reader sees it.              *)
LEMMA PopKeepsMail ==
    ASSUME Inv, ExecutePop
    PROVE  Mailbox' = Mailbox /\ delivered' = delivered
<1>1. /\ executing = NoTask /\ executeQueue # <<>> /\ executeQueue \in Seq(Tasks)
      /\ executing' = Head(executeQueue) /\ executeQueue' = Tail(executeQueue)
      /\ delivered' = delivered
  BY Shapes DEF ExecutePop
<1>2. Head(executeQueue) \in Tasks
  BY <1>1, HeadTailProperties
<1>3. executing' # NoTask
  BY <1>1, <1>2, PoolAssumption
<1>4. Mailbox = executeQueue
  BY <1>1, ConcatEmptySeq DEF Mailbox
<1>5. Mailbox' = <<Head(executeQueue)>> \o Tail(executeQueue)
  BY <1>1, <1>3 DEF Mailbox
<1>6. QED
  BY <1>1, <1>4, <1>5, ConsHeadTail

(* The call takes the first completion out of the mailbox.                 *)
LEMMA CallTakesFirst ==
    ASSUME Inv, ExecuteCall
    PROVE  /\ Mailbox # <<>> /\ delivered' = Append(delivered, Head(Mailbox))
           /\ Mailbox' = Tail(Mailbox) /\ Mail' = Mail
<1>1. /\ executing \in Tasks /\ executing # NoTask /\ executeQueue \in Seq(Tasks) /\ delivered \in Seq(Tasks)
      /\ delivered' = Append(delivered, executing) /\ executing' = NoTask
      /\ executeQueue' = executeQueue
  BY Shapes DEF ExecuteCall
<1>2. Mailbox = <<executing>> \o executeQueue
  BY <1>1 DEF Mailbox
<1>3. /\ Mailbox \in Seq(Tasks) /\ Mailbox # <<>> /\ Head(Mailbox) = executing
      /\ Tail(Mailbox) = executeQueue
  BY <1>1, <1>2, HeadTailCons
<1>4. Mailbox' = executeQueue
  BY <1>1, ConcatEmptySeq DEF Mailbox
<1>5. delivered \o Mailbox = Append(delivered, Head(Mailbox)) \o Tail(Mailbox)
  BY <1>1, <1>3, ServeFront
<1>6. QED
  BY <1>1, <1>3, <1>4, <1>5 DEF Mail

(* What a worker's run of its job does to the history.                     *)
LEMMA RunServes ==
    ASSUME Inv, NEW w \in Threads, WorkerRun(w)
    PROVE  /\ task[w] \in Tasks /\ task' = task
           /\ Len(served'[w]) = Len(served[w]) + 1 /\ served'[w][Len(served[w]) + 1] = task[w]
           /\ \A k \in 1 .. Len(served[w]) : served'[w][k] = served[w][k]
           /\ \A v \in Threads : v # w => served'[v] = served[v] /\ wpc'[v] = wpc[v]
           /\ wpc[w] = "job" /\ wpc'[w] = IF task[w] \in Answering THEN "post" ELSE "pop"
           /\ UNCHANGED <<added, Mailbox, delivered>>
<1>1. task[w] \in Tasks /\ served[w] \in Seq(Tasks)
  BY FrontIsTask, Shapes DEF WorkerRun
<1>2. served'[w] = Append(served[w], task[w])
      /\ \A v \in Threads : v # w => served'[v] = served[v] /\ wpc'[v] = wpc[v]
  BY Shapes DEF WorkerRun
<1>3. wpc[w] = "job" /\ wpc'[w] = IF task[w] \in Answering THEN "post" ELSE "pop"
  BY Shapes DEF WorkerRun, Answering
<1>4. /\ Len(served'[w]) = Len(served[w]) + 1 /\ served'[w][Len(served[w]) + 1] = task[w]
      /\ \A k \in 1 .. Len(served[w]) : served'[w][k] = served[w][k]
  BY <1>1, <1>2, AppendProperties
<1>5. task' = task /\ UNCHANGED <<added, Mailbox, delivered>>
  BY DEF WorkerRun, mailVars, Mailbox
<1>6. QED
  BY <1>1, <1>2, <1>3, <1>4, <1>5

(* The steps that touch neither history nor mailbox nor a running job.     *)
LEMMA QuietSteps ==
    ASSUME Inv, [Next]_vars,
           ~\E w \in Threads : WorkerRun(w) \/ WorkerPost(w),
           ~\E c \in Clients : AddTask(c)
    PROVE  /\ UNCHANGED <<added, served, Mail>>
           /\ UNCHANGED <<Mailbox, delivered>> \/ ExecuteCall
           /\ \A w \in Threads :
                 \/ wpc'[w] = wpc[w] /\ task'[w] = task[w] /\ jobs'[w] = jobs[w]
                 \/ wpc[w] # "post" /\ wpc'[w] \notin {"post", "pop"} /\ jobs'[w] = jobs[w]
                 \/ wpc[w] = "pop" /\ wpc'[w] = "wait" /\ jobs'[w] = Tail(jobs[w])
<1>1. CASE UNCHANGED <<jobs, wpc, task, added, served, mailVars>>
  BY <1>1 DEF mailVars, Mail, Mailbox
<1>2. ASSUME NEW w \in Threads, WorkerBlock(w) \/ SpuriousWake(w)
      PROVE  UNCHANGED <<jobs, wpc, task, added, served, mailVars>>
  BY <1>2 DEF WorkerBlock, SpuriousWake, workerVars
<1>3. CASE \E w \in Threads : WorkerExit(w) \/ WorkerTake(w)
  <2>1. UNCHANGED <<added, served, jobs, Mailbox, delivered, Mail>>
    BY <1>3 DEF WorkerExit, WorkerTake, mailVars, Mail, Mailbox
  <2>2. PICK v \in Threads : WorkerExit(v) \/ WorkerTake(v)
    BY <1>3
  <2>3. \A w \in Threads : \/ w # v /\ wpc'[w] = wpc[w] /\ task'[w] = task[w]
                           \/ wpc[w] = "wait" /\ wpc'[w] \in {"exit", "job"}
    BY <2>2, Shapes DEF WorkerExit, WorkerTake
  <2>4. QED
    BY <2>1, <2>3
<1>4. CASE \E w \in Threads : WorkerPop(w)
  BY <1>4, Shapes DEF WorkerPop, mailVars, Mail, Mailbox
<1>5. CASE \/ \E c \in Clients, t \in Tasks : CallAdd(c, t) \/ \E w \in Threads : CallAddTo(c, t, w)
           \/ \E c \in Waiters : CallWaitAll(c) \/ \E w \in Threads : CallWait(c, w)
           \/ \E c \in Clients : Scan(c) \/ WaitBlock(c) \/ WaitReturn(c)
           \/ CallDestroy \/ CloseThread \/ JoinThread \/ ExecuteBegin \/ ExecuteEnd
           \/ UNCHANGED vars
  BY <1>1, <1>5
  DEF CallAdd, CallAddTo, CallWaitAll, CallWait, Scan, WaitBlock, WaitReturn, CallDestroy,
      CloseThread, JoinThread, ExecuteBegin, ExecuteEnd, workerVars, vars
<1>6. CASE ExecutePop
  BY <1>6, PopKeepsMail DEF ExecutePop, workerVars, Mail
<1>7. CASE ExecuteCall
  BY <1>7, CallTakesFirst DEF ExecuteCall, workerVars
<1>8. QED
  BY <1>1, <1>2, <1>3, <1>4, <1>5, <1>6, <1>7 DEF Next, Run, InPool, ExecuteAll

(* Every step keeps the worker's task the last one served.                 *)
LEMMA StepRun == Inv /\ RunInv /\ [Next]_vars => RunInv'
<1> SUFFICES ASSUME Inv, RunInv, [Next]_vars, NEW v \in Threads
             PROVE  (/\ wpc[v] \in {"post", "pop"} => /\ Len(served[v]) \in Nat \ {0}
                                                     /\ served[v][Len(served[v])] = task[v]
                     /\ wpc[v] = "post" => task[v] \in Answering)'
  BY DEF RunInv, Answering
<1>1. ASSUME NEW w \in Threads, WorkerRun(w)
      PROVE  (/\ wpc[v] \in {"post", "pop"} => /\ Len(served[v]) \in Nat \ {0}
                                              /\ served[v][Len(served[v])] = task[v]
              /\ wpc[v] = "post" => task[v] \in Answering)'
  <2>1. CASE v = w
    <3>1. Len(served[v]) \in Nat /\ Len(served'[v]) = Len(served[v]) + 1
          /\ served'[v][Len(served[v]) + 1] = task[v] /\ task' = task
          /\ wpc'[v] = IF task[v] \in Answering THEN "post" ELSE "pop"
      BY <1>1, <2>1, RunServes, Shapes
    <3>2. QED
      BY <3>1 DEF Answering
  <2>2. CASE v # w
    <3>1. served'[v] = served[v] /\ wpc'[v] = wpc[v] /\ task' = task
      BY <1>1, <2>2, RunServes
    <3>2. QED
      BY <3>1 DEF RunInv, Answering
  <2>3. QED
    BY <2>1, <2>2
<1>2. ASSUME NEW w \in Threads, WorkerPost(w)
      PROVE  (/\ wpc[v] \in {"post", "pop"} => /\ Len(served[v]) \in Nat \ {0}
                                              /\ served[v][Len(served[v])] = task[v]
              /\ wpc[v] = "post" => task[v] \in Answering)'
  BY <1>2, Shapes DEF WorkerPost, RunInv, Answering
<1>3. ASSUME NEW c \in Clients, AddTask(c)
      PROVE  (/\ wpc[v] \in {"post", "pop"} => /\ Len(served[v]) \in Nat \ {0}
                                              /\ served[v][Len(served[v])] = task[v]
              /\ wpc[v] = "post" => task[v] \in Answering)'
  BY <1>3, AddedBy DEF RunInv, Answering
<1>4. CASE /\ ~\E w \in Threads : WorkerRun(w) \/ WorkerPost(w)
           /\ ~\E c \in Clients : AddTask(c)
  BY <1>4, QuietSteps DEF RunInv, Answering
<1>5. QED
  BY <1>1, <1>2, <1>3, <1>4

(* The task a worker is about to run is the first it has not served.       *)
LEMMA NotYetServed ==
    ASSUME Inv, ServedInOrder, OnceInv, NEW w \in Threads, wpc[w] = "job"
    PROVE  /\ Len(served[w]) + 1 \in 1 .. Len(added[w])
           /\ task[w] = added[w][Len(served[w]) + 1]
           /\ \A v \in Threads : \A m \in 1 .. Len(served[v]) : served[v][m] # task[w]
<1>1. jobs[w] # <<>> /\ task[w] = Head(jobs[w]) /\ Unserved(w) = jobs[w] /\ jobs[w] \in Seq(Tasks)
  BY FrontIsTask, Shapes DEF Unserved
<1>2. Len(jobs[w]) \in Nat \ {0} /\ Head(jobs[w]) = jobs[w][1] /\ Len(served[w]) \in Nat
  BY <1>1, EmptySeq, HeadTailProperties, Shapes
<1>3. /\ Len(added[w]) = Len(served[w]) + Len(jobs[w])
      /\ \A k \in 1 .. Len(jobs[w]) : added[w][Len(served[w]) + k] = jobs[w][k]
  BY <1>1, ServedPrefix
<1>4. Len(served[w]) + 1 \in 1 .. Len(added[w]) /\ added[w][Len(served[w]) + 1] = task[w]
  <2>1. 1 \in 1 .. Len(jobs[w])
    BY <1>2
  <2>2. added[w][Len(served[w]) + 1] = jobs[w][1]
    BY <1>3, <2>1
  <2>3. added[w][Len(served[w]) + 1] = task[w]
    BY <1>1, <1>2, <2>2
  <2>4. Len(added[w]) = Len(served[w]) + Len(jobs[w])
    BY <1>3
  <2>5. Len(served[w]) + 1 \in 1 .. Len(added[w])
    BY <1>2, <2>1, <2>4, Offset
  <2>6. QED
    BY <2>3, <2>5
<1>5. ASSUME NEW v \in Threads, NEW m \in 1 .. Len(served[v]), served[v][m] = task[w]
      PROVE  FALSE
  <2>1. m \in 1 .. Len(added[v]) /\ added[v][m] = task[w]
    BY <1>5, ServedPrefix, Shapes
  <2>2. v = w /\ m = Len(served[w]) + 1
    BY <1>4, <2>1 DEF OnceInv
  <2>3. QED
    BY <1>2, <2>2
<1>6. QED
  BY <1>4, <1>5

LEMMA AddedOnce ==
    ASSUME OnceInv, NEW w \in Threads, NEW v \in Threads,
           NEW k \in 1 .. Len(added[w]), NEW l \in 1 .. Len(added[v]),
           added[w][k] = added[v][l]
    PROVE  w = v /\ k = l
  BY DEF OnceInv

LEMMA MailOrder ==
    ASSUME MailInv, NEW w \in Threads, NEW i \in 1 .. Len(Mail), NEW j \in 1 .. Len(Mail),
           NEW k \in 1 .. Len(served[w]), NEW l \in 1 .. Len(served[w]),
           Mail[i] = served[w][k], Mail[j] = served[w][l]
    PROVE  i < j <=> k < l
  BY DEF MailInv

(* Every step keeps the mail in order.                                     *)
LEMMA StepMail ==
    Inv /\ ServedInOrder /\ OnceInv /\ RunInv /\ MailInv /\ [Next]_vars => MailInv'
<1> SUFFICES ASSUME Inv, ServedInOrder, OnceInv, RunInv, MailInv, [Next]_vars
             PROVE  MailInv'
  OBVIOUS
<1>1. CASE UNCHANGED <<served, Mail>> /\ \A w \in Threads : Answered(w)' = Answered(w)
  BY <1>1 DEF MailInv, Answering
<1>2. ASSUME NEW w \in Threads, WorkerRun(w) PROVE MailInv'
  <2> DEFINE n == Len(served[w])
  <2>1. /\ n \in Nat /\ Len(served'[w]) = n + 1 /\ served'[w][n + 1] = task[w]
        /\ \A k \in 1 .. n : served'[w][k] = served[w][k]
        /\ \A v \in Threads : v # w => served'[v] = served[v] /\ Answered(v)' = Answered(v)
        /\ Answered(w) = n /\ Answered(w)' = IF task[w] \in Answering THEN n ELSE n + 1
        /\ Mail' = Mail
    <3>1. /\ n \in Nat /\ Len(served'[w]) = n + 1 /\ served'[w][n + 1] = task[w]
          /\ \A k \in 1 .. n : served'[w][k] = served[w][k]
      BY <1>2, RunServes, Shapes
    <3>2. Mail' = Mail
      BY <1>2, RunServes DEF Mail
    <3>3. \A v \in Threads : v # w => served'[v] = served[v] /\ wpc'[v] = wpc[v]
      BY <1>2, RunServes
    <3>4. wpc[w] = "job" /\ wpc'[w] = IF task[w] \in Answering THEN "post" ELSE "pop"
      BY <1>2, RunServes
    <3>5. \A v \in Threads : v # w => Answered(v)' = Answered(v)
      BY <3>3 DEF Answered
    <3>6. Answered(w) = n
      BY <3>4 DEF Answered
    <3>7. Answered(w)' = IF task[w] \in Answering THEN n ELSE n + 1
      <4>1. CASE task[w] \in Answering
        BY <3>1, <3>4, <4>1 DEF Answered
      <4>2. CASE task[w] \notin Answering
        BY <3>1, <3>4, <4>2 DEF Answered
      <4>3. QED
        BY <4>1, <4>2
    <3>8. QED
      BY <3>1, <3>2, <3>3, <3>5, <3>6, <3>7
  <2>2. \A v \in Threads : \A m \in 1 .. Len(served[v]) : served[v][m] # task[w]
    BY <1>2, NotYetServed DEF WorkerRun
  <2>3. \A v \in Threads : Answered(v) \in Int /\ Answered(v) <= Len(served[v]) /\ Len(served[v]) \in Nat
    BY Shapes DEF Answered
  <2>4. ASSUME NEW i \in 1 .. Len(Mail)
        PROVE  /\ Mail[i] \in Answering
               /\ \E v \in Threads : \E k \in 1 .. Answered(v)' : Mail[i] = served'[v][k]
    <3>1a. PICK v \in Threads : \E k \in 1 .. Answered(v) : Mail[i] = served[v][k]
      BY DEF MailInv
    <3>1. PICK k \in 1 .. Answered(v) : Mail[i] = served[v][k]
      BY <3>1a
    <3>2. k \in 1 .. Answered(v)' /\ served'[v][k] = served[v][k]
      BY <2>1, <2>3
    <3>3. Mail[i] \in Answering
      BY DEF MailInv
    <3>4. QED
      BY <3>1, <3>2, <3>3
  <2>5. ASSUME NEW v \in Threads, NEW k \in 1 .. Answered(v)', served'[v][k] \in Answering
        PROVE  \E i \in 1 .. Len(Mail) : Mail[i] = served'[v][k]
    <3>1. k \in 1 .. Answered(v) /\ served'[v][k] = served[v][k]
      <4>1. CASE v = w
        <5>1. k # n + 1
          BY <2>1, <2>5, <4>1
        <5>2. QED
          BY <2>1, <4>1, <5>1
      <4>2. CASE v # w
        BY <2>1, <4>2
      <4>3. QED
        BY <4>1, <4>2
    <3>2. QED
      BY <2>5, <3>1 DEF MailInv
  <2>6. ASSUME NEW v \in Threads, NEW i \in 1 .. Len(Mail), NEW k \in 1 .. Len(served'[v]),
               Mail[i] = served'[v][k]
        PROVE  k \in 1 .. Len(served[v]) /\ served'[v][k] = served[v][k]
    <3>1a. PICK u \in Threads : \E m \in 1 .. Answered(u) : Mail[i] = served[u][m]
      BY DEF MailInv
    <3>1. PICK m \in 1 .. Answered(u) : Mail[i] = served[u][m]
      BY <3>1a
    <3>2. Mail[i] # task[w]
      BY <2>2, <2>3, <3>1
    <3>3. CASE v = w
      <4>1. k # n + 1
        BY <2>1, <2>6, <3>2, <3>3
      <4>2. k \in 1 .. n
        BY <2>1, <3>3, <4>1
      <4>3. served'[w][k] = served[w][k]
        BY <2>1, <4>2
      <4>4. QED
        BY <3>3, <4>2, <4>3
    <3>4. CASE v # w
      BY <2>1, <3>4
    <3>5. QED
      BY <3>3, <3>4
  <2>7. ASSUME NEW v \in Threads, NEW i \in 1 .. Len(Mail), NEW j \in 1 .. Len(Mail),
               NEW k \in 1 .. Len(served'[v]), NEW l \in 1 .. Len(served'[v]),
               Mail[i] = served'[v][k], Mail[j] = served'[v][l]
        PROVE  i < j <=> k < l
    <3>1. /\ k \in 1 .. Len(served[v]) /\ Mail[i] = served[v][k]
          /\ l \in 1 .. Len(served[v]) /\ Mail[j] = served[v][l]
      BY <2>6, <2>7
    <3>2. QED
      BY <3>1 DEF MailInv
  <2>8. QED
    BY <2>1, <2>4, <2>5, <2>7, SMTT(30) DEF MailInv, Answering
<1>3. ASSUME NEW w \in Threads, WorkerPost(w) PROVE MailInv'
  <2> DEFINE n == Len(Mail)
             m == Len(served[w])
  <2>1. /\ n \in Nat /\ Len(Mail') = n + 1 /\ Mail'[n + 1] = task[w]
        /\ \A i \in 1 .. n : Mail'[i] = Mail[i]
    BY <1>3, PostedLast, MailType, AppendProperties
  <2>2. /\ served' = served /\ m \in Nat \ {0} /\ served[w][m] = task[w] /\ task[w] \in Answering
        /\ Answered(w) = m - 1 /\ Answered(w)' = m
        /\ \A v \in Threads : v # w => Answered(v)' = Answered(v)
    BY <1>3, Shapes DEF WorkerPost, RunInv, Answered
  <2>3. \A v \in Threads : Answered(v) \in Int /\ Answered(v) <= Len(served[v]) /\ Len(served[v]) \in Nat
    BY Shapes DEF Answered
  <2>4. ASSUME NEW i \in 1 .. n + 1
        PROVE  /\ Mail'[i] \in Answering
               /\ \E v \in Threads : \E k \in 1 .. Answered(v)' : Mail'[i] = served[v][k]
    <3>1. CASE i = n + 1
      BY <2>1, <2>2, <3>1
    <3>2. CASE i # n + 1
      <4>1. i \in 1 .. n /\ Mail'[i] = Mail[i]
        BY <2>1, <3>2
      <4>2a. PICK v \in Threads : \E k \in 1 .. Answered(v) : Mail[i] = served[v][k]
        BY <4>1 DEF MailInv
      <4>2. PICK k \in 1 .. Answered(v) : Mail[i] = served[v][k]
        BY <4>2a
      <4>3. k \in 1 .. Answered(v)'
        BY <2>2, <2>3
      <4>4. Mail[i] \in Answering
        BY <4>1 DEF MailInv
      <4>5. QED
        BY <4>1, <4>2, <4>3, <4>4
    <3>3. QED
      BY <3>1, <3>2
  <2>5. ASSUME NEW v \in Threads, NEW k \in 1 .. Answered(v)', served[v][k] \in Answering
        PROVE  \E i \in 1 .. n + 1 : Mail'[i] = served[v][k]
    <3>1. CASE v = w /\ k = m
      BY <2>1, <2>2, <3>1
    <3>2. CASE ~(v = w /\ k = m)
      <4>1. k \in 1 .. Answered(v)
        BY <2>2, <3>2
      <4>2. PICK i \in 1 .. n : Mail[i] = served[v][k]
        BY <2>5, <4>1 DEF MailInv
      <4>3. QED
        BY <2>1, <4>2
    <3>3. QED
      BY <3>1, <3>2
  <2>6. ASSUME NEW i \in 1 .. n, NEW k \in 1 .. m, Mail[i] = served[w][k]
        PROVE  k < m
    <3>1a. PICK u \in Threads : \E q \in 1 .. Answered(u) : Mail[i] = served[u][q]
      BY DEF MailInv
    <3>1. PICK q \in 1 .. Answered(u) : Mail[i] = served[u][q]
      BY <3>1a
    <3>2. q \in 1 .. Len(served[u])
      BY <2>3
    <3>3. k \in 1 .. Len(served[w]) /\ served[w][k] = served[u][q]
      BY <2>6, <3>1
    <3>3a. w = u /\ k = q
      BY <3>2, <3>3, ServedOnce
    <3>4. QED
      BY <2>2, <3>1, <3>3a
  <2>7. ASSUME NEW v \in Threads, NEW k \in 1 .. Len(served[v]), served[v][k] = task[w]
        PROVE  v = w /\ k = m
    <3>1. m \in 1 .. Len(served[w]) /\ served[v][k] = served[w][m]
      BY <2>2, <2>7
    <3>2. QED
      BY <3>1, ServedOnce
  <2>8. ASSUME NEW v \in Threads, NEW i \in 1 .. n + 1, NEW j \in 1 .. n + 1,
               NEW k \in 1 .. Len(served[v]), NEW l \in 1 .. Len(served[v]),
               Mail'[i] = served[v][k], Mail'[j] = served[v][l]
        PROVE  i < j <=> k < l
    <3>1. CASE i \in 1 .. n /\ j \in 1 .. n
      <4>1. Mail[i] = served[v][k] /\ Mail[j] = served[v][l]
        BY <2>1, <2>8, <3>1
      <4>2. QED
        BY <3>1, <4>1, MailOrder
    <3>2. CASE i = n + 1 /\ j \in 1 .. n
      <4>1. v = w /\ k = m
        BY <2>1, <2>7, <2>8, <3>2
      <4>2. l < m
        BY <2>1, <2>6, <2>8, <3>2, <4>1
      <4>3. QED
        BY <2>1, <2>2, <3>2, <4>1, <4>2
    <3>3. CASE i \in 1 .. n /\ j = n + 1
      <4>1. v = w /\ l = m
        BY <2>1, <2>7, <2>8, <3>3
      <4>2. k < m
        BY <2>1, <2>6, <2>8, <3>3, <4>1
      <4>3. QED
        BY <2>1, <2>2, <3>3, <4>1, <4>2
    <3>4. CASE i = n + 1 /\ j = n + 1
      BY <2>1, <2>2, <2>7, <2>8, <3>4
    <3>5. QED
      BY <2>1, <3>1, <3>2, <3>3, <3>4
  <2>9. QED
    BY <2>1, <2>2, <2>4, <2>5, <2>8 DEF MailInv, Answering
<1>4. ASSUME NEW c \in Clients, AddTask(c) PROVE MailInv'
  BY <1>1, <1>4, AddedBy DEF Answered, Mail, Mailbox
<1>5. CASE /\ ~\E w \in Threads : WorkerRun(w) \/ WorkerPost(w)
           /\ ~\E c \in Clients : AddTask(c)
  BY <1>1, <1>5, QuietSteps DEF Answered
<1>6. QED
  BY <1>2, <1>3, <1>4, <1>5

PoolInv == OnceInv /\ RunInv /\ MailInv

(* So it always holds.                                                     *)
LEMMA AlwaysPool == Spec => []PoolInv
<1>1. Init => PoolInv
  <2> SUFFICES ASSUME Init PROVE PoolInv
    OBVIOUS
  <2>1. \A w \in Threads : Len(added[w]) = 0 /\ Len(served[w]) = 0 /\ wpc[w] = "wait"
    BY EmptySeq DEF Init
  <2>2. Mailbox = <<>> /\ Mail = <<>> /\ Len(Mail) = 0
    BY EmptySeq, ConcatEmptySeq DEF Init, Mailbox, Mail
  <2>3. OnceInv
    BY <2>1 DEF Init, OnceInv
  <2>4. RunInv
    BY <2>1 DEF RunInv
  <2>5. MailInv
    BY <2>1, <2>2 DEF MailInv, Answered
  <2>6. QED
    BY <2>3, <2>4, <2>5 DEF PoolInv
<1>2. Inv /\ ServedInOrder /\ PoolInv /\ [Next]_vars => PoolInv'
  BY StepOnce, StepRun, StepMail DEF PoolInv
<1>3. QED
  BY <1>1, <1>2, AlwaysInv, FirstComeFirstServed, PTL DEF Spec

(* Completions reach the main thread at most once, after their job ran,    *)
(* and those of one thread in the order their tasks were added, for every  *)
(* number of threads posting into the one mailbox.                         *)
THEOREM MailInOrder == Spec => []CompletionsInOrder
<1>1. Inv /\ ServedInOrder /\ PoolInv => CompletionsInOrder
  <2> SUFFICES ASSUME Inv, ServedInOrder, PoolInv PROVE CompletionsInOrder
    OBVIOUS
  <2>1. /\ Mail = delivered \o Mailbox /\ Mail \in Seq(Tasks) /\ DOMAIN Mail = 1 .. Len(Mail)
    BY MailType, LenProperties DEF Mail
  <2>2. \A w \in Threads : Answered(w) \in Int /\ Answered(w) <= Len(served[w]) /\ Len(served[w]) \in Nat
    BY Shapes DEF Answered
  <2>3. ASSUME NEW i \in DOMAIN Mail
        PROVE  Mail[i] \in Served /\ Mail[i] \in Answering
    <3>1a. PICK w \in Threads : \E k \in 1 .. Answered(w) : Mail[i] = served[w][k]
      BY <2>1 DEF PoolInv, MailInv
    <3>1. PICK k \in 1 .. Answered(w) : Mail[i] = served[w][k]
      BY <3>1a
    <3>2. k \in DOMAIN served[w]
      BY <2>2, Shapes
    <3>3. Mail[i] \in Range(served[w])
      BY <3>1, <3>2 DEF Range
    <3>4. Mail[i] \in Answering
      BY <2>1 DEF PoolInv, MailInv
    <3>5. QED
      BY <3>3, <3>4 DEF Served
  <2>4. Range(Mail) \subseteq Served \intersect HasJob \intersect HasComplete
    BY <2>3 DEF Range, Answering
  <2>5. ASSUME NEW w \in Threads, NEW i \in DOMAIN Mail, NEW k \in DOMAIN added[w],
               Mail[i] = added[w][k]
        PROVE  k \in 1 .. Len(served[w]) /\ added[w][k] = served[w][k]
    <3>1a. PICK v \in Threads : \E m \in 1 .. Answered(v) : Mail[i] = served[v][m]
      BY <2>1 DEF PoolInv, MailInv
    <3>1. PICK m \in 1 .. Answered(v) : Mail[i] = served[v][m]
      BY <3>1a
    <3>2. m \in 1 .. Len(served[v]) /\ m \in 1 .. Len(added[v]) /\ added[v][m] = served[v][m]
      <4>1. PICK p \in Nat, q \in Nat : p = Len(served[v]) /\ q = Len(Unserved(v))
        BY <2>2, ServedPrefix
      <4>2. Len(added[v]) = p + q /\ \A j \in 1 .. p : added[v][j] = served[v][j]
        BY <4>1, ServedPrefix
      <4>3. Answered(v) \in Int /\ Answered(v) <= p
        BY <2>2, <4>1
      <4>4. m \in 1 .. p /\ m \in 1 .. p + q
        BY <4>3
      <4>5. QED
        BY <4>1, <4>2, <4>4
    <3>3. k \in 1 .. Len(added[w])
      BY Shapes
    <3>4. added[v][m] = added[w][k]
      BY <2>5, <3>1, <3>2
    <3>4a. v = w /\ m = k
      BY <3>2, <3>3, <3>4, AddedOnce DEF PoolInv
    <3>5. QED
      BY <3>2, <3>4a
  <2>6. ASSUME NEW w \in Threads, NEW i \in DOMAIN Mail, NEW j \in DOMAIN Mail,
               NEW k \in DOMAIN added[w], NEW l \in DOMAIN added[w],
               Mail[i] = added[w][k], Mail[j] = added[w][l]
        PROVE  i < j <=> k < l
    <3>1. /\ k \in 1 .. Len(served[w]) /\ added[w][k] = served[w][k]
          /\ l \in 1 .. Len(served[w]) /\ added[w][l] = served[w][l]
      BY <2>5, <2>6
    <3>2. Mail[i] = served[w][k] /\ Mail[j] = served[w][l] /\ i \in 1 .. Len(Mail) /\ j \in 1 .. Len(Mail)
      BY <2>1, <2>6, <3>1
    <3>3. QED
      BY <3>1, <3>2, MailOrder DEF PoolInv
  <2>7. QED
    BY <2>1, <2>4, <2>6 DEF CompletionsInOrder
<1>2. QED
  BY <1>1, AlwaysInv, FirstComeFirstServed, AlwaysPool, PTL

-----------------------------------------------------------------------------
(* wait() and waitAll() are barriers.                                      *)

(* Lists of added tasks only grow, and what was popped stays popped.       *)
LEMMA ListsGrow ==
    ASSUME Inv, [Next]_vars, NEW w \in Threads
    PROVE  /\ Len(added'[w]) \in Nat /\ Len(added[w]) <= Len(added'[w])
           /\ \A k \in 1 .. Len(added[w]) : added'[w][k] = added[w][k]
           /\ Popped(w) \in Int /\ Popped(w)' \in Int /\ Popped(w) <= Popped(w)'
<1>0. Len(added[w]) \in Nat /\ Len(jobs[w]) \in Nat
  BY Shapes
<1>1. ASSUME NEW c \in Clients, AddTask(c)
      PROVE  /\ Len(added'[w]) \in Nat /\ Len(added[w]) <= Len(added'[w])
             /\ \A k \in 1 .. Len(added[w]) : added'[w][k] = added[w][k]
             /\ Popped(w)' = Popped(w)
  <2>1. CASE w = at[c]
    <3>1. Len(added'[w]) = Len(added[w]) + 1 /\ Len(jobs'[w]) = Len(jobs[w]) + 1
          /\ \A k \in 1 .. Len(added[w]) : added'[w][k] = added[w][k]
      BY <1>1, <2>1, AddedBy
    <3>2. QED
      BY <1>0, <3>1 DEF Popped
  <2>2. CASE w # at[c]
    <3>1. added'[w] = added[w] /\ jobs'[w] = jobs[w]
      BY <1>1, <2>2, AddedBy
    <3>2. QED
      BY <1>0, <3>1 DEF Popped
  <2>3. QED
    BY <2>1, <2>2
<1>2. CASE \E v \in Threads : WorkerRun(v) \/ WorkerPost(v)
  <2>1. added' = added /\ jobs' = jobs
    BY <1>2 DEF WorkerRun, WorkerPost
  <2>2. QED
    BY <1>0, <2>1 DEF Popped
<1>3. CASE /\ ~\E v \in Threads : WorkerRun(v) \/ WorkerPost(v)
           /\ ~\E c \in Clients : AddTask(c)
  <2>1. /\ added' = added
        /\ jobs'[w] = jobs[w] \/ (wpc[w] = "pop" /\ jobs'[w] = Tail(jobs[w]))
    BY <1>3, QuietSteps
  <2>2. CASE jobs'[w] = jobs[w]
    BY <1>0, <2>1, <2>2 DEF Popped
  <2>3. CASE wpc[w] = "pop" /\ jobs'[w] = Tail(jobs[w])
    <3>1. jobs[w] # <<>> /\ jobs[w] \in Seq(Tasks)
      BY <2>3, FrontIsTask, Shapes
    <3>2. Len(jobs'[w]) = Len(jobs[w]) - 1
      BY <2>3, <3>1, HeadTailProperties
    <3>3. QED
      BY <1>0, <2>1, <3>2 DEF Popped
  <2>4. QED
    BY <2>1, <2>2, <2>3
<1>4. ASSUME Popped(w)' = Popped(w)
      PROVE  Popped(w) \in Int /\ Popped(w)' \in Int /\ Popped(w) <= Popped(w)'
  <2>1. Popped(w) \in Int
    BY <1>0 DEF Popped
  <2>2. QED
    BY <1>4, <2>1
<1>5. QED
  BY <1>1, <1>2, <1>3, <1>4

(* How a step can bring a client into wait(), or out of it.                *)
LEMMA WaitSteps ==
    ASSUME Inv, [Next]_vars, NEW c \in Clients
    PROVE  \/ /\ cpc'[c] = cpc[c] /\ op'[c] = op[c] /\ at'[c] = at[c]
              /\ before'[c] = before[c]
           \/ cpc[c] # "wait" /\ cpc'[c] # "wait"
           \/ cpc[c] # "wait" /\ op'[c] = "destroy"
           \/ cpc[c] # "wait" /\ (CallWaitAll(c) \/ \E w \in Threads : CallWait(c, w))
           \/ WaitReturn(c)
<1> DEFINE Goal ==
             \/ /\ cpc'[c] = cpc[c] /\ op'[c] = op[c] /\ at'[c] = at[c]
                /\ before'[c] = before[c]
             \/ cpc[c] # "wait" /\ cpc'[c] # "wait"
             \/ cpc[c] # "wait" /\ op'[c] = "destroy"
             \/ cpc[c] # "wait" /\ (CallWaitAll(c) \/ \E w \in Threads : CallWait(c, w))
             \/ WaitReturn(c)
<1>1. /\ cpc \in [Clients -> {"idle", "scan", "add", "wait", "close", "join", "gone", "executeAll"}]
      /\ op \in [Clients -> {"none", "add", "wait", "waitAll", "destroy"}]
      /\ at \in [Clients -> Threads] /\ before \in [Clients -> SUBSET Tasks]
      /\ Main \in Clients /\ Waiters \subseteq Clients
  BY PoolAssumption DEF Inv, TypeOK
<1>2. CASE \/ \E w \in Threads : Run(w) \/ SpuriousWake(w)
           \/ \E d \in Clients : WaitBlock(d)
           \/ ExecutePop \/ ExecuteCall \/ UNCHANGED vars
  BY <1>2 DEF Run, SpuriousWake, WorkerBlock, WorkerExit, WorkerTake, WorkerRun, WorkerPost,
              WorkerPop, WaitBlock, ExecutePop, ExecuteCall, clientVars, vars
<1>3. ASSUME NEW d \in Clients,
             \/ \E t \in Tasks : CallAdd(d, t) \/ \E w \in Threads : CallAddTo(d, t, w)
             \/ Scan(d) \/ AddTask(d)
      PROVE  Goal
  <2>1. CASE c = d
    <3>1. cpc[c] \in {"idle", "scan", "add"} /\ cpc'[c] \in {"idle", "scan", "add"}
      BY <1>1, <1>3, <2>1 DEF CallAdd, CallAddTo, Scan, AddTask
    <3>2. QED
      BY <3>1
  <2>2. CASE c # d
    <3>1. cpc'[c] = cpc[c] /\ op'[c] = op[c] /\ at'[c] = at[c] /\ before'[c] = before[c]
      BY <1>1, <1>3, <2>2 DEF CallAdd, CallAddTo, Scan, AddTask
    <3>2. QED
      BY <3>1
  <2>3. QED
    BY <2>1, <2>2
<1>4. ASSUME NEW d \in Waiters, CallWaitAll(d) \/ \E w \in Threads : CallWait(d, w)
      PROVE  Goal
  <2>1. CASE c = d
    <3>1. cpc[c] = "idle"
      BY <1>4, <2>1 DEF CallWaitAll, CallWait
    <3>2. QED
      BY <1>4, <2>1, <3>1
  <2>2. CASE c # d
    <3>1. cpc'[c] = cpc[c] /\ op'[c] = op[c] /\ at'[c] = at[c] /\ before'[c] = before[c]
      BY <1>1, <1>4, <2>2 DEF CallWaitAll, CallWait
    <3>2. QED
      BY <3>1
  <2>3. QED
    BY <2>1, <2>2
<1>5. ASSUME NEW d \in Clients, WaitReturn(d)
      PROVE  Goal
  <2>1. CASE c = d
    BY <1>5, <2>1
  <2>2. CASE c # d
    <3>1. cpc'[c] = cpc[c] /\ op'[c] = op[c] /\ at'[c] = at[c] /\ before'[c] = before[c]
      BY <1>1, <1>5, <2>2 DEF WaitReturn
    <3>2. QED
      BY <3>1
  <2>3. QED
    BY <2>1, <2>2
<1>6. CASE CallDestroy
  <2>1. \/ cpc[c] = "idle" /\ op'[c] = "destroy"
        \/ cpc'[c] = cpc[c] /\ op'[c] = op[c] /\ at'[c] = at[c] /\ before'[c] = before[c]
    BY <1>1, <1>6 DEF CallDestroy
  <2>2. QED
    BY <2>1
<1>7. CASE CloseThread \/ ExecuteBegin \/ ExecuteEnd
  <2>1. \/ cpc[c] # "wait" /\ cpc'[c] # "wait"
        \/ cpc'[c] = cpc[c] /\ op'[c] = op[c] /\ at'[c] = at[c] /\ before'[c] = before[c]
    BY <1>1, <1>7 DEF CloseThread, ExecuteBegin, ExecuteEnd
  <2>2. QED
    BY <2>1
<1>8. CASE JoinThread
  <2>1. cpc[Main] = "join" /\ op[Main] = "destroy"
    BY <1>1, <1>8 DEF JoinThread, Inv, ClientInv, Destroying
  <2>2. \/ cpc[c] # "wait" /\ op'[c] = "destroy"
        \/ cpc'[c] = cpc[c] /\ op'[c] = op[c] /\ at'[c] = at[c] /\ before'[c] = before[c]
    BY <1>1, <1>8, <2>1 DEF JoinThread
  <2>3. QED
    BY <2>2
<1>9. QED
  BY <1>2, <1>3, <1>4, <1>5, <1>6, <1>7, <1>8 DEF Next, InPool, ExecuteAll

(* A task in a list was added to that thread, after what has been popped.  *)
LEMMA QueuedIsAdded ==
    ASSUME Inv, ServedInOrder, RunInv, NEW w \in Threads, NEW t \in Range(jobs[w])
    PROVE  \E k \in 1 .. Len(added[w]) : t = added[w][k]
<1>1. PICK i \in 1 .. Len(jobs[w]) : t = jobs[w][i]
  BY Shapes DEF Range
<1>2. Len(jobs[w]) \in Nat /\ Len(served[w]) \in Nat /\ jobs[w] \in Seq(Tasks)
  BY Shapes
<1>3. /\ Len(Unserved(w)) \in Nat /\ Len(added[w]) = Len(served[w]) + Len(Unserved(w))
      /\ \A k \in 1 .. Len(served[w]) : added[w][k] = served[w][k]
      /\ \A k \in 1 .. Len(Unserved(w)) : added[w][Len(served[w]) + k] = Unserved(w)[k]
  BY ServedPrefix
<1>4. CASE wpc[w] \notin {"post", "pop"}
  <2>1. Unserved(w) = jobs[w]
    BY <1>4 DEF Unserved
  <2>2. added[w][Len(served[w]) + i] = t
    BY <1>1, <1>3, <2>1
  <2>3. Len(served[w]) + i \in 1 .. Len(added[w])
    <3>1. Len(added[w]) = Len(served[w]) + Len(jobs[w])
      BY <1>3, <2>1
    <3>2. QED
      BY <1>2, <3>1, Offset
  <2>4. QED
    BY <2>2, <2>3
<1>5. CASE wpc[w] \in {"post", "pop"} /\ i # 1
  <2>1. Unserved(w) = Tail(jobs[w]) /\ jobs[w] # <<>>
    BY <1>5, FrontIsTask DEF Unserved
  <2>2. /\ Len(Unserved(w)) = Len(jobs[w]) - 1
        /\ \A k \in 1 .. Len(Unserved(w)) : Unserved(w)[k] = jobs[w][k + 1]
    BY <1>2, <2>1, HeadTailProperties
  <2>3. i - 1 \in 1 .. Len(Unserved(w)) /\ (i - 1) + 1 = i
    BY <1>2, <1>5, <2>2
  <2>4. added[w][Len(served[w]) + (i - 1)] = t
    BY <1>1, <1>3, <2>2, <2>3
  <2>5. Len(served[w]) + (i - 1) \in 1 .. Len(added[w])
    BY <1>2, <1>3, <2>3
  <2>6. QED
    BY <2>4, <2>5
<1>6. CASE wpc[w] \in {"post", "pop"} /\ i = 1
  <2>1. jobs[w] # <<>> /\ task[w] = Head(jobs[w])
    BY <1>6, FrontIsTask
  <2>2. t = task[w]
    BY <1>1, <1>2, <1>6, <2>1, HeadTailProperties
  <2>3. Len(served[w]) \in Nat \ {0} /\ served[w][Len(served[w])] = task[w]
    BY <1>6 DEF RunInv
  <2>4. Len(served[w]) \in 1 .. Len(served[w]) /\ Len(served[w]) \in 1 .. Len(added[w])
    BY <1>3, <2>3
  <2>5. QED
    BY <1>3, <2>2, <2>3, <2>4
<1>7. QED
  BY <1>4, <1>5, <1>6

(* Every step keeps what is waited for in sight.                           *)
LEMMA StepWait ==
    Inv /\ ServedInOrder /\ RunInv /\ WaitInv /\ [Next]_vars => WaitInv'
<1> SUFFICES ASSUME Inv, ServedInOrder, RunInv, WaitInv, [Next]_vars,
                    NEW c \in Clients, cpc'[c] = "wait"
             PROVE  /\ op'[c] \in {"wait", "waitAll", "destroy"}
                    /\ op'[c] # "destroy" => \A t \in before'[c] : Awaited(c, t)'
  BY DEF WaitInv
<1>1. CASE /\ cpc'[c] = cpc[c] /\ op'[c] = op[c] /\ at'[c] = at[c]
           /\ before'[c] = before[c]
  <2>1. op[c] \in {"wait", "waitAll", "destroy"}
        /\ (op[c] # "destroy" => \A t \in before[c] : Awaited(c, t))
    BY <1>1 DEF WaitInv
  <2>2. ASSUME NEW t, Awaited(c, t)
        PROVE  Awaited(c, t)'
    <3>1. PICK w \in Threads : \E k \in 1 .. Len(added[w]) :
              /\ t = added[w][k]
              /\ op[c] = "wait" => w = at[c]
              /\ op[c] = "waitAll" /\ w < at[c] => k <= Popped(w)
      BY <2>2 DEF Awaited
    <3>2. PICK k \in 1 .. Len(added[w]) :
              /\ t = added[w][k]
              /\ op[c] = "wait" => w = at[c]
              /\ op[c] = "waitAll" /\ w < at[c] => k <= Popped(w)
      BY <3>1
    <3>3. k \in 1 .. Len(added'[w]) /\ added'[w][k] = added[w][k] /\ Len(added[w]) \in Nat
      BY ListsGrow, Shapes
    <3>4. k <= Popped(w) => k <= Popped(w)'
      BY ListsGrow
    <3>5. /\ t = added'[w][k]
          /\ op'[c] = "wait" => w = at'[c]
          /\ op'[c] = "waitAll" /\ w < at'[c] => k <= Popped(w)'
      BY <1>1, <3>2, <3>3, <3>4
    <3>6. QED
      BY <3>3, <3>5 DEF Awaited
  <2>3. QED
    BY <1>1, <2>1, <2>2
<1>2. CASE cpc[c] # "wait" /\ op'[c] = "destroy"
  BY <1>2
<1>3. ASSUME NEW v \in Threads, CallWait(c, v)
      PROVE  op'[c] = "wait" /\ \A t \in before'[c] : Awaited(c, t)'
  <2>1. op'[c] = "wait" /\ at'[c] = v /\ before'[c] = Range(jobs[v]) /\ added' = added
    BY <1>3 DEF CallWait, Inv, TypeOK
  <2>2. ASSUME NEW t \in before'[c]
        PROVE  Awaited(c, t)'
    <3>1. PICK k \in 1 .. Len(added[v]) : t = added[v][k]
      BY <2>1, QueuedIsAdded
    <3>2. QED
      BY <2>1, <3>1 DEF Awaited
  <2>3. QED
    BY <2>1, <2>2
<1>4. ASSUME CallWaitAll(c)
      PROVE  op'[c] = "waitAll" /\ \A t \in before'[c] : Awaited(c, t)'
  <2>1. /\ op'[c] = "waitAll" /\ at'[c] = 1 /\ added' = added
        /\ before'[c] = UNION {Range(jobs[w]) : w \in Threads}
    BY <1>4 DEF CallWaitAll, Inv, TypeOK
  <2>2. ASSUME NEW t \in before'[c]
        PROVE  Awaited(c, t)'
    <3>1. PICK w \in Threads : t \in Range(jobs[w])
      BY <2>1
    <3>2. PICK k \in 1 .. Len(added[w]) : t = added[w][k]
      BY <3>1, QueuedIsAdded
    <3>3. ~(w < 1)
      BY PoolAssumption DEF Threads
    <3>4. QED
      BY <2>1, <3>2, <3>3 DEF Awaited
  <2>3. QED
    BY <2>1, <2>2
<1>5. CASE WaitReturn(c)
  <2>1. /\ cpc[c] = "wait" /\ jobs[at[c]] = <<>> /\ added' = added /\ jobs' = jobs
        /\ before' = before /\ at[c] \in Threads
    BY <1>5, Shapes DEF WaitReturn
  <2>2. op[c] = "waitAll" /\ op'[c] = "waitAll" /\ at'[c] = at[c] + 1
    BY <1>5 DEF WaitReturn, Inv, TypeOK
  <2>3. Popped(at[c]) = Len(added[at[c]])
    <3>1. Len(jobs[at[c]]) = 0 /\ Len(added[at[c]]) \in Nat
      BY <2>1, EmptySeq, Shapes
    <3>2. QED
      BY <3>1 DEF Popped
  <2>4. ASSUME NEW t \in before'[c]
        PROVE  Awaited(c, t)'
    <3>1. Awaited(c, t)
      BY <2>1, <2>2 DEF WaitInv
    <3>2. PICK w \in Threads : \E k \in 1 .. Len(added[w]) :
              /\ t = added[w][k]
              /\ op[c] = "waitAll" /\ w < at[c] => k <= Popped(w)
      BY <3>1 DEF Awaited
    <3>3. PICK k \in 1 .. Len(added[w]) :
              /\ t = added[w][k]
              /\ op[c] = "waitAll" /\ w < at[c] => k <= Popped(w)
      BY <3>2
    <3>4. ASSUME w < at[c] + 1
          PROVE  k <= Popped(w)
      <4>1. w = at[c] \/ w < at[c]
        BY <2>1, <3>4, PoolAssumption DEF Threads
      <4>2. w = at[c] => k <= Popped(w)
        BY <2>1, <2>3, Shapes
      <4>3. QED
        BY <2>2, <3>3, <4>1, <4>2
    <3>5. Popped(w)' = Popped(w)
      BY <2>1 DEF Popped
    <3>6. QED
      BY <2>1, <2>2, <3>3, <3>4, <3>5 DEF Awaited
  <2>5. QED
    BY <2>2, <2>4
<1>6. QED
  BY <1>1, <1>2, <1>3, <1>4, <1>5, WaitSteps

(* A thread pops a task only after serving it and posting its completion.  *)
LEMMA PoppedIsAnswered ==
    ASSUME Inv, ServedInOrder, NEW w \in Threads
    PROVE  Popped(w) \in Int /\ Answered(w) \in Int /\ Popped(w) <= Answered(w)
           /\ Answered(w) <= Len(served[w])
<1>1. /\ Len(served[w]) \in Nat /\ Len(jobs[w]) \in Nat /\ Len(added[w]) \in Nat
      /\ jobs[w] \in Seq(Tasks)
  BY Shapes
<1>2. Len(added[w]) = Len(served[w]) + Len(Unserved(w))
  BY ServedPrefix
<1>3. CASE wpc[w] \in {"post", "pop"}
  <2>1. Unserved(w) = Tail(jobs[w]) /\ jobs[w] # <<>>
    BY <1>3, FrontIsTask DEF Unserved
  <2>2. Len(Unserved(w)) = Len(jobs[w]) - 1
    BY <1>1, <2>1, HeadTailProperties
  <2>3. Popped(w) = Len(served[w]) - 1
    BY <1>1, <1>2, <2>2 DEF Popped
  <2>4. Answered(w) \in {Len(served[w]) - 1, Len(served[w])}
    BY DEF Answered
  <2>5. QED
    BY <1>1, <2>3, <2>4
<1>4. CASE wpc[w] \notin {"post", "pop"}
  <2>1. Unserved(w) = jobs[w]
    BY <1>4 DEF Unserved
  <2>2. Popped(w) = Len(served[w])
    BY <1>1, <1>2, <2>1 DEF Popped
  <2>3. Answered(w) = Len(served[w])
    BY <1>4 DEF Answered
  <2>4. QED
    BY <1>1, <2>2, <2>3
<1>5. QED
  BY <1>3, <1>4

(* The mail is what has been posted.                                       *)
LEMMA MailIsPosted ==
    ASSUME Inv, NEW i \in 1 .. Len(Mail)
    PROVE  Mail[i] \in Posted
<1>1. /\ delivered \in Seq(Tasks) /\ Mailbox \in Seq(Tasks) /\ executeQueue \in Seq(Tasks)
      /\ executing \in Tasks \union {NoTask} /\ NoTask \notin Tasks
  BY MailType, Shapes, PoolAssumption
<1>2. /\ Len(delivered) \in Nat /\ DOMAIN delivered = 1 .. Len(delivered)
      /\ Len(Mailbox) \in Nat
      /\ Len(executeQueue) \in Nat /\ DOMAIN executeQueue = 1 .. Len(executeQueue)
  BY <1>1, LenProperties
<1>3. /\ Len(Mail) = Len(delivered) + Len(Mailbox)
      /\ \A j \in 1 .. Len(delivered) + Len(Mailbox) :
            Mail[j] = IF j <= Len(delivered) THEN delivered[j] ELSE Mailbox[j - Len(delivered)]
  BY <1>1, ConcatProperties DEF Mail
<1>4. CASE i <= Len(delivered)
  <2>1. Mail[i] = delivered[i] /\ i \in DOMAIN delivered
    BY <1>2, <1>3, <1>4
  <2>2. QED
    BY <2>1 DEF Posted, Range
<1>5. CASE i > Len(delivered)
  <2> DEFINE j == i - Len(delivered)
  <2>1. Mail[i] = Mailbox[j] /\ j \in 1 .. Len(Mailbox)
    BY <1>2, <1>3, <1>5
  <2>2. CASE executing = NoTask
    <3>1. Mailbox = executeQueue
      BY <1>1, <2>2, ConcatEmptySeq DEF Mailbox
    <3>2. QED
      BY <1>2, <2>1, <3>1 DEF Posted, Range
  <2>3. CASE executing # NoTask
    <3>1. Mailbox = <<executing>> \o executeQueue /\ executing \in Tasks
      BY <1>1, <2>3 DEF Mailbox
    <3>2. <<executing>> \in Seq(Tasks) /\ Len(<<executing>>) = 1 /\ <<executing>>[1] = executing
      BY <3>1
    <3>3. /\ Len(Mailbox) = 1 + Len(executeQueue)
          /\ \A l \in 1 .. 1 + Len(executeQueue) :
                Mailbox[l] = IF l <= 1 THEN <<executing>>[l] ELSE executeQueue[l - 1]
      BY <1>1, <3>1, <3>2, ConcatProperties
    <3>4. CASE j = 1
      BY <2>1, <2>3, <3>2, <3>3, <3>4 DEF Posted
    <3>5. CASE j # 1
      <4>0. j \in 1 .. 1 + Len(executeQueue) /\ ~(j <= 1) /\ j - 1 \in 1 .. Len(executeQueue)
        BY <1>2, <2>1, <3>3, <3>5
      <4>1. Mailbox[j] = executeQueue[j - 1] /\ j - 1 \in DOMAIN executeQueue
        BY <1>2, <3>3, <4>0
      <4>2. QED
        BY <2>1, <4>1 DEF Posted, Range
    <3>6. QED
      BY <3>4, <3>5
  <2>4. QED
    BY <2>2, <2>3
<1>6. QED
  BY <1>2, <1>4, <1>5

(* What has been popped has been served, and answered if it has an answer. *)
LEMMA PoppedIsDone ==
    ASSUME Inv, ServedInOrder, MailInv, NEW w \in Threads,
           NEW k \in 1 .. Len(added[w]), k <= Popped(w)
    PROVE  added[w][k] \in Served /\ (added[w][k] \in Answering => added[w][k] \in Posted)
<1>1. k \in 1 .. Answered(w) /\ k \in 1 .. Len(served[w]) /\ k \in DOMAIN served[w]
  BY PoppedIsAnswered, Shapes
<1>2. added[w][k] = served[w][k]
  BY <1>1, ServedPrefix
<1>3. added[w][k] \in Served
  BY <1>1, <1>2 DEF Served, Range
<1>4. ASSUME served[w][k] \in Answering
      PROVE  served[w][k] \in Posted
  <2>1. PICK i \in 1 .. Len(Mail) : Mail[i] = served[w][k]
    BY <1>1, <1>4 DEF MailInv
  <2>2. QED
    BY <2>1, MailIsPosted
<1>5. QED
  BY <1>2, <1>3, <1>4

(* When wait() or waitAll() returns, every task that was queued when it    *)
(* was called has run and its completion is posted: for any number of      *)
(* callers and threads, whoever is notified.                               *)
THEOREM WaitsAreBarriers == Spec => WaitIsBarrier
<1>1. Init => WaitInv
  BY DEF Init, WaitInv
<1>2. Inv /\ ServedInOrder /\ PoolInv /\ WaitInv /\ [Next]_vars => WaitInv'
  BY StepWait DEF PoolInv
<1>3. Inv /\ ServedInOrder /\ PoolInv /\ WaitInv /\ [Next]_vars
      => [\A c \in Clients :
            cpc[c] = "wait" /\ cpc'[c] \in {"idle", "gone"} =>
              /\ before[c] \subseteq Served
              /\ before[c] \intersect HasJob \intersect HasComplete \subseteq Posted]_vars
  <2> SUFFICES ASSUME Inv, ServedInOrder, PoolInv, WaitInv, [Next]_vars,
                      NEW c \in Clients, cpc[c] = "wait", cpc'[c] \in {"idle", "gone"},
                      NEW t \in before[c]
               PROVE  t \in Served /\ (t \in Answering => t \in Posted)
    BY DEF Answering
  <2>1. WaitReturn(c)
    BY WaitSteps
  <2>2. /\ jobs[at[c]] = <<>> /\ op[c] # "destroy" /\ at[c] \in Threads
        /\ ~(op[c] = "waitAll" /\ at[c] < ThreadCount)
    BY <2>1, Shapes DEF WaitReturn, Inv, TypeOK
  <2>3. Awaited(c, t) /\ op[c] \in {"wait", "waitAll"}
    BY <2>2 DEF WaitInv
  <2>4. PICK w \in Threads : \E k \in 1 .. Len(added[w]) :
            /\ t = added[w][k]
            /\ op[c] = "wait" => w = at[c]
            /\ op[c] = "waitAll" /\ w < at[c] => k <= Popped(w)
    BY <2>3 DEF Awaited
  <2>5. PICK k \in 1 .. Len(added[w]) :
            /\ t = added[w][k]
            /\ op[c] = "wait" => w = at[c]
            /\ op[c] = "waitAll" /\ w < at[c] => k <= Popped(w)
    BY <2>4
  <2>6. w = at[c] \/ (op[c] = "waitAll" /\ w < at[c])
    BY <2>2, <2>3, <2>5, PoolAssumption DEF Threads
  <2>7. w = at[c] => k <= Popped(w)
    <3>1. Len(jobs[at[c]]) = 0 /\ Len(added[at[c]]) \in Nat
      BY <2>2, EmptySeq, Shapes
    <3>2. Popped(at[c]) = Len(added[at[c]])
      BY <3>1 DEF Popped
    <3>3. QED
      BY <3>1, <3>2
  <2>8. k <= Popped(w)
    BY <2>5, <2>6, <2>7
  <2>9. QED
    BY <2>5, <2>8, PoppedIsDone DEF PoolInv
<1>4. QED
  BY <1>1, <1>2, <1>3, AlwaysInv, FirstComeFirstServed, AlwaysPool, PTL DEF Spec, WaitIsBarrier

-----------------------------------------------------------------------------
(* The pool implements the executor.                                       *)

(* If one of a family of sequences gets one more element, so does their    *)
(* union.                                                                  *)
LEMMA UnionAppend ==
    ASSUME NEW f, NEW g, NEW u \in Threads, NEW e,
           Range(g[u]) = Range(f[u]) \union {e},
           \A w \in Threads : w # u => g[w] = f[w]
    PROVE  \A x : (\E w \in Threads : x \in Range(g[w])) <=> (x = e \/ \E w \in Threads : x \in Range(f[w]))
  OBVIOUS

(* addTask submits its task.                                               *)
LEMMA AddIsSubmit ==
    ASSUME Inv, OnceInv, NEW c \in Clients, AddTask(c)
    PROVE  Abstract!Submit(item[c])
<1>1. /\ item[c] \in Tasks /\ at[c] \in Threads /\ added \in [Threads -> Seq(Tasks)]
      /\ added' = [added EXCEPT ![at[c]] = Append(added[at[c]], item[c])]
      /\ UNCHANGED <<served, executeQueue, executing, delivered>>
  BY AddedBy, Shapes DEF AddTask
<1>2. \A w \in Threads : item[c] \notin Range(added[w])
  BY Shapes DEF OnceInv, Range
<1>3. Range(added'[at[c]]) = Range(added[at[c]]) \union {item[c]}
  BY <1>1, RangeAppend
<1>4. \A w \in Threads : w # at[c] => added'[w] = added[w]
  BY <1>1
<1>5. Submitted' = Submitted \union {item[c]}
  <2>1. \A x : (\E w \in Threads : x \in Range(added'[w]))
              <=> (x = item[c] \/ \E w \in Threads : x \in Range(added[w]))
    BY <1>1, <1>3, <1>4, UnionAppend
  <2>2. \A x : x \in Submitted <=> \E w \in Threads : x \in Range(added[w])
    BY DEF Submitted
  <2>3. \A x : x \in Submitted' <=> \E w \in Threads : x \in Range(added'[w])
    BY DEF Submitted
  <2>4. QED
    BY <2>1, <2>2, <2>3
<1>6. item[c] \notin Submitted
  BY <1>2 DEF Submitted
<1>7. UNCHANGED <<Served, Mailbox, delivered>>
  BY <1>1 DEF Served, Mailbox
<1>8. QED
  BY <1>5, <1>6, <1>7 DEF Abstract!Submit

(* A job that runs executes its task, which was submitted and has not run. *)
LEMMA RunIsExecute ==
    ASSUME Inv, ServedInOrder, OnceInv, NEW w \in Threads, WorkerRun(w)
    PROVE  Abstract!Execute(task[w])
<1>1. /\ task[w] \in Tasks /\ served \in [Threads -> Seq(Tasks)] /\ wpc[w] = "job"
      /\ served' = [served EXCEPT ![w] = Append(served[w], task[w])]
      /\ UNCHANGED <<added, Mailbox, delivered>>
  BY RunServes, Shapes DEF WorkerRun
<1>2. Range(served'[w]) = Range(served[w]) \union {task[w]}
  BY <1>1, RangeAppend
<1>3. \A v \in Threads : v # w => served'[v] = served[v]
  BY <1>1
<1>4. Served' = Served \union {task[w]}
  <2>1. \A x : (\E v \in Threads : x \in Range(served'[v]))
              <=> (x = task[w] \/ \E v \in Threads : x \in Range(served[v]))
    BY <1>2, <1>3, UnionAppend
  <2>2. \A x : x \in Served <=> \E v \in Threads : x \in Range(served[v])
    BY DEF Served
  <2>3. \A x : x \in Served' <=> \E v \in Threads : x \in Range(served'[v])
    BY DEF Served
  <2>4. QED
    BY <2>1, <2>2, <2>3
<1>5. task[w] \in Range(added[w])
  BY <1>1, NotYetServed, Shapes DEF Range
<1>6. \A v \in Threads : task[w] \notin Range(served[v])
  BY <1>1, NotYetServed, Shapes DEF Range
<1>7. task[w] \in Submitted /\ task[w] \notin Served
  BY <1>5, <1>6 DEF Submitted, Served
<1>8. UNCHANGED <<Submitted, Mailbox, delivered>>
  BY <1>1 DEF Submitted
<1>9. QED
  BY <1>4, <1>7, <1>8 DEF Abstract!Execute

(* postOnMainThread completes a task, which has run and is not completed.  *)
LEMMA PostIsComplete ==
    ASSUME Inv, ServedInOrder, PoolInv, NEW w \in Threads, WorkerPost(w)
    PROVE  Abstract!Complete(task[w]) /\ task[w] \in Tasks
<1> DEFINE m == Len(served[w])
<1>1. /\ task[w] \in Tasks /\ Mailbox' = Append(Mailbox, task[w])
      /\ UNCHANGED <<added, served, delivered>> /\ wpc[w] = "post"
  BY PostedLast DEF WorkerPost
<1>2. m \in Nat \ {0} /\ served[w][m] = task[w] /\ task[w] \in Answering
      /\ Answered(w) = m - 1 /\ m \in 1 .. Len(served[w]) /\ m \in DOMAIN served[w]
  BY <1>1, Shapes DEF PoolInv, RunInv, Answered
<1>3. task[w] \in Served \intersect (HasJob \intersect HasComplete)
  BY <1>2 DEF Served, Range, Answering
<1>4. ASSUME NEW i \in 1 .. Len(Mail), Mail[i] = task[w]
      PROVE  FALSE
  <2>1. PICK v \in Threads : \E k \in 1 .. Answered(v) : Mail[i] = served[v][k]
    BY DEF PoolInv, MailInv
  <2>2. PICK k \in 1 .. Answered(v) : Mail[i] = served[v][k]
    BY <2>1
  <2>3. k \in 1 .. Len(served[v])
    BY PoppedIsAnswered, Shapes
  <2>4. served[v][k] = served[w][m]
    BY <1>2, <1>4, <2>2
  <2>5. v = w /\ k = m
    BY <1>2, <2>3, <2>4, ServedOnce DEF PoolInv
  <2>6. QED
    BY <1>2, <2>2, <2>5
<1>5. /\ delivered \in Seq(Tasks) /\ Mailbox \in Seq(Tasks)
      /\ Len(delivered) \in Nat /\ DOMAIN delivered = 1 .. Len(delivered)
      /\ Len(Mailbox) \in Nat /\ DOMAIN Mailbox = 1 .. Len(Mailbox)
  BY MailType, Shapes, LenProperties
<1>6. /\ Len(Mail) = Len(delivered) + Len(Mailbox)
      /\ \A j \in 1 .. Len(delivered) + Len(Mailbox) :
            Mail[j] = IF j <= Len(delivered) THEN delivered[j] ELSE Mailbox[j - Len(delivered)]
  BY <1>5, ConcatProperties DEF Mail
<1>7. ASSUME NEW i \in DOMAIN delivered
      PROVE  delivered[i] # task[w]
  <2>1. i \in 1 .. Len(Mail) /\ Mail[i] = delivered[i]
    BY <1>5, <1>6
  <2>2. QED
    BY <1>4, <2>1
<1>8. ASSUME NEW i \in DOMAIN Mailbox
      PROVE  Mailbox[i] # task[w]
  <2> DEFINE j == Len(delivered) + i
  <2>1. j \in 1 .. Len(delivered) + Len(Mailbox) /\ ~(j <= Len(delivered)) /\ j - Len(delivered) = i
    BY <1>5
  <2>2. j \in 1 .. Len(Mail) /\ Mail[j] = Mailbox[i]
    BY <1>6, <2>1
  <2>3. QED
    BY <1>4, <2>2
<1>9. ~Abstract!InMail(task[w]) /\ ~Abstract!WasDelivered(task[w])
  BY <1>7, <1>8 DEF Abstract!InMail, Abstract!WasDelivered
<1>10. UNCHANGED <<Submitted, Served, delivered>>
  BY <1>1 DEF Submitted, Served
<1>11. QED
  BY <1>1, <1>3, <1>9, <1>10 DEF Abstract!Complete

(* Every step of the pool is a step of the executor or changes nothing.    *)
LEMMA PoolStep ==
    Inv /\ ServedInOrder /\ PoolInv /\ [Next]_vars => [Abstract!Next]_(Abstract!vars)
<1> SUFFICES ASSUME Inv, ServedInOrder, PoolInv, [Next]_vars
             PROVE  Abstract!Next \/ UNCHANGED Abstract!vars
  OBVIOUS
<1>1. ASSUME NEW c \in Clients, AddTask(c)
      PROVE  Abstract!Next
  BY <1>1, AddIsSubmit, AddedBy DEF Abstract!Next, PoolInv
<1>2. ASSUME NEW w \in Threads, WorkerRun(w)
      PROVE  Abstract!Next
  BY <1>2, RunIsExecute, RunServes DEF Abstract!Next, PoolInv
<1>3. ASSUME NEW w \in Threads, WorkerPost(w)
      PROVE  Abstract!Next
  BY <1>3, PostIsComplete DEF Abstract!Next
<1>4. CASE /\ ~\E w \in Threads : WorkerRun(w) \/ WorkerPost(w)
           /\ ~\E c \in Clients : AddTask(c)
  <2>1. UNCHANGED <<added, served>> /\ (UNCHANGED <<Mailbox, delivered>> \/ ExecuteCall)
    BY <1>4, QuietSteps
  <2>2. UNCHANGED <<Submitted, Served>>
    BY <2>1 DEF Submitted, Served
  <2>3. CASE UNCHANGED <<Mailbox, delivered>>
    BY <2>2, <2>3 DEF Abstract!vars
  <2>4. CASE ExecuteCall
    <3>1. Abstract!Deliver
      BY <2>2, <2>4, CallTakesFirst DEF Abstract!Deliver
    <3>2. QED
      BY <3>1 DEF Abstract!Next
  <2>5. QED
    BY <2>1, <2>3, <2>4
<1>5. QED
  BY <1>1, <1>2, <1>3, <1>4

(* The thread pool with its mutexes, its one condition variable per thread *)
(* and its separate run, post and pop steps implements the executor: no    *)
(* task runs twice or before it was added, no completion is posted before  *)
(* its job ran or twice, and executeAll delivers them in order.            *)
THEOREM PoolImplementsExecutor == Spec => PoolIsExecutor
<1>1. Init => Abstract!Init
  <2> SUFFICES ASSUME Init PROVE Abstract!Init
    OBVIOUS
  <2>1. Mailbox = <<>> /\ delivered = <<>>
    BY ConcatEmptySeq, EmptySeq DEF Init, Mailbox
  <2>2. \A w \in Threads : Range(added[w]) = {} /\ Range(served[w]) = {}
    <3>1. \A w \in Threads : DOMAIN added[w] = {} /\ DOMAIN served[w] = {}
      BY EmptySeq DEF Init
    <3>2. QED
      BY <3>1 DEF Range
  <2>3. Submitted = {} /\ Served = {}
    BY <2>2 DEF Submitted, Served
  <2>4. QED
    BY <2>1, <2>3 DEF Abstract!Init
<1>2. QED
  BY <1>1, PoolStep, AlwaysInv, FirstComeFirstServed, AlwaysPool, PTL
  DEF Spec, PoolIsExecutor, Abstract!Spec
=============================================================================
