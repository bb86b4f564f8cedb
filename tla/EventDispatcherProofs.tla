----------------------- MODULE EventDispatcherProofs -----------------------
(***************************************************************************)
(* What holds of the event dispatcher for every number of handlers,        *)
(* events, priorities and calls.                                           *)
(***************************************************************************)
EXTENDS EventDispatcher, SequenceFacts

(* dispatchEvent's variables are in use only inside it.                    *)
LoopInv ==
    /\ pc \notin {"dispatch", "callback"} =>
          index = 1 /\ event = <<>> /\ ~handled /\ seen = <<>>
    /\ pc \in {"dispatch", "callback"} => \E e \in Events : event = <<e>>
    /\ pc = "callback" => index <= Len(eventHandlers) /\ ~handled

(* The vector and the two sets agree with the handlers' back pointers.     *)
SetInv ==
    /\ PointersAreLive
    /\ addSet \intersect deleteSet = {}
    /\ IsInjective(eventHandlers)

(* The handlers the loop has passed: one behind index, or at it while its  *)
(* callback runs.                                                          *)
Passed(j) == j < index \/ (pc = "callback" /\ j = index)

(* A handler that was passed, and was not removed or added since, has been *)
(* shown an event it wants.                                                *)
SeenInv ==
    pc \in {"dispatch", "callback"} =>
        \A j \in DOMAIN eventHandlers :
            Passed(j) /\ eventHandlers[j] \in registered \ addSet /\ Wants(eventHandlers[j]) =>
                \E i \in DOMAIN seen : seen[i].handler = eventHandlers[j]

SortedByPriority ==
    \A i, j \in DOMAIN eventHandlers :
        i < j => priority[eventHandlers[i]] >= priority[eventHandlers[j]]

(* Handlers are called in the order of their priorities.                   *)
OrderInv ==
    /\ SortedByPriority
    /\ \A i \in DOMAIN seen, j \in DOMAIN eventHandlers :
          j >= index => seen[i].priority >= priority[eventHandlers[j]]
    /\ \A i \in DOMAIN seen : seen[i].priority >= seen[Len(seen)].priority

DispatcherInv == TypeOK /\ LoopInv /\ SetInv /\ SeenInv /\ EventsInOrder

-----------------------------------------------------------------------------
(* The vector.                                                             *)

(* Taking a pending removal takes its pointer out of the vector.           *)
LEMMA PurgedVector ==
    ASSUME TypeOK, SetInv, NEW a \in Addresses, PurgePending(a)
    PROVE  /\ eventHandlers' \in Seq(Addresses) /\ IsInjective(eventHandlers')
           /\ Range(eventHandlers') = Range(eventHandlers) \ {a}
<1>0. eventHandlers \in Seq(Addresses) /\ IsInjective(eventHandlers)
  BY DEF TypeOK, SetInv
<1>1. CASE a \notin Range(eventHandlers) /\ UNCHANGED eventHandlers
  <2>1. Range(eventHandlers) = Range(eventHandlers) \ {a}
    BY <1>1
  <2>2. QED
    BY <1>0, <1>1, <2>1
<1>2. ASSUME NEW i \in DOMAIN eventHandlers, eventHandlers[i] = a,
             eventHandlers' = RemoveAt(eventHandlers, i)
      PROVE  /\ eventHandlers' \in Seq(Addresses) /\ IsInjective(eventHandlers')
             /\ Range(eventHandlers') = Range(eventHandlers) \ {a}
  <2>1. i \in 1 .. Len(eventHandlers)
    BY <1>0, LenProperties
  <2>2. QED
    BY <1>0, <1>2, <2>1, RemoveAtFacts, RemoveAtRange
<1>3. QED
  BY <1>1, <1>2 DEF PurgePending

(* Taking a pending addition puts its pointer into the vector once.        *)
LEMMA InsertedVector ==
    ASSUME TypeOK, SetInv, NEW a \in Addresses, InsertPending(a)
    PROVE  /\ eventHandlers' \in Seq(Addresses) /\ IsInjective(eventHandlers')
           /\ Range(eventHandlers') = Range(eventHandlers) \union {a}
<1>0. eventHandlers \in Seq(Addresses) /\ IsInjective(eventHandlers)
  BY DEF TypeOK, SetInv
<1>1. CASE a \in Range(eventHandlers)
  <2>1. eventHandlers' = eventHandlers
    BY <1>1 DEF InsertPending
  <2>2. Range(eventHandlers) = Range(eventHandlers) \union {a}
    BY <1>1
  <2>3. QED
    BY <1>0, <2>1, <2>2
<1>2. CASE a \notin Range(eventHandlers)
  <2>1. PICK i \in UpperBound(a) : eventHandlers' = InsertAt(eventHandlers, i, a)
    BY <1>2 DEF InsertPending
  <2>2. i \in 1 .. Len(eventHandlers) + 1
    BY DEF UpperBound
  <2>3. QED
    BY <1>0, <1>2, <2>1, <2>2, InsertAtFacts, InsertAtRange
<1>3. QED
  BY <1>1, <1>2

-----------------------------------------------------------------------------
(* Types and the loop's variables.                                         *)

(* A step that leaves the dispatcher's own variables alone keeps LoopInv.  *)
LEMMA KeepLoop ==
    ASSUME LoopInv, UNCHANGED <<loopVars, eventHandlers>>
    PROVE  LoopInv'
  BY DEF LoopInv, loopVars

LEMMA StepType == TypeOK /\ LoopInv /\ SetInv /\ [Next]_vars => TypeOK' /\ LoopInv'
<1> SUFFICES ASSUME TypeOK, LoopInv, SetInv, [Next]_vars
             PROVE  TypeOK' /\ LoopInv'
  OBVIOUS
<1>0. /\ eventHandlers \in Seq(Addresses) /\ Len(eventHandlers) \in Nat
      /\ DOMAIN eventHandlers = 1 .. Len(eventHandlers)
  BY LenProperties DEF TypeOK
<1>1. ASSUME NEW a \in Addresses, NEW p \in Priorities, NEW ts \in SUBSET Types, Create(a, p, ts)
      PROVE  TypeOK' /\ LoopInv'
  <2>1. TypeOK'
    BY <1>1, DispatcherAssumption DEF Create, TypeOK, setVars, queueVars, loopVars
  <2>2. QED
    BY <1>1, <2>1, KeepLoop DEF Create
<1>2. ASSUME NEW a \in Addresses, AddEventHandler(a) \/ RemoveEventHandler(a) \/ Destroy(a)
      PROVE  TypeOK' /\ LoopInv'
  <2>1. ops' \in 0 .. MaxOps
    BY <1>2, DispatcherAssumption DEF TypeOK, AddEventHandler, RemoveEventHandler, Destroy
  <2>2. /\ alive' \subseteq Addresses /\ registered' \subseteq alive'
        /\ addSet' \subseteq Addresses /\ deleteSet' \subseteq Addresses
    BY <1>2 DEF TypeOK, AddEventHandler, RemoveEventHandler, Destroy, handlerVars
  <2>3. UNCHANGED <<priority, listens, created, eventHandlers, queueVars, loopVars>>
    BY <1>2 DEF AddEventHandler, RemoveEventHandler, Destroy, handlerVars
  <2>4. TypeOK'
    BY <2>1, <2>2, <2>3 DEF TypeOK, queueVars, loopVars
  <2>5. QED
    BY <2>3, <2>4, KeepLoop
<1>3. ASSUME NEW e \in Events, PostEvent(e)
      PROVE  TypeOK' /\ LoopInv'
  <2>1. eventQueue' \in Seq(Events) /\ posted' \in Seq(Events)
    BY <1>3, AppendProperties DEF PostEvent, TypeOK
  <2>2. TypeOK'
    BY <1>3, <2>1 DEF PostEvent, TypeOK, handlerVars, setVars, loopVars
  <2>3. QED
    BY <1>3, <2>2, KeepLoop DEF PostEvent
<1>4. CASE DispatchBegin \/ PurgeDone \/ SortDone \/ PumpDone
  <2>1. TypeOK'
    BY <1>4 DEF DispatchBegin, PurgeDone, SortDone, PumpDone, TypeOK, handlerVars, setVars, queueVars
  <2>2. LoopInv'
    BY <1>4 DEF DispatchBegin, PurgeDone, SortDone, PumpDone, LoopInv
  <2>3. QED
    BY <2>1, <2>2
<1>5. ASSUME NEW a \in Addresses, PurgePending(a) \/ InsertPending(a)
      PROVE  TypeOK' /\ LoopInv'
  <2>1. eventHandlers' \in Seq(Addresses) /\ Len(eventHandlers') \in Nat
    BY <1>5, PurgedVector, InsertedVector, LenProperties
  <2>2. /\ pc \in {"purge", "sort"} /\ UNCHANGED <<handlerVars, registered, queueVars, loopVars, ops>>
        /\ addSet' \subseteq addSet /\ deleteSet' \subseteq deleteSet
    BY <1>5 DEF PurgePending, InsertPending
  <2>3. index' = 1
    BY <2>2 DEF LoopInv, loopVars
  <2>4. index' \in 1 .. Len(eventHandlers') + 1
    BY <2>1, <2>3
  <2>5. TypeOK'
    BY <2>1, <2>2, <2>4 DEF TypeOK, handlerVars, queueVars, loopVars
  <2>6. LoopInv'
    BY <2>2 DEF LoopInv, loopVars
  <2>7. QED
    BY <2>5, <2>6
<1>6. CASE PopEvent
  <2>1. Head(eventQueue) \in Events /\ eventQueue' \in Seq(Events)
    BY <1>6, HeadTailProperties DEF PopEvent, TypeOK
  <2>2. event' = <<Head(eventQueue)>> /\ event' \in Seq(Events)
    BY <1>6, <2>1 DEF PopEvent
  <2>3. TypeOK'
    BY <1>6, <2>1, <2>2 DEF PopEvent, TypeOK, handlerVars, setVars
  <2>4. LoopInv'
    BY <1>6, <2>1, <2>2 DEF PopEvent, LoopInv
  <2>5. QED
    BY <2>3, <2>4
<1>7. CASE SkipHandler
  <2>1. index' \in 1 .. Len(eventHandlers') + 1
    BY <1>0, <1>7 DEF SkipHandler, TypeOK
  <2>2. TypeOK'
    BY <1>7, <2>1 DEF SkipHandler, TypeOK, handlerVars, setVars, queueVars
  <2>3. LoopInv'
    BY <1>7 DEF SkipHandler, LoopInv
  <2>4. QED
    BY <2>2, <2>3
<1>8. CASE CallHandler
  <2>1. index \in 1 .. Len(eventHandlers)
    BY <1>0, <1>8 DEF CallHandler, TypeOK
  <2>2. eventHandlers[index] \in Addresses
    BY <1>0, <2>1, ElementOfSeq
  <2>3. [handler |-> eventHandlers[index], priority |-> priority[eventHandlers[index]]]
           \in [handler : Addresses, priority : Priorities \union {0}]
    BY <2>2 DEF TypeOK
  <2>4. seen' \in Seq([handler : Addresses, priority : Priorities \union {0}])
    <3> DEFINE R == [handler : Addresses, priority : Priorities \union {0}]
               r == [handler |-> eventHandlers[index], priority |-> priority[eventHandlers[index]]]
    <3>1. seen \in Seq(R) /\ r \in R /\ seen' = Append(seen, r)
      BY <1>8, <2>3 DEF CallHandler, TypeOK
    <3> HIDE DEF R, r
    <3>2. seen' \in Seq(R)
      BY <3>1, AppendProperties
    <3>3. QED
      BY <3>2 DEF R
  <2>5. TypeOK'
    BY <1>8, <2>4 DEF CallHandler, TypeOK, handlerVars, setVars, queueVars
  <2>6. LoopInv'
    BY <1>8 DEF CallHandler, LoopInv
  <2>7. QED
    BY <2>5, <2>6
<1>9. ASSUME NEW result \in BOOLEAN, HandlerReturns(result)
      PROVE  TypeOK' /\ LoopInv'
  <2>1. index <= Len(eventHandlers)
    BY <1>9 DEF LoopInv, HandlerReturns
  <2>2. index' \in 1 .. Len(eventHandlers') + 1
    BY <1>0, <1>9, <2>1 DEF HandlerReturns, TypeOK
  <2>3. TypeOK'
    BY <1>9, <2>2 DEF HandlerReturns, TypeOK, handlerVars, setVars, queueVars
  <2>4. LoopInv'
    BY <1>9 DEF HandlerReturns, LoopInv
  <2>5. QED
    BY <2>3, <2>4
<1>10. CASE EventDone
  <2>1. resolved' \in Seq(Events)
    BY <1>10, ConcatProperties DEF EventDone, TypeOK
  <2>2. index' \in 1 .. Len(eventHandlers') + 1
    BY <1>0, <1>10 DEF EventDone
  <2>3. event' \in Seq(Events) /\ seen' \in Seq([handler : Addresses, priority : Priorities \union {0}])
    BY <1>10, EmptySeq DEF EventDone
  <2>4. TypeOK'
    BY <1>10, <2>1, <2>2, <2>3 DEF EventDone, TypeOK, handlerVars, setVars, queueVars
  <2>5. LoopInv'
    BY <1>10 DEF EventDone, LoopInv
  <2>6. QED
    BY <2>4, <2>5
<1>11. CASE DestroyDispatcher
  <2>1. TypeOK'
    BY <1>11 DEF DestroyDispatcher, TypeOK, handlerVars, queueVars
  <2>2. LoopInv'
    BY <1>11 DEF DestroyDispatcher, LoopInv
  <2>3. QED
    BY <2>1, <2>2
<1>12. CASE UNCHANGED vars
  <2>1. TypeOK'
    BY <1>12 DEF vars, TypeOK, handlerVars, setVars, queueVars, loopVars
  <2>2. QED
    BY <1>12, <2>1, KeepLoop DEF vars
<1>13. QED
  BY <1>1, <1>2, <1>3, <1>4, <1>5, <1>6, <1>7, <1>8, <1>9, <1>10, <1>11, <1>12
  DEF Next, DispatchEvents

-----------------------------------------------------------------------------
(* The vector, the two sets and the back pointers.                         *)

LEMMA StepSet == TypeOK /\ SetInv /\ [Next]_vars => SetInv'
<1> SUFFICES ASSUME TypeOK, SetInv, [Next]_vars
             PROVE  SetInv'
  OBVIOUS
<1>1. CASE UNCHANGED <<setVars, eventHandlers>> /\ (pc = "dead" <=> pc' = "dead")
  BY <1>1 DEF SetInv, PointersAreLive, setVars
<1>2. ASSUME NEW a \in Addresses, AddEventHandler(a)
      PROVE  SetInv'
  <2>1. pc # "dead" /\ pc' = pc /\ eventHandlers' = eventHandlers
    BY <1>2 DEF AddEventHandler, UserCode, loopVars
  <2>2. registered = addSet \union (Range(eventHandlers) \ deleteSet)
    BY <2>1 DEF SetInv, PointersAreLive
  <2>3. registered' = addSet' \union (Range(eventHandlers) \ deleteSet')
    <3> DEFINE V == Range(eventHandlers)
    <3>1. registered = addSet \union (V \ deleteSet)
      BY <2>2
    <3> HIDE DEF V
    <3>2. registered' = addSet' \union (V \ deleteSet')
      BY <1>2, <3>1 DEF AddEventHandler
    <3>3. QED
      BY <3>2 DEF V
  <2>4. addSet' \intersect deleteSet' = {}
    BY <1>2 DEF AddEventHandler, SetInv
  <2>5. QED
    BY <2>1, <2>3, <2>4 DEF SetInv, PointersAreLive
<1>3. ASSUME NEW a \in Addresses, RemoveEventHandler(a) \/ Destroy(a)
      PROVE  SetInv'
  <2>1. pc # "dead" /\ pc' = pc /\ eventHandlers' = eventHandlers
    BY <1>3 DEF RemoveEventHandler, Destroy, UserCode, loopVars
  <2>2. registered' = addSet' \union (Range(eventHandlers) \ deleteSet')
    <3> DEFINE V == Range(eventHandlers)
    <3>1. registered = addSet \union (V \ deleteSet)
      BY <2>1 DEF SetInv, PointersAreLive
    <3> HIDE DEF V
    <3>2. registered' = addSet' \union (V \ deleteSet')
      <4>1. CASE registered' = registered \ {a} /\ deleteSet' = deleteSet \union {a}
                 /\ addSet' = addSet \ {a}
        BY <3>1, <4>1
      <4>2. CASE a \notin registered /\ registered' = registered \ {a} /\ UNCHANGED <<addSet, deleteSet>>
        BY <3>1, <4>2
      <4>3. QED
        BY <1>3, <4>1, <4>2 DEF RemoveEventHandler, Destroy
    <3>3. QED
      BY <3>2 DEF V
  <2>3. addSet' \intersect deleteSet' = {}
    BY <1>3 DEF RemoveEventHandler, Destroy, SetInv
  <2>4. QED
    BY <2>1, <2>2, <2>3 DEF SetInv, PointersAreLive
<1>4. ASSUME NEW a \in Addresses, PurgePending(a)
      PROVE  SetInv'
  <2>1. pc # "dead" /\ pc' = pc /\ registered' = registered /\ addSet' = addSet
        /\ a \in deleteSet /\ deleteSet' = deleteSet \ {a}
    BY <1>4 DEF PurgePending, loopVars
  <2>2. registered' = addSet' \union (Range(eventHandlers') \ deleteSet')
    <3> DEFINE V == Range(eventHandlers)
               W == Range(eventHandlers')
    <3>1. registered = addSet \union (V \ deleteSet) /\ W = V \ {a}
      BY <1>4, <2>1, PurgedVector DEF SetInv, PointersAreLive
    <3> HIDE DEF V, W
    <3>2. registered' = addSet' \union (W \ deleteSet')
      BY <2>1, <3>1
    <3>3. QED
      BY <3>2 DEF W
  <2>3. QED
    BY <1>4, <2>1, <2>2, PurgedVector DEF SetInv, PointersAreLive
<1>5. ASSUME NEW a \in Addresses, InsertPending(a)
      PROVE  SetInv'
  <2>1. pc # "dead" /\ pc' = pc /\ registered' = registered /\ deleteSet' = deleteSet
        /\ a \in addSet /\ addSet' = addSet \ {a}
    BY <1>5 DEF InsertPending, loopVars
  <2>2. registered' = addSet' \union (Range(eventHandlers') \ deleteSet')
    <3> DEFINE V == Range(eventHandlers)
               W == Range(eventHandlers')
    <3>1. /\ registered = addSet \union (V \ deleteSet) /\ W = V \union {a}
          /\ a \notin deleteSet
      BY <1>5, <2>1, InsertedVector DEF SetInv, PointersAreLive
    <3> HIDE DEF V, W
    <3>2. registered' = addSet' \union (W \ deleteSet')
      BY <2>1, <3>1
    <3>3. QED
      BY <3>2 DEF W
  <2>3. QED
    BY <1>5, <2>1, <2>2, InsertedVector DEF SetInv, PointersAreLive
<1>6. CASE DestroyDispatcher
  <2>1. /\ pc # "dead" /\ pc' = "dead" /\ UNCHANGED <<eventHandlers, addSet, deleteSet>>
        /\ registered' = registered \ (addSet \union (Range(eventHandlers) \ deleteSet))
    BY <1>6 DEF DestroyDispatcher
  <2>2. registered' = {}
    BY <2>1 DEF SetInv, PointersAreLive
  <2>3. QED
    BY <2>1, <2>2 DEF SetInv, PointersAreLive
<1>7. ASSUME NEW a \in Addresses, NEW p \in Priorities, NEW ts \in SUBSET Types, Create(a, p, ts)
      PROVE  SetInv'
  BY <1>1, <1>7 DEF Create, loopVars
<1>8. ASSUME NEW e \in Events, PostEvent(e)
      PROVE  SetInv'
  BY <1>1, <1>8 DEF PostEvent, loopVars
<1>9. CASE DispatchBegin \/ PurgeDone \/ SortDone \/ PumpDone \/ PopEvent \/ SkipHandler
           \/ CallHandler \/ EventDone \/ \E result \in BOOLEAN : HandlerReturns(result)
  BY <1>1, <1>9 DEF DispatchBegin, PurgeDone, SortDone, PumpDone, PopEvent, SkipHandler,
                    CallHandler, EventDone, HandlerReturns
<1>10. CASE UNCHANGED vars
  BY <1>1, <1>10 DEF vars, loopVars
<1>11. QED
  BY <1>2, <1>3, <1>4, <1>5, <1>6, <1>7, <1>8, <1>9, <1>10 DEF Next, DispatchEvents

-----------------------------------------------------------------------------
(* The queue of events.                                                    *)

LEMMA StepEvents == TypeOK /\ LoopInv /\ EventsInOrder /\ [Next]_vars => EventsInOrder'
<1> SUFFICES ASSUME TypeOK, LoopInv, EventsInOrder, [Next]_vars
             PROVE  EventsInOrder'
  OBVIOUS
<1>0. /\ posted \in Seq(Events) /\ resolved \in Seq(Events) /\ event \in Seq(Events)
      /\ eventQueue \in Seq(Events) /\ resolved \o event \in Seq(Events)
  BY ConcatProperties DEF TypeOK
<1>1. CASE UNCHANGED <<queueVars, event, resolved>>
  BY <1>1 DEF EventsInOrder, queueVars
<1>2. ASSUME NEW e \in Events, PostEvent(e)
      PROVE  EventsInOrder'
  <2>1. posted' = (resolved \o event) \o Append(eventQueue, e)
    BY <1>0, <1>2, AddAtEnd DEF PostEvent, EventsInOrder
  <2>2. QED
    BY <1>2, <2>1 DEF PostEvent, EventsInOrder, loopVars
<1>3. CASE PopEvent
  <2> DEFINE h == <<Head(eventQueue)>>
  <2>1. /\ event = <<>> /\ eventQueue # <<>> /\ event' = h /\ eventQueue' = Tail(eventQueue)
        /\ UNCHANGED <<posted, resolved>>
    BY <1>3 DEF PopEvent, LoopInv
  <2>2. h \in Seq(Events) /\ Tail(eventQueue) \in Seq(Events) /\ h \o Tail(eventQueue) = eventQueue
    <3>1. Head(eventQueue) \in Events /\ Tail(eventQueue) \in Seq(Events)
      BY <1>0, <2>1, HeadTailProperties
    <3>2. QED
      BY <1>0, <2>1, <3>1, ConsHeadTail
  <2>3. posted = resolved \o eventQueue
    BY <1>0, <2>1, ConcatEmptySeq DEF EventsInOrder
  <2> HIDE DEF h
  <2>4. posted = (resolved \o h) \o Tail(eventQueue)
    <3>1. (resolved \o h) \o Tail(eventQueue) = resolved \o (h \o Tail(eventQueue))
      <4> DEFINE t == Tail(eventQueue)
      <4>1. resolved \in Seq(Events) /\ h \in Seq(Events) /\ t \in Seq(Events)
        BY <1>0, <2>2
      <4> HIDE DEF t
      <4>2. (resolved \o h) \o t = resolved \o (h \o t)
        BY <4>1, ConcatAssociative
      <4>3. QED
        BY <4>2 DEF t
    <3>2. QED
      BY <2>2, <2>3, <3>1
  <2>5. QED
    BY <2>1, <2>4 DEF EventsInOrder
<1>4. CASE EventDone
  <2>1. resolved' = resolved \o event /\ event' = <<>> /\ UNCHANGED <<posted, eventQueue>>
    BY <1>4 DEF EventDone, queueVars
  <2>2. resolved' \o event' = resolved \o event
    BY <1>0, <2>1, ConcatEmptySeq
  <2>3. QED
    BY <2>1, <2>2 DEF EventsInOrder
<1>5. ASSUME NEW a \in Addresses, \/ AddEventHandler(a) \/ RemoveEventHandler(a) \/ Destroy(a)
                                  \/ PurgePending(a) \/ InsertPending(a)
                                  \/ \E p \in Priorities, ts \in SUBSET Types : Create(a, p, ts)
      PROVE  EventsInOrder'
  BY <1>1, <1>5 DEF AddEventHandler, RemoveEventHandler, Destroy, PurgePending, InsertPending,
                    Create, loopVars
<1>6. CASE DispatchBegin \/ PurgeDone \/ SortDone \/ PumpDone \/ SkipHandler \/ CallHandler
           \/ DestroyDispatcher \/ \E result \in BOOLEAN : HandlerReturns(result)
  BY <1>1, <1>6 DEF DispatchBegin, PurgeDone, SortDone, PumpDone, SkipHandler, CallHandler,
                    DestroyDispatcher, HandlerReturns
<1>7. CASE UNCHANGED vars
  BY <1>1, <1>7 DEF vars, loopVars
<1>8. QED
  BY <1>2, <1>3, <1>4, <1>5, <1>6, <1>7 DEF Next, DispatchEvents

-----------------------------------------------------------------------------
(* Who has seen the event.                                                 *)

(* Calls of user code, in a callback: the registered handlers that are not *)
(* pending only become fewer, and keep their handler functions.            *)
LEMMA KeepSeen ==
    ASSUME SeenInv, UNCHANGED <<pc, event, index, seen, eventHandlers>>,
           \A a \in registered' \ addSet' :
              a \in registered \ addSet /\ (TypeOf[event[1]] \in listens'[a] => Wants(a))
    PROVE  SeenInv'
  BY DEF SeenInv, Passed, Wants

LEMMA UserSeen ==
    ASSUME TypeOK, SeenInv, NEW a \in Addresses,
           \/ AddEventHandler(a) \/ RemoveEventHandler(a) \/ Destroy(a)
           \/ \E p \in Priorities, ts \in SUBSET Types : Create(a, p, ts)
    PROVE  SeenInv'
<1>1. UNCHANGED <<pc, event, index, seen, eventHandlers>>
  BY DEF AddEventHandler, RemoveEventHandler, Destroy, Create, loopVars
<1>2. CASE AddEventHandler(a) \/ RemoveEventHandler(a) \/ Destroy(a)
  <2>1. registered' \ addSet' \subseteq registered \ addSet
    BY <1>2 DEF AddEventHandler, RemoveEventHandler, Destroy
  <2>2. listens' = listens
    BY <1>2 DEF AddEventHandler, RemoveEventHandler, Destroy, handlerVars
  <2>3. QED
    BY <1>1, <2>1, <2>2, KeepSeen DEF Wants
<1>3. ASSUME NEW p \in Priorities, NEW ts \in SUBSET Types, Create(a, p, ts)
      PROVE  SeenInv'
  <2>1. a \notin alive /\ listens' = [listens EXCEPT ![a] = ts] /\ UNCHANGED <<registered, addSet>>
    BY <1>3 DEF Create, setVars
  <2>2. \A b \in registered : b # a /\ b \in Addresses /\ listens'[b] = listens[b]
    BY <2>1 DEF TypeOK
  <2>3. QED
    BY <1>1, <2>1, <2>2, KeepSeen DEF Wants
<1>4. QED
  BY <1>2, <1>3

LEMMA StepSeen == TypeOK /\ LoopInv /\ SetInv /\ SeenInv /\ [Next]_vars => SeenInv'
<1> SUFFICES ASSUME TypeOK, LoopInv, SetInv, SeenInv, [Next]_vars
             PROVE  SeenInv'
  OBVIOUS
<1>0. /\ eventHandlers \in Seq(Addresses) /\ Len(eventHandlers) \in Nat
      /\ DOMAIN eventHandlers = 1 .. Len(eventHandlers) /\ index \in 1 .. Len(eventHandlers) + 1
  BY LenProperties DEF TypeOK
<1>1. ASSUME NEW a \in Addresses, \/ AddEventHandler(a) \/ RemoveEventHandler(a) \/ Destroy(a)
                                  \/ \E p \in Priorities, ts \in SUBSET Types : Create(a, p, ts)
      PROVE  SeenInv'
  BY <1>1, UserSeen
<1>2. CASE pc' \notin {"dispatch", "callback"}
  BY <1>2 DEF SeenInv
<1>3. ASSUME NEW a \in Addresses, PurgePending(a) \/ InsertPending(a)
      PROVE  SeenInv'
  BY <1>2, <1>3 DEF PurgePending, InsertPending, loopVars
<1>4. CASE DispatchBegin \/ PurgeDone \/ SortDone \/ PumpDone \/ EventDone \/ DestroyDispatcher
  BY <1>2, <1>4 DEF DispatchBegin, PurgeDone, SortDone, PumpDone, EventDone, DestroyDispatcher
<1>5. ASSUME NEW e \in Events, PostEvent(e)
      PROVE  SeenInv'
  BY <1>5, KeepSeen DEF PostEvent, loopVars, handlerVars, setVars, Wants
<1>6. CASE PopEvent
  <2>1. index' = 1 /\ pc' = "dispatch" /\ eventHandlers' = eventHandlers
    BY <1>6 DEF PopEvent, LoopInv
  <2>2. \A j \in DOMAIN eventHandlers' : ~Passed(j)'
    BY <1>0, <2>1 DEF Passed
  <2>3. QED
    BY <2>2 DEF SeenInv
<1>7. CASE SkipHandler
  <2>1. /\ pc = "dispatch" /\ pc' = "dispatch" /\ index' = index + 1
        /\ index \in 1 .. Len(eventHandlers)
        /\ eventHandlers[index] \in deleteSet \/ ~Wants(eventHandlers[index])
        /\ UNCHANGED <<eventHandlers, registered, addSet, seen, event, listens>>
    BY <1>0, <1>7 DEF SkipHandler, setVars, handlerVars
  <2>2. eventHandlers[index] \in deleteSet => eventHandlers[index] \notin registered \ addSet
    BY <2>1 DEF SetInv, PointersAreLive
  <2>3. \A j \in DOMAIN eventHandlers : Passed(j)' => Passed(j) \/ j = index
    BY <1>0, <2>1 DEF Passed
  <2>4. QED
    BY <2>1, <2>2, <2>3 DEF SeenInv, Wants
<1>8. CASE CallHandler
  <2> DEFINE R == [handler : Addresses, priority : Priorities \union {0}]
             r == [handler |-> eventHandlers[index], priority |-> priority[eventHandlers[index]]]
  <2>1. /\ pc = "dispatch" /\ pc' = "callback" /\ seen' = Append(seen, r)
        /\ UNCHANGED <<eventHandlers, registered, addSet, index, event, listens>>
        /\ index \in 1 .. Len(eventHandlers)
    BY <1>0, <1>8 DEF CallHandler, setVars, handlerVars
  <2>2. seen \in Seq(R) /\ r \in R /\ r.handler = eventHandlers[index]
    BY <1>0, <2>1, ElementOfSeq DEF TypeOK
  <2> HIDE DEF R, r
  <2>3. /\ DOMAIN seen \subseteq DOMAIN seen' /\ \A i \in DOMAIN seen : seen'[i] = seen[i]
        /\ Len(seen) + 1 \in DOMAIN seen' /\ seen'[Len(seen) + 1] = r
    BY <2>1, <2>2, AppendProperties, LenProperties
  <2>4. \A j \in DOMAIN eventHandlers : Passed(j)' => Passed(j) \/ j = index
    BY <1>0, <2>1 DEF Passed
  <2>5. ASSUME NEW j \in DOMAIN eventHandlers, Passed(j)',
               eventHandlers[j] \in registered \ addSet, Wants(eventHandlers[j])
        PROVE  \E i \in DOMAIN seen' : seen'[i].handler = eventHandlers[j]
    <3>1. CASE j = index
      BY <2>2, <2>3, <3>1
    <3>2. CASE Passed(j)
      <4>1. PICK i \in DOMAIN seen : seen[i].handler = eventHandlers[j]
        BY <2>1, <2>5, <3>2 DEF SeenInv
      <4>2. QED
        BY <2>3, <4>1
    <3>3. QED
      BY <2>4, <2>5, <3>1, <3>2
  <2>6. QED
    BY <2>1, <2>5 DEF SeenInv, Wants
<1>9. ASSUME NEW result \in BOOLEAN, HandlerReturns(result)
      PROVE  SeenInv'
  <2>1. /\ pc = "callback" /\ pc' = "dispatch" /\ index' = index + 1
        /\ UNCHANGED <<eventHandlers, registered, addSet, seen, event, listens>>
    BY <1>9 DEF HandlerReturns, setVars, handlerVars
  <2>2. \A j \in DOMAIN eventHandlers : Passed(j)' => Passed(j)
    BY <1>0, <2>1 DEF Passed
  <2>3. QED
    BY <2>1, <2>2 DEF SeenInv, Wants
<1>10. CASE UNCHANGED vars
  BY <1>10, KeepSeen DEF vars, loopVars, handlerVars, setVars, Wants
<1>11. QED
  BY <1>1, <1>3, <1>4, <1>5, <1>6, <1>7, <1>8, <1>9, <1>10 DEF Next, DispatchEvents

-----------------------------------------------------------------------------
(* The theorems that hold whatever the allocator does.                     *)

LEMMA InitDispatcher == Init => DispatcherInv
<1> SUFFICES ASSUME Init PROVE DispatcherInv
  OBVIOUS
<1>1. /\ <<>> \in Seq(Addresses) /\ <<>> \in Seq(Events) /\ Len(<<>>) = 0
      /\ <<>> \in Seq([handler : Addresses, priority : Priorities \union {0}])
      /\ <<>> \o <<>> = <<>> /\ DOMAIN <<>> = {}
  <2>1. \A S : <<>> \in Seq(S) /\ <<>> \o <<>> = <<>> /\ DOMAIN <<>> = {}
    BY EmptySeq, ConcatEmptySeq, LenProperties
  <2>2. QED
    BY <2>1, EmptySeq
<1>2. TypeOK
  <2>1. index \in 1 .. Len(eventHandlers) + 1
    BY <1>1 DEF Init
  <2>2. /\ priority \in [Addresses -> Priorities \union {0}]
        /\ listens \in [Addresses -> SUBSET Types]
    BY DEF Init
  <2>3. created \in 0 .. MaxCreated /\ ops \in 0 .. MaxOps
    BY DispatcherAssumption DEF Init
  <2>4. /\ eventHandlers \in Seq(Addresses) /\ event \in Seq(Events) /\ eventQueue \in Seq(Events)
        /\ posted \in Seq(Events) /\ resolved \in Seq(Events)
        /\ seen \in Seq([handler : Addresses, priority : Priorities \union {0}])
    BY <1>1 DEF Init
  <2>5. QED
    BY <2>1, <2>2, <2>3, <2>4 DEF Init, TypeOK
<1>3. LoopInv /\ SeenInv
  BY DEF Init, LoopInv, SeenInv
<1>4. SetInv
  BY <1>1 DEF Init, SetInv, PointersAreLive, IsInjective, Range
<1>5. EventsInOrder
  BY <1>1 DEF Init, EventsInOrder
<1>6. QED
  BY <1>2, <1>3, <1>4, <1>5 DEF DispatcherInv

LEMMA AlwaysDispatcher == Spec => []DispatcherInv
<1>1. DispatcherInv /\ [Next]_vars => DispatcherInv'
  BY StepType, StepSet, StepSeen, StepEvents DEF DispatcherInv
<1>2. QED
  BY <1>1, InitDispatcher, PTL DEF Spec

(* TypeOK for any number of handlers, events and calls: in particular the  *)
(* loop of dispatchEvent never leaves the vector, though callbacks add,    *)
(* remove and destroy handlers while it runs.                              *)
THEOREM DispatcherTypes == Spec => []TypeOK
<1>1. DispatcherInv => TypeOK
  BY DEF DispatcherInv
<1>2. QED
  BY <1>1, AlwaysDispatcher, PTL

(* The dispatcher follows no pointer to a destroyed handler and            *)
(* ~EventDispatcher leaves no handler with a pointer to it, even when new  *)
(* handlers get the addresses of destroyed ones.                           *)
THEOREM NoDanglingHandlers == Spec => []PointersAreLive
<1>1. DispatcherInv => PointersAreLive
  BY DEF DispatcherInv, SetInv
<1>2. QED
  BY <1>1, AlwaysDispatcher, PTL

(* No sequence of additions and removals puts a handler into the vector    *)
(* twice.                                                                  *)
THEOREM HandlersOnce == Spec => []NoDuplicateHandlers
<1>1. DispatcherInv => NoDuplicateHandlers
  BY DEF DispatcherInv, SetInv, IsInjective, NoDuplicateHandlers
<1>2. QED
  BY <1>1, AlwaysDispatcher, PTL

(* Events posted by any number of threads are dispatched in the order of   *)
(* the queue, one at a time, and none is lost or repeated.                 *)
THEOREM DispatchedInOrder == Spec => []EventsInOrder
<1>1. DispatcherInv => EventsInOrder
  BY DEF DispatcherInv
<1>2. QED
  BY <1>1, AlwaysDispatcher, PTL

(* An event that was not handled was shown to every handler that wants it, *)
(* whatever callbacks added, removed or destroyed.                         *)
THEOREM NobodySkipped == Spec => []UnhandledSeenByAll
<1>1. ASSUME DispatcherInv PROVE UnhandledSeenByAll
  <2>1. SUFFICES ASSUME pc = "dispatch", index > Len(eventHandlers),
                        NEW a \in (registered \ addSet) \intersect Range(eventHandlers), Wants(a)
                 PROVE  \E i \in DOMAIN seen : seen[i].handler = a
    BY DEF UnhandledSeenByAll
  <2>2. /\ Len(eventHandlers) \in Nat /\ DOMAIN eventHandlers = 1 .. Len(eventHandlers)
        /\ index \in Int
    BY <1>1, LenProperties DEF DispatcherInv, TypeOK
  <2>3. PICK j \in DOMAIN eventHandlers : eventHandlers[j] = a
    BY DEF Range
  <2>4. Passed(j)
    BY <2>1, <2>2, <2>3 DEF Passed
  <2>5. QED
    BY <1>1, <2>1, <2>3, <2>4 DEF DispatcherInv, SeenInv
<1>2. QED
  BY <1>1, AlwaysDispatcher, PTL

-----------------------------------------------------------------------------
(* The order of the handlers, when no new handler gets an address that the *)
(* dispatcher still holds.                                                 *)

LEMMA PriorityType ==
    ASSUME TypeOK
    PROVE  \A b \in Addresses : priority[b] \in Int
<1>1. \A b \in Addresses : priority[b] \in Priorities \union {0}
  BY DEF TypeOK
<1>2. Priorities \union {0} \subseteq Int
  BY DispatcherAssumption
<1>3. QED
  BY <1>1, <1>2

(* std::upper_bound has a place to find in an ordered vector.              *)
LEMMA PartitionPoint ==
    ASSUME TypeOK, SortedByPriority, NEW a \in Addresses
    PROVE  \E i \in 1 .. Len(eventHandlers) + 1 : \A j \in DOMAIN eventHandlers :
              j < i <=> priority[eventHandlers[j]] >= priority[a]
<1> DEFINE n == Len(eventHandlers)
           P(j) == priority[eventHandlers[j]]
           T == {i \in 1 .. n + 1 : i = n + 1 \/ P(i) < priority[a]}
<1>1. n \in Nat /\ DOMAIN eventHandlers = 1 .. n /\ priority[a] \in Int
      /\ \A j \in 1 .. n : P(j) \in Int
  <2>1. \A b \in Addresses : priority[b] \in Int
    BY PriorityType
  <2>2. QED
    BY <2>1, LenProperties, ElementOfSeq DEF TypeOK
<1>2. \A j, k \in 1 .. n : j < k => P(j) >= P(k)
  BY <1>1 DEF SortedByPriority
<1> HIDE DEF n, P
<1>3. T \subseteq Nat /\ n + 1 \in T
  BY <1>1
<1>4. PICK x \in T : \A y \in T : x <= y
  BY <1>3, LeastNumber
<1>5. ASSUME NEW j \in 1 .. n
      PROVE  j < x <=> P(j) >= priority[a]
  <2>1. x \in 1 .. n + 1 /\ (x = n + 1 \/ P(x) < priority[a])
    BY <1>4
  <2>2. CASE j < x
    <3>1. j \notin T
      BY <1>1, <1>4, <2>1, <2>2
    <3>2. QED
      BY <1>1, <2>2, <3>1
  <2>3. CASE ~(j < x)
    <3>1. x \in 1 .. n /\ P(x) < priority[a] /\ (j = x \/ x < j)
      BY <1>1, <2>1, <2>3
    <3>2. P(j) < priority[a]
      BY <1>1, <1>2, <3>1
    <3>3. QED
      BY <1>1, <2>3, <3>2
  <2>4. QED
    BY <2>2, <2>3
<1>6. QED
  BY <1>1, <1>4, <1>5 DEF n, P

LEMMA PurgeKeepsOrder ==
    ASSUME TypeOK, SortedByPriority, NEW a \in Addresses, PurgePending(a)
    PROVE  SortedByPriority'
<1>0. eventHandlers \in Seq(Addresses) /\ priority' = priority
  BY DEF TypeOK, PurgePending, handlerVars
<1>1. CASE UNCHANGED eventHandlers
  BY <1>0, <1>1 DEF SortedByPriority
<1>2. ASSUME NEW i \in DOMAIN eventHandlers, eventHandlers' = RemoveAt(eventHandlers, i)
      PROVE  SortedByPriority'
  <2> DEFINE n == Len(eventHandlers)
  <2>1. /\ n \in Nat /\ i \in 1 .. n /\ DOMAIN eventHandlers = 1 .. n
        /\ DOMAIN eventHandlers' = 1 .. n - 1
        /\ \A k \in 1 .. n - 1 : eventHandlers'[k] = IF k < i THEN eventHandlers[k]
                                                     ELSE eventHandlers[k + 1]
    BY <1>0, <1>2, RemoveAtFacts, LenProperties
  <2> HIDE DEF n
  <2>2. ASSUME NEW k \in 1 .. n - 1, NEW l \in 1 .. n - 1, k < l
        PROVE  priority[eventHandlers'[k]] >= priority[eventHandlers'[l]]
    <3> DEFINE K == IF k < i THEN k ELSE k + 1
               L == IF l < i THEN l ELSE l + 1
    <3>1. /\ K \in 1 .. n /\ L \in 1 .. n /\ K < L
      BY <2>1, <2>2
    <3>2. eventHandlers'[k] = eventHandlers[K] /\ eventHandlers'[l] = eventHandlers[L]
      BY <2>1
    <3> HIDE DEF K, L
    <3>3. QED
      BY <2>1, <3>1, <3>2 DEF SortedByPriority
  <2>3. QED
    BY <1>0, <2>1, <2>2 DEF SortedByPriority
<1>3. QED
  BY <1>1, <1>2 DEF PurgePending

LEMMA InsertKeepsOrder ==
    ASSUME TypeOK, SortedByPriority, NEW a \in Addresses, InsertPending(a)
    PROVE  SortedByPriority'
<1>0. eventHandlers \in Seq(Addresses) /\ priority' = priority
  BY DEF TypeOK, InsertPending, handlerVars
<1>1. CASE UNCHANGED eventHandlers
  BY <1>0, <1>1 DEF SortedByPriority
<1>2. CASE \E i \in UpperBound(a) : eventHandlers' = InsertAt(eventHandlers, i, a)
  <2> DEFINE n == Len(eventHandlers)
             v == eventHandlers
             w == eventHandlers'
             P(b) == priority[b]
  <2>1. PICK i \in UpperBound(a) : eventHandlers' = InsertAt(eventHandlers, i, a)
    BY <1>2
  <2>2. /\ i \in 1 .. Len(eventHandlers) + 1
        /\ \A j \in DOMAIN eventHandlers : j < i <=> priority[eventHandlers[j]] >= priority[a]
    BY PartitionPoint DEF UpperBound
  <2>3. /\ n \in Nat /\ DOMAIN v = 1 .. n /\ DOMAIN w = 1 .. n + 1
        /\ w[i] = a
        /\ \A k \in 1 .. n : k < i => w[k] = v[k]
        /\ \A k \in 1 .. n : k >= i => w[k + 1] = v[k]
    BY <1>0, <2>1, <2>2, InsertAtFacts, LenProperties
  <2>4. /\ P(a) \in Int /\ \A k \in 1 .. n : P(v[k]) \in Int
        /\ \A k \in 1 .. n : k < i <=> P(v[k]) >= P(a)
        /\ \A k, l \in 1 .. n : k < l => P(v[k]) >= P(v[l])
        /\ i \in 1 .. n + 1
    <3>1. \A b \in Addresses : priority[b] \in Int
      BY PriorityType
    <3>2. QED
      BY <1>0, <2>2, <2>3, <3>1, ElementOfSeq DEF SortedByPriority
  <2> HIDE DEF n, v, w, P
  <2>5. ASSUME NEW k \in 1 .. n + 1
        PROVE  /\ k < i => k \in 1 .. n /\ w[k] = v[k]
               /\ k > i => k - 1 \in 1 .. n /\ w[k] = v[k - 1] /\ k - 1 >= i
    <3>1. ASSUME k > i PROVE k - 1 \in 1 .. n /\ w[k] = v[k - 1] /\ k - 1 >= i
      <4>1. k - 1 \in 1 .. n /\ k - 1 >= i /\ (k - 1) + 1 = k
        BY <2>3, <2>4, <3>1
      <4>2. QED
        BY <2>3, <4>1
    <3>2. ASSUME k < i PROVE k \in 1 .. n /\ w[k] = v[k]
      BY <2>3, <2>4, <3>2
    <3>3. QED
      BY <3>1, <3>2
  <2>6. ASSUME NEW k \in 1 .. n + 1, NEW l \in 1 .. n + 1, k < l
        PROVE  P(w[k]) >= P(w[l])
    <3>0. k \in Int /\ l \in Int /\ i \in Int
      BY <2>3, <2>4
    <3>1. CASE l < i
      <4>1. k < i
        BY <2>6, <3>0, <3>1
      <4>2. QED
        BY <2>4, <2>5, <2>6, <3>1, <4>1
    <3>2. CASE l = i
      <4>1. k < i
        BY <2>6, <3>0, <3>2
      <4>2. k \in 1 .. n /\ w[k] = v[k] /\ w[l] = a
        BY <2>3, <2>5, <3>2, <4>1
      <4>3. QED
        BY <2>4, <4>1, <4>2
    <3>3. CASE l > i
      <4>1. l - 1 \in 1 .. n /\ w[l] = v[l - 1] /\ l - 1 >= i
        BY <2>5, <3>3
      <4>2. CASE k < i
        <5>1. k \in 1 .. n /\ w[k] = v[k] /\ k < l - 1
          BY <2>5, <3>0, <4>1, <4>2
        <5>2. QED
          BY <2>4, <4>1, <5>1
      <4>3. CASE k = i
        <5>1. ~(P(v[l - 1]) >= P(a)) /\ P(v[l - 1]) \in Int
          BY <2>4, <3>0, <4>1
        <5>2. QED
          BY <2>3, <2>4, <4>1, <4>3, <5>1
      <4>4. CASE k > i
        <5>1. k - 1 \in 1 .. n /\ w[k] = v[k - 1] /\ k - 1 < l - 1
          BY <2>5, <2>6, <3>0, <4>4
        <5>2. QED
          BY <2>4, <4>1, <5>1
      <4>5. QED
        BY <3>0, <4>2, <4>3, <4>4
    <3>4. QED
      BY <3>0, <3>1, <3>2, <3>3
  <2>7. QED
    BY <1>0, <2>3, <2>6 DEF SortedByPriority, w, P
<1>3. QED
  BY <1>1, <1>2 DEF InsertPending

(* An address the vector holds keeps its priority.                         *)
LEMMA PrioritiesKept ==
    ASSUME ~ReuseAddresses, TypeOK, NEW a \in Addresses, NEW p \in Priorities,
           NEW ts \in SUBSET Types, Create(a, p, ts)
    PROVE  \A j \in DOMAIN eventHandlers : priority'[eventHandlers[j]] = priority[eventHandlers[j]]
<1>1. a \notin Range(eventHandlers) /\ priority' = [priority EXCEPT ![a] = p]
  BY DEF Create
<1>2. \A j \in DOMAIN eventHandlers : eventHandlers[j] \in Addresses /\ eventHandlers[j] # a
  BY <1>1, LenProperties, ElementOfSeq DEF TypeOK, Range
<1>3. QED
  BY <1>1, <1>2 DEF TypeOK

LEMMA KeepOrder ==
    ASSUME OrderInv, UNCHANGED <<eventHandlers, index, seen>>,
           \A j \in DOMAIN eventHandlers : priority'[eventHandlers[j]] = priority[eventHandlers[j]]
    PROVE  OrderInv'
  BY DEF OrderInv, SortedByPriority

LEMMA StepOrder ==
    ASSUME ~ReuseAddresses, TypeOK, LoopInv, OrderInv, [Next]_vars
    PROVE  OrderInv'
<1>0. /\ eventHandlers \in Seq(Addresses) /\ Len(eventHandlers) \in Nat
      /\ DOMAIN eventHandlers = 1 .. Len(eventHandlers) /\ index \in 1 .. Len(eventHandlers) + 1
  BY LenProperties DEF TypeOK
<1>1. ASSUME NEW a \in Addresses, NEW p \in Priorities, NEW ts \in SUBSET Types, Create(a, p, ts)
      PROVE  OrderInv'
  <2>1. UNCHANGED <<eventHandlers, index, seen>>
    BY <1>1 DEF Create, loopVars
  <2>2. QED
    BY <1>1, <2>1, PrioritiesKept, KeepOrder
<1>2. CASE UNCHANGED <<eventHandlers, index, seen, priority>>
  BY <1>2, KeepOrder
<1>3. ASSUME NEW a \in Addresses, AddEventHandler(a) \/ RemoveEventHandler(a) \/ Destroy(a)
      PROVE  OrderInv'
  BY <1>2, <1>3 DEF AddEventHandler, RemoveEventHandler, Destroy, handlerVars, loopVars
<1>4. ASSUME NEW e \in Events, PostEvent(e)
      PROVE  OrderInv'
  BY <1>2, <1>4 DEF PostEvent, handlerVars, loopVars
<1>5. CASE DispatchBegin \/ PurgeDone \/ SortDone \/ PopEvent \/ PumpDone \/ DestroyDispatcher
  BY <1>2, <1>5 DEF DispatchBegin, PurgeDone, SortDone, PopEvent, PumpDone, DestroyDispatcher,
                    handlerVars
<1>6. ASSUME NEW a \in Addresses, PurgePending(a) \/ InsertPending(a)
      PROVE  OrderInv'
  <2>1. SortedByPriority'
    BY <1>6, PurgeKeepsOrder, InsertKeepsOrder DEF OrderInv
  <2>2. seen' = <<>>
    BY <1>6 DEF PurgePending, InsertPending, loopVars, LoopInv
  <2>3. DOMAIN seen' = {}
    BY <2>2
  <2>4. QED
    BY <2>1, <2>3 DEF OrderInv
<1>7. CASE SkipHandler
  <2>1. UNCHANGED <<eventHandlers, seen, priority>> /\ index' = index + 1
    BY <1>7 DEF SkipHandler, handlerVars
  <2>2. \A j \in DOMAIN eventHandlers : j >= index' => j >= index
    BY <1>0, <2>1
  <2>3. QED
    BY <2>1, <2>2 DEF OrderInv, SortedByPriority
<1>8. CASE CallHandler
  <2> DEFINE R == [handler : Addresses, priority : Priorities \union {0}]
             r == [handler |-> eventHandlers[index], priority |-> priority[eventHandlers[index]]]
             m == Len(seen)
             P(j) == priority[eventHandlers[j]]
  <2>1. /\ seen' = Append(seen, r) /\ UNCHANGED <<eventHandlers, index, priority>>
        /\ index \in DOMAIN eventHandlers
    BY <1>0, <1>8 DEF CallHandler, handlerVars
  <2>2. seen \in Seq(R) /\ r \in R /\ r.priority = P(index)
    BY <1>0, <2>1, ElementOfSeq DEF TypeOK
  <2>3. \A j \in DOMAIN eventHandlers : P(j) \in Int
    <3>1. \A b \in Addresses : priority[b] \in Int
      BY PriorityType
    <3>2. QED
      BY <1>0, <3>1, ElementOfSeq
  <2>4. \A j \in DOMAIN eventHandlers : j >= index => P(index) >= P(j)
    <3>1. \A j \in DOMAIN eventHandlers : j >= index => j = index \/ index < j
      BY <1>0
    <3>2. \A j \in DOMAIN eventHandlers : index < j => P(index) >= P(j)
      BY <2>1 DEF OrderInv, SortedByPriority
    <3> HIDE DEF P
    <3>3. QED
      BY <2>1, <2>3, <3>1, <3>2
  <2>5. \A i \in DOMAIN seen, j \in DOMAIN eventHandlers : j >= index => seen[i].priority >= P(j)
    BY DEF OrderInv
  <2>6. index >= index
    BY <1>0
  <2> HIDE DEF R, r
  <2>7. /\ m \in Nat /\ DOMAIN seen = 1 .. m /\ DOMAIN seen' = 1 .. m + 1 /\ Len(seen') = m + 1
        /\ seen'[m + 1] = r /\ \A i \in 1 .. m : seen'[i] = seen[i]
    BY <2>1, <2>2, AppendProperties, LenProperties
  <2> HIDE DEF P, m
  <2>8. \A i \in DOMAIN seen', j \in DOMAIN eventHandlers :
           j >= index => seen'[i].priority >= P(j)
    <3>1. \A i \in DOMAIN seen' : i = m + 1 \/ (i \in DOMAIN seen /\ seen'[i] = seen[i])
      BY <2>7
    <3>2. QED
      BY <2>2, <2>4, <2>5, <2>7, <3>1
  <2>9. \A i \in DOMAIN seen' : seen'[i].priority >= seen'[Len(seen')].priority
    BY <2>1, <2>2, <2>6, <2>7, <2>8
  <2>10. SortedByPriority'
    BY <2>1 DEF OrderInv, SortedByPriority
  <2>11. QED
    BY <2>1, <2>8, <2>9, <2>10 DEF OrderInv, P
<1>9. ASSUME NEW result \in BOOLEAN, HandlerReturns(result)
      PROVE  OrderInv'
  <2>1. UNCHANGED <<eventHandlers, seen, priority>> /\ index' = index + 1
    BY <1>9 DEF HandlerReturns, handlerVars
  <2>2. \A j \in DOMAIN eventHandlers : j >= index' => j >= index
    BY <1>0, <2>1
  <2>3. QED
    BY <2>1, <2>2 DEF OrderInv, SortedByPriority
<1>10. CASE EventDone
  <2>1. UNCHANGED <<eventHandlers, priority>> /\ seen' = <<>>
    BY <1>10 DEF EventDone, handlerVars
  <2>2. DOMAIN seen' = {}
    BY <2>1
  <2>3. QED
    BY <2>1, <2>2 DEF OrderInv, SortedByPriority
<1>11. CASE UNCHANGED vars
  BY <1>2, <1>11 DEF vars, handlerVars, loopVars
<1>12. QED
  BY <1>1, <1>3, <1>4, <1>5, <1>6, <1>7, <1>8, <1>9, <1>10, <1>11 DEF Next, DispatchEvents

(* Handlers are called in the order of their priorities, so an event that  *)
(* was handled was shown to none of lower priority.  The assumption is     *)
(* needed: with an address used again the vector loses its order, which    *)
(* TLC shows.                                                              *)
THEOREM HandledStops ==
    ASSUME ~ReuseAddresses
    PROVE  Spec => []HandledHidesLower
<1>1. Init => OrderInv
  <2>1. DOMAIN <<>> = {}
    OBVIOUS
  <2>2. QED
    BY <2>1 DEF Init, OrderInv, SortedByPriority
<1>2. DispatcherInv /\ OrderInv /\ [Next]_vars => OrderInv'
  BY StepOrder DEF DispatcherInv
<1>3. OrderInv => HandledHidesLower
  BY DEF OrderInv, HandledHidesLower
<1>4. QED
  BY <1>1, <1>2, <1>3, AlwaysDispatcher, PTL DEF Spec
=============================================================================
