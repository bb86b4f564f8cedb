--------------------------- MODULE EventDispatcher ---------------------------
(***************************************************************************)
(* Maple's event system (Event/EventDispatcher.cpp, Event/EventHandler). *)
(*                                                                         *)
(* The dispatcher keeps raw pointers to handlers: a vector ordered by      *)
(* priority and two sets of pending additions and removals, which only     *)
(* dispatchEvents applies.  Handlers are created, added, removed and       *)
(* destroyed by the main thread, between dispatches and from inside the    *)
(* callbacks; events are posted by any thread, under the queue's mutex.    *)
(* A pointer is an address: the allocator may give the address of a        *)
(* destroyed handler to a new one.                                         *)
(***************************************************************************)
EXTENDS Integers, Sequences, SequencesExt

CONSTANTS
    Addresses,      \* where handlers live
    Priorities,     \* handler priorities
    Types,          \* event types that have a handler slot
    Events,         \* events, each posted at most once
    TypeOf,         \* the type of each event
    MaxCreated,     \* bound: handlers ever constructed
    MaxOps,         \* bound: additions, removals and destructions of handlers
    ReuseAddresses  \* may a new handler get a destroyed one's address

ASSUME DispatcherAssumption ==
    /\ Priorities \subseteq Int
    /\ TypeOf \in [Events -> Types]
    /\ MaxCreated \in Nat /\ MaxOps \in Nat
    /\ ReuseAddresses \in BOOLEAN

VARIABLES
    alive,          \* addresses that hold a live EventHandler
    priority,       \* priority[a]        : EventHandler::priority
    listens,        \* listens[a]         : types whose handler function is set
    registered,     \* live handlers whose eventDispatcher is not null
    eventHandlers,  \* the vector
    addSet,         \* eventHandlerAddSet
    deleteSet,      \* eventHandlerDeleteSet
    eventQueue,     \* the queue of posted events
    pc,             \* where the main thread is
    event,          \* <<e>> while e is being dispatched, else <<>>
    index,          \* position of the loop of dispatchEvent
    handled,        \* its local variable
    seen,           \* history: the handlers called for event, with their priority
    resolved,       \* history: events whose promise has its value, in order
    posted,         \* history: events in the order of postEvent
    created, ops    \* counters of the two bounds

handlerVars == <<alive, priority, listens, created>>
setVars     == <<addSet, deleteSet, registered>>
queueVars   == <<eventQueue, posted>>
loopVars    == <<pc, event, index, handled, seen, resolved>>
vars == <<handlerVars, setVars, eventHandlers, queueVars, loopVars, ops>>

Init ==
    /\ alive = {} /\ registered = {}
    /\ priority = [a \in Addresses |-> 0]
    /\ listens = [a \in Addresses |-> {}]
    /\ eventHandlers = <<>>
    /\ addSet = {} /\ deleteSet = {}
    /\ eventQueue = <<>> /\ posted = <<>>
    /\ pc = "idle" /\ event = <<>> /\ index = 1 /\ handled = FALSE
    /\ seen = <<>> /\ resolved = <<>>
    /\ created = 0 /\ ops = 0

-----------------------------------------------------------------------------
(* What the main thread may call: outside the dispatcher, or in a callback *)
(* of the handler at index.                                                *)

UserCode == pc \in {"idle", "callback"}

(* A running callback belongs to a handler that its own code keeps alive.  *)
Running(a) == pc = "callback" /\ eventHandlers[index] = a

(* EventHandler::EventHandler: no dispatcher yet.                          *)
Create(a, p, ts) ==
    /\ UserCode /\ created < MaxCreated
    /\ a \notin alive
    /\ ReuseAddresses \/ a \notin Range(eventHandlers) \union deleteSet
    /\ alive' = alive \union {a}
    /\ priority' = [priority EXCEPT ![a] = p]
    /\ listens' = [listens EXCEPT ![a] = ts]
    /\ created' = created + 1
    /\ UNCHANGED <<setVars, eventHandlers, queueVars, loopVars, ops>>

(* EventDispatcher::addEventHandler; the removal it starts with when the   *)
(* handler already has a dispatcher is undone by the two set operations.   *)
AddEventHandler(a) ==
    /\ UserCode /\ ops < MaxOps
    /\ a \in alive
    /\ registered' = registered \union {a}
    /\ addSet' = addSet \union {a}
    /\ deleteSet' = deleteSet \ {a}
    /\ ops' = ops + 1
    /\ UNCHANGED <<handlerVars, eventHandlers, queueVars, loopVars>>

(* EventDispatcher::removeEventHandler, and EventHandler::remove.          *)
RemoveEventHandler(a) ==
    /\ UserCode /\ ops < MaxOps
    /\ a \in alive
    /\ registered' = registered \ {a}
    /\ deleteSet' = deleteSet \union {a}
    /\ addSet' = addSet \ {a}
    /\ ops' = ops + 1
    /\ UNCHANGED <<handlerVars, eventHandlers, queueVars, loopVars>>

(* Mutant: ~EventHandler does not remove itself. *)
DestroyWithoutRemoval(a) ==
    /\ UserCode /\ ops < MaxOps
    /\ a \in alive /\ ~Running(a)
    /\ alive' = alive \ {a}
    /\ registered' = registered \ {a}
    /\ deleteSet' = deleteSet
    /\ addSet' = addSet
    /\ ops' = ops + 1
    /\ UNCHANGED <<priority, listens, created, eventHandlers, queueVars, loopVars>>

(* EventHandler::~EventHandler removes itself if it has a dispatcher.      *)
Destroy(a) ==
    /\ UserCode /\ ops < MaxOps
    /\ a \in alive /\ ~Running(a)
    /\ alive' = alive \ {a}
    /\ registered' = registered \ {a}
    /\ deleteSet' = IF a \in registered THEN deleteSet \union {a} ELSE deleteSet
    /\ addSet' = IF a \in registered THEN addSet \ {a} ELSE addSet
    /\ ops' = ops + 1
    /\ UNCHANGED <<priority, listens, created, eventHandlers, queueVars, loopVars>>

(* EventDispatcher::postEvent, from any thread, under eventQueueMutex.     *)
PostEvent(e) ==
    /\ pc # "dead"
    /\ e \notin Range(posted)
    /\ eventQueue' = Append(eventQueue, e)
    /\ posted' = Append(posted, e)
    /\ UNCHANGED <<handlerVars, setVars, eventHandlers, loopVars, ops>>

-----------------------------------------------------------------------------
(* EventDispatcher::dispatchEvents on the main thread.                     *)

DispatchBegin ==
    /\ pc = "idle"
    /\ pc' = "purge"
    /\ UNCHANGED <<handlerVars, setVars, eventHandlers, queueVars, ops,
                   event, index, handled, seen, resolved>>

(* Take the pending removals one by one: std::find and erase.              *)
PurgePending(a) ==
    /\ pc = "purge" /\ a \in deleteSet
    /\ \/ a \notin Range(eventHandlers) /\ UNCHANGED eventHandlers
       \/ \E i \in DOMAIN eventHandlers :
            /\ eventHandlers[i] = a /\ \A j \in 1 .. i - 1 : eventHandlers[j] # a
            /\ eventHandlers' = RemoveAt(eventHandlers, i)
    /\ deleteSet' = deleteSet \ {a}
    /\ UNCHANGED <<handlerVars, addSet, registered, queueVars, loopVars, ops>>

PurgeDone ==
    /\ pc = "purge" /\ deleteSet = {}
    /\ pc' = "sort"
    /\ UNCHANGED <<handlerVars, setVars, eventHandlers, queueVars, ops,
                   event, index, handled, seen, resolved>>

(* Mutant: push_back in place of the ordered insertion. *)
AtTheEnd(a) == {Len(eventHandlers) + 1}

(* Where std::upper_bound puts a: behind every handler of the same or a    *)
(* higher priority and before the others; when no place is, the vector is  *)
(* not ordered and the result is undefined.                                *)
UpperBound(a) ==
    LET Places == 1 .. Len(eventHandlers) + 1
        Bounds == {i \in Places : \A j \in DOMAIN eventHandlers :
                                     j < i <=> priority[eventHandlers[j]] >= priority[a]}
    IN  IF Bounds # {} THEN Bounds ELSE Places

(* Mutant: an added pointer is not looked up first. *)
InsertPendingAgain(a) ==
    /\ pc = "sort" /\ a \in addSet
    /\ \E i \in UpperBound(a) : eventHandlers' = InsertAt(eventHandlers, i, a)
    /\ addSet' = addSet \ {a}
    /\ UNCHANGED <<handlerVars, deleteSet, registered, queueVars, loopVars, ops>>

(* Take the pending additions one by one, in the set's (address) order; a  *)
(* pointer that is already in the vector keeps its place.                  *)
InsertPending(a) ==
    /\ pc = "sort" /\ a \in addSet
    /\ IF a \in Range(eventHandlers)
       THEN UNCHANGED eventHandlers
       ELSE \E i \in UpperBound(a) : eventHandlers' = InsertAt(eventHandlers, i, a)
    /\ addSet' = addSet \ {a}
    /\ UNCHANGED <<handlerVars, deleteSet, registered, queueVars, loopVars, ops>>

SortDone ==
    /\ pc = "sort" /\ addSet = {}
    /\ pc' = "pump"
    /\ UNCHANGED <<handlerVars, setVars, eventHandlers, queueVars, ops,
                   event, index, handled, seen, resolved>>

(* Mutant: the queue is emptied from the wrong end. *)
PopLastEvent ==
    /\ pc = "pump" /\ eventQueue # <<>>
    /\ event' = <<Last(eventQueue)>>
    /\ eventQueue' = Front(eventQueue)
    /\ pc' = "dispatch"
    /\ UNCHANGED <<handlerVars, setVars, eventHandlers, posted, ops,
                   index, handled, seen, resolved>>

(* One round of the pump: pop an event and start dispatchEvent on it.      *)
PopEvent ==
    /\ pc = "pump" /\ eventQueue # <<>>
    /\ event' = <<Head(eventQueue)>>
    /\ eventQueue' = Tail(eventQueue)
    /\ pc' = "dispatch"
    /\ UNCHANGED <<handlerVars, setVars, eventHandlers, posted, ops,
                   index, handled, seen, resolved>>

PumpDone ==
    /\ pc = "pump" /\ eventQueue = <<>>
    /\ pc' = "idle"
    /\ UNCHANGED <<handlerVars, setVars, eventHandlers, queueVars, ops,
                   event, index, handled, seen, resolved>>

Wants(a) == TypeOf[event[1]] \in listens[a]

(* Mutant: a handler marked for deletion ends the loop. *)
SkipHandlerBreaks ==
    /\ pc = "dispatch" /\ ~handled /\ index <= Len(eventHandlers)
    /\ eventHandlers[index] \in deleteSet \/ ~Wants(eventHandlers[index])
    /\ index' = IF eventHandlers[index] \in deleteSet THEN Len(eventHandlers) + 1 ELSE index + 1
    /\ UNCHANGED <<handlerVars, setVars, eventHandlers, queueVars, ops,
                   pc, event, handled, seen, resolved>>

(* The loop's next handler is marked for deletion or has no function for   *)
(* this type.                                                              *)
SkipHandler ==
    /\ pc = "dispatch" /\ ~handled /\ index <= Len(eventHandlers)
    /\ eventHandlers[index] \in deleteSet \/ ~Wants(eventHandlers[index])
    /\ index' = index + 1
    /\ UNCHANGED <<handlerVars, setVars, eventHandlers, queueVars, ops,
                   pc, event, handled, seen, resolved>>

CallHandler ==
    /\ pc = "dispatch" /\ ~handled /\ index <= Len(eventHandlers)
    /\ eventHandlers[index] \notin deleteSet /\ Wants(eventHandlers[index])
    /\ seen' = Append(seen, [handler |-> eventHandlers[index],
                              priority |-> priority[eventHandlers[index]]])
    /\ pc' = "callback"
    /\ UNCHANGED <<handlerVars, setVars, eventHandlers, queueVars, ops,
                   event, index, handled, resolved>>

(* The callback returns; true ends the loop.                               *)
HandlerReturns(result) ==
    /\ pc = "callback"
    /\ handled' = result
    /\ index' = index + 1
    /\ pc' = "dispatch"
    /\ UNCHANGED <<handlerVars, setVars, eventHandlers, queueVars, ops,
                   event, seen, resolved>>

(* Mutant: the loop of the next event goes on where this one stopped. *)
EventDoneAtIndex ==
    /\ pc = "dispatch"
    /\ handled \/ index > Len(eventHandlers)
    /\ resolved' = resolved \o event
    /\ event' = <<>> /\ index' = index /\ handled' = FALSE /\ seen' = <<>>
    /\ pc' = "pump"
    /\ UNCHANGED <<handlerVars, setVars, eventHandlers, queueVars, ops>>

(* Mutant: the promise of an unhandled event gets no value. *)
EventDoneIfHandled ==
    /\ pc = "dispatch"
    /\ handled \/ index > Len(eventHandlers)
    /\ resolved' = IF handled THEN resolved \o event ELSE resolved
    /\ event' = <<>> /\ index' = 1 /\ handled' = FALSE /\ seen' = <<>>
    /\ pc' = "pump"
    /\ UNCHANGED <<handlerVars, setVars, eventHandlers, queueVars, ops>>

(* dispatchEvent returns and the event's promise is given the result; its  *)
(* local variables are gone.                                               *)
EventDone ==
    /\ pc = "dispatch"
    /\ handled \/ index > Len(eventHandlers)
    /\ resolved' = resolved \o event
    /\ event' = <<>> /\ index' = 1 /\ handled' = FALSE /\ seen' = <<>>
    /\ pc' = "pump"
    /\ UNCHANGED <<handlerVars, setVars, eventHandlers, queueVars, ops>>

(* EventDispatcher::~EventDispatcher clears the handlers' back pointers.   *)
DestroyDispatcher ==
    /\ pc = "idle"
    /\ registered' = registered \ (addSet \union (Range(eventHandlers) \ deleteSet))
    /\ pc' = "dead"
    /\ UNCHANGED <<handlerVars, addSet, deleteSet, eventHandlers, queueVars, ops,
                   event, index, handled, seen, resolved>>

DispatchEvents ==
    \/ DispatchBegin \/ PurgeDone \/ SortDone \/ PopEvent \/ PumpDone
    \/ SkipHandler \/ CallHandler \/ EventDone
    \/ \E a \in Addresses : PurgePending(a) \/ InsertPending(a)
    \/ \E result \in BOOLEAN : HandlerReturns(result)

Next ==
    \/ \E a \in Addresses, p \in Priorities, ts \in SUBSET Types : Create(a, p, ts)
    \/ \E a \in Addresses : AddEventHandler(a) \/ RemoveEventHandler(a) \/ Destroy(a)
    \/ \E e \in Events : PostEvent(e)
    \/ DispatchEvents
    \/ DestroyDispatcher

Spec == Init /\ [][Next]_vars

(* The frame loop calls dispatchEvents in every frame, and callbacks       *)
(* return.                                                                 *)
FairSpec == Spec /\ WF_vars(DispatchEvents)

-----------------------------------------------------------------------------
(* Properties.                                                             *)

TypeOK ==
    /\ alive \subseteq Addresses /\ registered \subseteq alive
    /\ priority \in [Addresses -> Priorities \union {0}]
    /\ listens \in [Addresses -> SUBSET Types]
    /\ eventHandlers \in Seq(Addresses)
    /\ addSet \subseteq Addresses /\ deleteSet \subseteq Addresses
    /\ eventQueue \in Seq(Events) /\ posted \in Seq(Events) /\ resolved \in Seq(Events)
    /\ pc \in {"idle", "purge", "sort", "pump", "dispatch", "callback", "dead"}
    /\ event \in Seq(Events)
    /\ index \in 1 .. Len(eventHandlers) + 1
    /\ handled \in BOOLEAN
    /\ seen \in Seq([handler : Addresses, priority : Priorities \union {0}])
    /\ created \in 0 .. MaxCreated /\ ops \in 0 .. MaxOps

(* A pointer the dispatcher may still follow, one in eventHandlerAddSet or *)
(* in the vector without being marked for deletion, is a live handler that *)
(* knows its dispatcher; and a handler with a dispatcher is such a         *)
(* pointer, so that ~EventDispatcher reaches every back pointer and no     *)
(* handler outlives the dispatcher with a pointer to it.                   *)
PointersAreLive ==
    registered = IF pc = "dead" THEN {}
                 ELSE addSet \union (Range(eventHandlers) \ deleteSet)

(* However additions and removals of one handler alternate between two     *)
(* frames, it is in the vector at most once.                               *)
NoDuplicateHandlers ==
    \A i, j \in DOMAIN eventHandlers : eventHandlers[i] = eventHandlers[j] => i = j

(* The comment on the loop of dispatchEvent: a handled event is not shown  *)
(* to a handler of lower priority than the one that handled it.            *)
HandledHidesLower ==
    handled => \A i \in DOMAIN seen : seen[i].priority >= seen[Len(seen)].priority

(* An event nobody handled was shown to every handler of the vector that   *)
(* wants it and is still registered, whatever the callbacks did meanwhile, *)
(* except to one that was removed and added again during the dispatch.     *)
UnhandledSeenByAll ==
    pc = "dispatch" /\ ~handled /\ index > Len(eventHandlers) =>
        \A a \in (registered \ addSet) \intersect Range(eventHandlers) :
            Wants(a) => \E i \in DOMAIN seen : seen[i].handler = a

(* Events are dispatched one at a time in the order they were posted.      *)
EventsInOrder ==
    posted = resolved \o event \o eventQueue

(* Every posted event's promise gets its value.                            *)
EveryEventResolved ==
    \A e \in Events : e \in Range(eventQueue) ~> (e \in Range(resolved) \/ pc = "dead")
=============================================================================
