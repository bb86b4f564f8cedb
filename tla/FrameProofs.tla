----------------------------- MODULE FrameProofs -----------------------------
(***************************************************************************)
(* What holds of the frame loop for every set of keys, buttons, scroll     *)
(* offsets and window sizes, and for every number of events and of pending *)
(* size changes.                                                           *)
(***************************************************************************)
EXTENDS Frame, SequenceTheorems, TLAPS

-----------------------------------------------------------------------------
(* Input.                                                                  *)

(* How many events of the last poll have been dispatched.                  *)
Done == Len(polled) - Len(queue)

(* The queue is the part of the poll that was not dispatched, all of it    *)
(* until the dispatch begins and nothing of it outside poll and dispatch.  *)
QueueInv ==
    /\ Len(queue) <= Len(polled)
    /\ \A i \in 1 .. Len(queue) : queue[i] = polled[Done + i]
    /\ phase \in {"scripts", "poll"} => Done = 0
    /\ phase \notin {"poll", "dispatch", "dead"} => queue = <<>>

(* pressed and scroll are what the dispatched part amounts to.             *)
PressedInv ==
    \A x \in Inputs :
        x \in pressed <=>
            \E i \in 1 .. Done : /\ polled[i].kind = "press" /\ polled[i].of = x
                                 /\ \A j \in i + 1 .. Done : ~About(polled[j], x)

ScrollInv ==
    \/ scroll = 0 /\ \A i \in 1 .. Done : polled[i].kind # "scroll"
    \/ \E i \in 1 .. Done : /\ polled[i].kind = "scroll" /\ polled[i].of = scroll
                            /\ \A j \in i + 1 .. Done : polled[j].kind # "scroll"

(* Dispatching the rest of the queue will make held the same as down.      *)
HeldInv ==
    \A x \in Inputs :
        x \in down <=>
            \/ \E i \in 1 .. Len(queue) :
                  /\ About(queue[i], x) /\ queue[i].kind # "release"
                  /\ \A j \in i + 1 .. Len(queue) : ~About(queue[j], x)
            \/ x \in held /\ \A i \in 1 .. Len(queue) : ~About(queue[i], x)

InputInv == QueueInv /\ PressedInv /\ ScrollInv /\ HeldInv

-----------------------------------------------------------------------------
(* Window and device.                                                      *)

(* The last size the window will be told is the one the surface has.  A    *)
(* window that has been told everything has a chain of its size, unless it *)
(* is minimised.                                                           *)
SizesInv ==
    /\ sizes # <<>> => surface = sizes[Len(sizes)]
    /\ sizes = <<>> => surface \in {0, chain.size}

Fit == targets = [live |-> TRUE, size |-> chain.size]

(* Does the frame that is being drawn own an image.                        *)
HasImage ==
    \/ phase \in {"record", "submit", "wait"} /\ ready # "none"
    \/ phase = "wait" /\ gpu = "done"
    \/ phase = "present"

(* Frame buffers that do not fit will be rebuilt: a size callback that is  *)
(* not about minimising is due, and it comes before the next frame draws.  *)
FitInv ==
    /\ phase # "dead" => Fit \/ \E i \in 1 .. Len(sizes) : sizes[i] # 0
    /\ phase \in {"dispatch", "acquire"} \/ HasImage => Fit

(* The GPU works for the main thread only while that waits for it.         *)
GpuInv ==
    /\ phase \in {"reset", "scripts", "poll", "dispatch", "acquire", "record"} => gpu = "idle"
    /\ phase = "submit" => gpu = "recorded"
    /\ phase = "wait" => gpu \in {"submitted", "done"}
    /\ phase = "present" => gpu = "done"
    /\ phase \in {"reset", "scripts", "poll", "dispatch", "acquire"} => ready = "none"
    /\ gpu = "done" => ready = "none"

(* The chain's frame counter and the engine's images keep in step as long  *)
(* as the images come in turn.                                             *)
InStep ==
    turn # N =>
        /\ phase \in {"reset", "scripts", "poll", "dispatch", "acquire"} =>
              turn = chain.currentBuffer
        /\ HasImage => /\ chain.acquireImageIndex = chain.currentBuffer
                       /\ turn = (chain.currentBuffer + 1) % N

(* The debug renderer's frame buffers are as old as the first chain.       *)
DebugInv == debugTargets.live => debugTargets.size = chain.size

DeviceInv == SizesInv /\ FitInv /\ GpuInv /\ InStep /\ DebugInv

-----------------------------------------------------------------------------
(* Types.                                                                  *)

(* The images are numbered 0 .. N - 1, and counting wraps around.          *)
LEMMA NextImage ==
    /\ 0 \in Images
    /\ \A i \in Images : (i + 1) % N \in Images
    /\ N \in 0 .. N /\ Images \subseteq 0 .. N
<1>1. N \in {1, 2, 3}
  BY FrameAssumption
<1>2. CASE N = 1
  BY <1>2 DEF Images
<1>3. CASE N = 2
  BY <1>3 DEF Images
<1>4. CASE N = 3
  BY <1>4 DEF Images
<1>5. QED
  BY <1>1, <1>2, <1>3, <1>4

(* What an event can be about.                                             *)
LEMMA EventType ==
    ASSUME NEW e \in Events
    PROVE  /\ e.kind \in {"press", "release", "repeat", "scroll"}
           /\ e.kind # "scroll" => e.of \in Inputs
           /\ e.kind = "scroll" => e.of \in Scrolls
  BY DEF Events, Inputs

(* A chain that replaces another is made for the surface's size.           *)
LEMMA NewChainType ==
    ASSUME NEW s \in Sizes
    PROVE  NewChain(s) \in [size : Sizes, currentBuffer : Images, acquireImageIndex : Images]
  BY NextImage DEF NewChain

(* Replacing the chain inside a frame keeps the types.                     *)
LEMMA ResizeType ==
    ASSUME TypeOK, NEW then \in {"record", "reset"}, DeviceResize(then)
    PROVE  TypeOK'
<1>1. CASE Die
  BY <1>1 DEF Die, TypeOK, input, window, device
<1>2. CASE /\ surface # 0 /\ ReplaceChain
           /\ targets' = [targets EXCEPT !.live = FALSE]
           /\ ready' = "none" /\ gpu' = "idle" /\ phase' = then
           /\ UNCHANGED <<input, window>>
  <2>1. chain' \in [size : Sizes, currentBuffer : Images, acquireImageIndex : Images]
        /\ turn' \in 0 .. N
    BY <1>2, NewChainType, NextImage DEF ReplaceChain, TypeOK
  <2>2. /\ targets' \in [live : BOOLEAN, size : Sizes]
        /\ debugTargets' \in [live : BOOLEAN, size : Sizes]
    BY <1>2 DEF ReplaceChain, TypeOK
  <2>3. QED
    BY <1>2, <2>1, <2>2 DEF TypeOK, input, window
<1>3. QED
  BY <1>1, <1>2 DEF DeviceResize

(* Every step keeps the types.                                             *)
LEMMA StepType == TypeOK /\ [Next]_vars => TypeOK'
<1> SUFFICES ASSUME TypeOK, [Next]_vars PROVE TypeOK'
  OBVIOUS
<1> USE DEF TypeOK, input, window, device
<1>1. CASE resetPressed \/ Scripts \/ EndPoll \/ EndDispatch
  BY <1>1, EmptySeq DEF resetPressed, Scripts, EndPoll, EndDispatch
<1>2. ASSUME NEW e \in Events, InputCallback(e) PROVE TypeOK'
  <2>1. down' \subseteq Inputs
    BY <1>2, EventType DEF InputCallback
  <2>2. QED
    BY <1>2, <2>1, AppendProperties DEF InputCallback, Post
<1>3. CASE Dispatch
  <2>1. Head(queue) \in Events /\ Tail(queue) \in Seq(Events)
    BY <1>3, HeadTailProperties DEF Dispatch
  <2>2. pressed' \subseteq Inputs /\ held' \subseteq Inputs /\ scroll' \in Scrolls \union {0}
    BY <1>3, <2>1, EventType DEF Dispatch, Handle
  <2>3. QED
    BY <1>3, <2>1, <2>2 DEF Dispatch
<1>4. ASSUME NEW s \in Sizes \union {0}, UserResize(s) PROVE TypeOK'
  BY <1>4, AppendProperties DEF UserResize
<1>5. CASE SizeCallback
  <2>1. Head(sizes) \in Sizes \union {0} /\ Tail(sizes) \in Seq(Sizes \union {0})
    BY <1>5, HeadTailProperties DEF SizeCallback
  <2>2. /\ chain' \in [size : Sizes, currentBuffer : Images, acquireImageIndex : Images]
        /\ turn' \in 0 .. N /\ targets' \in [live : BOOLEAN, size : Sizes]
        /\ debugTargets' \in [live : BOOLEAN, size : Sizes]
    <3>1. CASE UNCHANGED <<chain, turn, targets, debugTargets>>
      BY <3>1
    <3>2. CASE /\ Head(sizes) # 0 /\ surface # 0
               /\ ReplaceChain /\ RebuildTargets(Head(sizes))
      <4>1. surface \in Sizes /\ Head(sizes) \in Sizes
        BY <2>1, <3>2
      <4>2. QED
        BY <3>2, <4>1, NewChainType, NextImage DEF ReplaceChain, RebuildTargets
    <3>3. QED
      BY <1>5, <3>1, <3>2 DEF SizeCallback
  <2>3. QED
    BY <1>5, <2>1, <2>2 DEF SizeCallback
<1>6. ASSUME NEW i \in Images, Acquire(i) PROVE TypeOK'
  BY <1>6, NextImage DEF Acquire
<1>7. CASE AcquireOutOfDate \/ PresentStale
  BY <1>7, ResizeType DEF AcquireOutOfDate, PresentStale
<1>8. CASE Record \/ Submit \/ ImageReady \/ GpuRun \/ WaitForFence
  BY <1>8 DEF Record, Submit, ImageReady, GpuRun, WaitForFence
<1>9. CASE Present
  BY <1>9, NextImage DEF Present, Presented
<1>10. CASE Faults
  BY <1>10 DEF Faults, AcquireFails, WaitTimeout, PresentFails, Die
<1>11. CASE UNCHANGED vars
  BY <1>11 DEF vars
<1>12. QED
  BY <1>1, <1>2, <1>3, <1>4, <1>5, <1>6, <1>7, <1>8, <1>9, <1>10, <1>11 DEF Next, Loop

(* The shape of the state: currentBuffer and acquireImageIndex stay inside *)
(* the arrays of the swap chain, no frame buffer or chain is made for a    *)
(* minimised window, and nothing but known keys enters the input state.    *)
THEOREM FrameTypes == Spec => []TypeOK
<1>1. Init => TypeOK
  BY EmptySeq, NewChainType, NextImage, FrameAssumption DEF Init, TypeOK
<1>2. QED
  BY <1>1, StepType, PTL DEF Spec

-----------------------------------------------------------------------------
(* What a frame sees of the input.                                         *)

(* A step that leaves the input alone.                                     *)
LEMMA KeepInput ==
    ASSUME TypeOK, InputInv, UNCHANGED input,
           phase' \in {"scripts", "poll"} => phase \in {"scripts", "poll"},
           phase' \notin {"poll", "dispatch", "dead"} => queue = <<>>
    PROVE  InputInv'
  BY DEF InputInv, QueueInv, PressedInv, ScrollInv, HeldInv, Done, About, input

(* The callback of an event adds it to what is still to be dispatched.     *)
LEMMA CallbackInput ==
    ASSUME TypeOK, InputInv, NEW e \in Events, InputCallback(e)
    PROVE  InputInv'
<1>1. /\ queue \in Seq(Events) /\ polled \in Seq(Events)
      /\ Len(queue) \in Nat /\ Len(polled) \in Nat /\ Len(queue) <= Len(polled)
      /\ Done \in Nat /\ Done = 0 /\ phase = "poll" /\ phase' = "poll"
  BY LenProperties DEF TypeOK, InputInv, QueueInv, Done, InputCallback
<1>2. /\ Len(queue') = Len(queue) + 1 /\ queue'[Len(queue) + 1] = e
      /\ \A i \in 1 .. Len(queue) : queue'[i] = queue[i]
      /\ Len(polled') = Len(polled) + 1 /\ polled'[Len(polled) + 1] = e
      /\ \A i \in 1 .. Len(polled) : polled'[i] = polled[i]
  BY <1>1, AppendProperties DEF InputCallback, Post
<1>3. Done' = 0 /\ Len(queue) = Len(polled)
  BY <1>1, <1>2 DEF Done
<1>4. QueueInv'
  BY <1>1, <1>2, <1>3 DEF QueueInv, InputInv, Done
<1>5. PressedInv' /\ ScrollInv'
  BY <1>1, <1>3 DEF PressedInv, ScrollInv, InputInv, InputCallback
<1>6. HeldInv'
  <2> SUFFICES ASSUME NEW x \in Inputs
               PROVE  (x \in down <=>
                         \/ \E i \in 1 .. Len(queue) :
                               /\ About(queue[i], x) /\ queue[i].kind # "release"
                               /\ \A j \in i + 1 .. Len(queue) : ~About(queue[j], x)
                         \/ x \in held /\ \A i \in 1 .. Len(queue) : ~About(queue[i], x))'
    BY DEF HeldInv
  <2>1. CASE About(e, x)
    <3>1. \A i \in 1 .. Len(queue) : \E j \in i + 1 .. Len(queue') : About(queue'[j], x)
      BY <1>1, <1>2, <2>1
    <3>2. x \in down' <=> e.kind # "release"
      BY <2>1, EventType DEF InputCallback, About
    <3>3. QED
      BY <1>1, <1>2, <2>1, <3>1, <3>2 DEF About
  <2>2. CASE ~About(e, x)
    <3>1. x \in down' <=> x \in down
      BY <2>2, EventType DEF InputCallback, About
    <3>2. held' = held
      BY DEF InputCallback
    <3>3. x \in down <=>
             \/ \E i \in 1 .. Len(queue) :
                   /\ About(queue[i], x) /\ queue[i].kind # "release"
                   /\ \A j \in i + 1 .. Len(queue) : ~About(queue[j], x)
             \/ x \in held /\ \A i \in 1 .. Len(queue) : ~About(queue[i], x)
      BY DEF InputInv, HeldInv
    <3>4. \A i \in 1 .. Len(queue') : IF i = Len(queue) + 1 THEN ~About(queue'[i], x)
                                     ELSE i \in 1 .. Len(queue) /\ queue'[i] = queue[i]
      BY <1>1, <1>2, <2>2
    <3>5. 1 .. Len(queue) \subseteq 1 .. Len(queue') /\ Len(queue) + 1 \in 1 .. Len(queue')
      BY <1>1, <1>2
    <3>6. (\A i \in 1 .. Len(queue) : ~About(queue[i], x))
          <=> \A i \in 1 .. Len(queue') : ~About(queue'[i], x)
      BY <1>2, <3>4, <3>5
    <3>7. ASSUME NEW i \in 1 .. Len(queue)
          PROVE  (\A j \in i + 1 .. Len(queue) : ~About(queue[j], x))
                 <=> \A j \in i + 1 .. Len(queue') : ~About(queue'[j], x)
      <4>1. \A j \in i + 1 .. Len(queue) : j \in i + 1 .. Len(queue') /\ queue'[j] = queue[j]
        BY <1>1, <1>2
      <4>2. \A j \in i + 1 .. Len(queue') :
               (j \in i + 1 .. Len(queue) /\ queue'[j] = queue[j]) \/ ~About(queue'[j], x)
        BY <1>1, <1>2, <2>2
      <4>3. QED
        BY <4>1, <4>2
    <3>8. (\E i \in 1 .. Len(queue) :
              /\ About(queue[i], x) /\ queue[i].kind # "release"
              /\ \A j \in i + 1 .. Len(queue) : ~About(queue[j], x))
          <=> \E i \in 1 .. Len(queue') :
                 /\ About(queue'[i], x) /\ queue'[i].kind # "release"
                 /\ \A j \in i + 1 .. Len(queue') : ~About(queue'[j], x)
      BY <1>2, <3>4, <3>5, <3>7
    <3>9. QED
      BY <3>1, <3>2, <3>3, <3>6, <3>8
  <2>3. QED
    BY <2>1, <2>2
<1>7. QED
  BY <1>4, <1>5, <1>6 DEF InputInv

(* Dispatching one event moves it to the part that has been dispatched.    *)
LEMMA DispatchInput ==
    ASSUME TypeOK, InputInv, Dispatch
    PROVE  InputInv'
<1> DEFINE e == Head(queue)
<1>1. /\ queue \in Seq(Events) /\ polled \in Seq(Events) /\ queue # <<>>
      /\ Len(queue) \in Nat \ {0} /\ Len(polled) \in Nat /\ Len(queue) <= Len(polled)
      /\ Done \in Nat /\ phase = "dispatch" /\ phase' = "dispatch"
      /\ polled' = polled /\ down' = down /\ queue' = Tail(queue)
  BY LenProperties, EmptySeq DEF TypeOK, InputInv, QueueInv, Done, Dispatch
<1>2. /\ Len(queue') = Len(queue) - 1 /\ e = queue[1] /\ e \in Events
      /\ \A i \in 1 .. Len(queue) - 1 : queue'[i] = queue[i + 1]
      /\ \A i \in 2 .. Len(queue) : i - 1 \in 1 .. Len(queue') /\ queue'[i - 1] = queue[i]
  <2>1. /\ Len(queue') = Len(queue) - 1 /\ e = queue[1] /\ e \in Events
        /\ \A i \in 1 .. Len(queue) - 1 : queue'[i] = queue[i + 1]
    BY <1>1, HeadTailProperties
  <2>2. ASSUME NEW i \in 2 .. Len(queue)
        PROVE  i - 1 \in 1 .. Len(queue') /\ queue'[i - 1] = queue[i]
    <3>1. i - 1 \in 1 .. Len(queue) - 1 /\ (i - 1) + 1 = i
      BY <1>1
    <3>2. QED
      BY <2>1, <3>1
  <2>3. QED
    BY <2>1, <2>2
<1>3. Done' = Done + 1 /\ polled[Done + 1] = e /\ Done + 1 \in 1 .. Len(polled)
  BY <1>1, <1>2 DEF Done, InputInv, QueueInv
<1>4. QueueInv'
  <2>1. ASSUME NEW i \in 1 .. Len(queue')
        PROVE  queue'[i] = polled'[Done' + i]
    BY <1>1, <1>2, <1>3, <2>1 DEF InputInv, QueueInv
  <2>2. QED
    BY <1>1, <1>2, <2>1 DEF QueueInv
<1>5. PressedInv'
  <2> DEFINE Pressed(s, n, x) ==
               \E i \in 1 .. n : /\ s[i].kind = "press" /\ s[i].of = x
                                 /\ \A j \in i + 1 .. n : ~About(s[j], x)
  <2>a. PressedInv' <=> \A x \in Inputs : x \in pressed' <=> Pressed(polled', Done', x)
    BY DEF PressedInv, About
  <2>b. \A x : Pressed(polled', Done', x) <=> Pressed(polled, Done + 1, x)
    <3> HIDE DEF Pressed
    <3>1. QED
      BY <1>1, <1>3
  <2> SUFFICES ASSUME NEW x \in Inputs
               PROVE  x \in pressed' <=> Pressed(polled, Done + 1, x)
    <3> HIDE DEF Pressed
    <3>1. QED
      BY <2>a, <2>b
  <2>1. CASE About(e, x)
    <3>1. x \in pressed' <=> e.kind = "press"
      BY <1>2, <2>1, EventType DEF Dispatch, Handle, About
    <3>2. \A i \in 1 .. Done : \E j \in i + 1 .. Done + 1 : About(polled[j], x)
      BY <1>1, <1>3, <2>1
    <3>3. CASE e.kind = "press"
      <4>1. polled[Done + 1].kind = "press" /\ polled[Done + 1].of = x
        BY <1>3, <2>1, <3>3 DEF About
      <4>2. Done + 1 \in 1 .. Done + 1 /\ (Done + 1) + 1 .. Done + 1 = {}
        BY <1>1
      <4>3. QED
        BY <3>1, <3>3, <4>1, <4>2
    <3>4. CASE e.kind # "press"
      <4>1. \A i \in 1 .. Done + 1 : i \in 1 .. Done \/ polled[i] = e
        BY <1>1, <1>3
      <4>2. QED
        BY <3>1, <3>2, <3>4, <4>1
    <3>5. QED
      BY <3>3, <3>4
  <2>2. CASE ~About(e, x)
    <3>1. x \in pressed' <=> x \in pressed
      BY <1>2, <2>2, EventType DEF Dispatch, Handle, About
    <3>2. e.of = x => e.kind # "press"
      BY <2>2 DEF About
    <3>3. x \in pressed <=>
             \E i \in 1 .. Done : /\ polled[i].kind = "press" /\ polled[i].of = x
                                 /\ \A j \in i + 1 .. Done : ~About(polled[j], x)
      BY DEF InputInv, PressedInv
    <3>4. ASSUME NEW i \in 1 .. Done
          PROVE  (\A j \in i + 1 .. Done : ~About(polled[j], x))
                 <=> \A j \in i + 1 .. Done + 1 : ~About(polled[j], x)
      <4>1. \A j \in i + 1 .. Done + 1 : j \in i + 1 .. Done \/ polled[j] = e
        BY <1>1, <1>3
      <4>2. \A j \in i + 1 .. Done : j \in i + 1 .. Done + 1
        BY <1>1
      <4>3. QED
        BY <2>2, <4>1, <4>2
    <3>5. \A i \in 1 .. Done + 1 : i \in 1 .. Done \/ polled[i] = e
      BY <1>1, <1>3
    <3>6. \A i \in 1 .. Done : i \in 1 .. Done + 1
      BY <1>1
    <3>7. QED
      BY <3>1, <3>2, <3>3, <3>4, <3>5, <3>6
  <2>3. QED
    BY <2>1, <2>2
<1>6. ScrollInv'
  <2>1. CASE e.kind = "scroll"
    <3>1. scroll' = e.of
      BY <2>1 DEF Dispatch, Handle
    <3>2. QED
      BY <1>1, <1>3, <2>1, <3>1 DEF ScrollInv
  <2>2. CASE e.kind # "scroll"
    <3>1. scroll' = scroll
      BY <2>2 DEF Dispatch, Handle
    <3>2. QED
      BY <1>1, <1>3, <2>2, <3>1 DEF InputInv, ScrollInv
  <2>3. QED
    BY <2>1, <2>2
<1>7. HeldInv'
  <2> SUFFICES ASSUME NEW x \in Inputs
               PROVE  x \in down <=>
                         \/ \E i \in 1 .. Len(queue') :
                               /\ About(queue'[i], x) /\ queue'[i].kind # "release"
                               /\ \A j \in i + 1 .. Len(queue') : ~About(queue'[j], x)
                         \/ x \in held' /\ \A i \in 1 .. Len(queue') : ~About(queue'[i], x)
    BY <1>1 DEF HeldInv, About
  <2>1. x \in down <=>
           \/ \E i \in 1 .. Len(queue) :
                 /\ About(queue[i], x) /\ queue[i].kind # "release"
                 /\ \A j \in i + 1 .. Len(queue) : ~About(queue[j], x)
           \/ x \in held /\ \A i \in 1 .. Len(queue) : ~About(queue[i], x)
    BY DEF InputInv, HeldInv
  <2>2. x \in held' <=> IF About(e, x) THEN e.kind # "release" ELSE x \in held
    BY <1>2, EventType DEF Dispatch, Handle, About
  <2>3. CASE \E k \in 1 .. Len(queue') : About(queue'[k], x)
    <3>1. (\E i \in 1 .. Len(queue) :
              /\ About(queue[i], x) /\ queue[i].kind # "release"
              /\ \A j \in i + 1 .. Len(queue) : ~About(queue[j], x))
          <=> \E i \in 1 .. Len(queue') :
                 /\ About(queue'[i], x) /\ queue'[i].kind # "release"
                 /\ \A j \in i + 1 .. Len(queue') : ~About(queue'[j], x)
      <4>1. ASSUME NEW i \in 1 .. Len(queue), About(queue[i], x), queue[i].kind # "release",
                   \A j \in i + 1 .. Len(queue) : ~About(queue[j], x)
            PROVE  \E m \in 1 .. Len(queue') :
                     /\ About(queue'[m], x) /\ queue'[m].kind # "release"
                     /\ \A j \in m + 1 .. Len(queue') : ~About(queue'[j], x)
        <5>1. i # 1
          BY <1>1, <1>2, <2>3, <4>1
        <5>2. i - 1 \in 1 .. Len(queue') /\ queue'[i - 1] = queue[i]
          BY <1>1, <1>2, <5>1
        <5>3. \A j \in (i - 1) + 1 .. Len(queue') : ~About(queue'[j], x)
          BY <1>1, <1>2, <4>1
        <5>4. QED
          BY <4>1, <5>2, <5>3
      <4>2. ASSUME NEW i \in 1 .. Len(queue'), About(queue'[i], x), queue'[i].kind # "release",
                   \A j \in i + 1 .. Len(queue') : ~About(queue'[j], x)
            PROVE  \E m \in 1 .. Len(queue) :
                     /\ About(queue[m], x) /\ queue[m].kind # "release"
                     /\ \A j \in m + 1 .. Len(queue) : ~About(queue[j], x)
        <5>1. i + 1 \in 1 .. Len(queue) /\ queue'[i] = queue[i + 1]
          BY <1>1, <1>2
        <5>2. \A j \in (i + 1) + 1 .. Len(queue) : ~About(queue[j], x)
          <6>1. ASSUME NEW j \in (i + 1) + 1 .. Len(queue) PROVE ~About(queue[j], x)
            <7>1. j \in 2 .. Len(queue) /\ j - 1 \in i + 1 .. Len(queue')
              BY <1>1, <1>2
            <7>2. QED
              BY <1>2, <4>2, <7>1
          <6>2. QED
            BY <6>1
        <5>3. QED
          BY <4>2, <5>1, <5>2
      <4>3. QED
        BY <4>1, <4>2
    <3>2. \E k \in 1 .. Len(queue) : About(queue[k], x)
      BY <1>1, <1>2, <2>3
    <3>3. QED
      BY <2>1, <2>3, <3>1, <3>2
  <2>4. CASE ~\E k \in 1 .. Len(queue') : About(queue'[k], x)
    <3>1. \A k \in 2 .. Len(queue) : ~About(queue[k], x)
      BY <1>1, <1>2, <2>4
    <3>2. QED
      BY <1>1, <1>2, <2>1, <2>2, <2>4, <3>1
  <2>5. QED
    BY <2>3, <2>4
<1>8. QED
  BY <1>4, <1>5, <1>6, <1>7 DEF InputInv

(* Every step keeps the input invariant.                                   *)
LEMMA StepInput == TypeOK /\ InputInv /\ [Next]_vars => InputInv'
<1> SUFFICES ASSUME TypeOK, InputInv, [Next]_vars PROVE InputInv'
  OBVIOUS
<1>1. CASE resetPressed
  <2>1. /\ queue' = <<>> /\ polled' = <<>> /\ pressed' = {} /\ scroll' = 0
        /\ UNCHANGED <<queue, held, down>>
    BY <1>1 DEF resetPressed, InputInv, QueueInv
  <2>2. Len(queue') = 0 /\ Len(polled') = 0 /\ Done' = 0
    BY <2>1 DEF Done
  <2>3. QueueInv' /\ PressedInv' /\ ScrollInv'
    BY <1>1, <2>1, <2>2 DEF resetPressed, QueueInv, PressedInv, ScrollInv
  <2>4. HeldInv'
    BY <2>1, <2>2 DEF InputInv, HeldInv
  <2>5. QED
    BY <2>3, <2>4 DEF InputInv
<1>2. ASSUME NEW e \in Events, InputCallback(e) PROVE InputInv'
  BY <1>2, CallbackInput
<1>3. CASE Dispatch
  BY <1>3, DispatchInput
<1>4. CASE \/ Scripts \/ EndPoll \/ EndDispatch \/ SizeCallback
           \/ Record \/ Submit \/ WaitForFence \/ Present
           \/ ImageReady \/ GpuRun \/ UNCHANGED vars
  BY <1>4, KeepInput
  DEF Scripts, EndPoll, EndDispatch, SizeCallback, Record, Submit, WaitForFence, Present,
      ImageReady, GpuRun, vars, InputInv, QueueInv
<1>5. ASSUME NEW s \in Sizes \union {0}, UserResize(s) PROVE InputInv'
  BY <1>5, KeepInput DEF UserResize, InputInv, QueueInv
<1>6. ASSUME NEW i \in Images, Acquire(i) PROVE InputInv'
  BY <1>6, KeepInput DEF Acquire, InputInv, QueueInv
<1>7. CASE AcquireOutOfDate \/ PresentStale \/ Faults
  BY <1>7, KeepInput
  DEF AcquireOutOfDate, PresentStale, Faults, AcquireFails, WaitTimeout, PresentFails,
      DeviceResize, Die, InputInv, QueueInv
<1>8. QED
  BY <1>1, <1>2, <1>3, <1>4, <1>5, <1>6, <1>7 DEF Next, Loop

(* Scripts never see a press, and what is drawn after the dispatch sees    *)
(* exactly the keys that are down, the presses that no later event of the  *)
(* poll undid, and the last turn of the wheel: for any number of events of *)
(* one poll.                                                               *)
THEOREM FramesSeeTheirInput == Spec => []InputSeen
<1>1. Init => InputInv
  BY DEF Init, InputInv, QueueInv, PressedInv, ScrollInv, HeldInv, Done
<1>2. TypeOK /\ InputInv => InputSeen
  <2> SUFFICES ASSUME TypeOK, InputInv PROVE InputSeen
    OBVIOUS
  <2>1. polled \in Seq(Events) /\ DOMAIN polled = 1 .. Len(polled) /\ Len(polled) \in Nat
    BY LenProperties DEF TypeOK
  <2>2. CASE phase \in {"scripts", "poll"}
    <3>1. Done = 0 /\ 1 .. Done = {}
      BY <2>2 DEF InputInv, QueueInv
    <3>2. pressed = {} /\ scroll = 0
      BY <3>1 DEF TypeOK, InputInv, PressedInv, ScrollInv
    <3>3. QED
      BY <2>2, <3>2 DEF InputSeen
  <2>3. CASE phase \in {"acquire", "record", "submit", "wait", "present"}
    <3>1. queue = <<>> /\ Len(queue) = 0 /\ Done = Len(polled)
      <4>1. queue = <<>>
        BY <2>3 DEF InputInv, QueueInv
      <4>2. Len(queue) = 0
        BY <4>1, EmptySeq
      <4>3. QED
        BY <2>1, <4>1, <4>2 DEF Done
    <3>2. held = down
      <4>1. \A x \in Inputs : x \in down <=> x \in held
        BY <3>1 DEF InputInv, HeldInv
      <4>2. QED
        BY <4>1 DEF TypeOK
    <3>3. ASSUME NEW x \in Inputs
          PROVE  x \in pressed <=> \E i \in DOMAIN polled :
                                      polled[i].kind = "press" /\ LastAbout(polled, i, x)
      BY <2>1, <3>1 DEF InputInv, PressedInv, LastAbout, About
    <3>4. \/ scroll = 0 /\ \A i \in DOMAIN polled : polled[i].kind # "scroll"
          \/ \E i \in DOMAIN polled : LastScroll(polled, i) /\ scroll = polled[i].of
      BY <2>1, <3>1 DEF InputInv, ScrollInv, LastScroll
    <3>5. pressed = {x \in Inputs : \E i \in DOMAIN polled :
                       polled[i].kind = "press" /\ LastAbout(polled, i, x)}
      BY <3>3 DEF TypeOK
    <3>6. QED
      BY <2>3, <3>2, <3>4, <3>5 DEF InputSeen
  <2>4. QED
    BY <2>2, <2>3 DEF InputSeen
<1>3. QED
  BY <1>1, <1>2, StepInput, FrameTypes, PTL DEF Spec

-----------------------------------------------------------------------------
(* Swap chain, frame buffers and fence.                                    *)

(* The user changes the window's size: the callback is due.                *)
LEMMA UserResizeDevice ==
    ASSUME TypeOK, DeviceInv, NEW s \in Sizes \union {0}, UserResize(s)
    PROVE  DeviceInv'
<1>1. /\ sizes \in Seq(Sizes \union {0}) /\ Len(sizes) \in Nat
      /\ UNCHANGED <<phase, chain, targets, debugTargets, turn, ready, gpu>> /\ surface' = s
  BY LenProperties DEF TypeOK, UserResize, device
<1>2. /\ sizes' # <<>> /\ Len(sizes') = Len(sizes) + 1 /\ sizes'[Len(sizes) + 1] = s
      /\ \A i \in 1 .. Len(sizes) : sizes'[i] = sizes[i]
  BY <1>1, AppendProperties DEF UserResize
<1>3. SizesInv'
  BY <1>1, <1>2 DEF SizesInv
<1>4. FitInv'
  <2>1. (\E i \in 1 .. Len(sizes) : sizes[i] # 0) => \E i \in 1 .. Len(sizes') : sizes'[i] # 0
    BY <1>1, <1>2
  <2>2. QED
    BY <1>1, <2>1 DEF DeviceInv, FitInv, Fit, HasImage
<1>5. GpuInv' /\ InStep' /\ DebugInv'
  BY <1>1 DEF DeviceInv, GpuInv, InStep, DebugInv, HasImage
<1>6. QED
  BY <1>3, <1>4, <1>5 DEF DeviceInv

(* A size callback: the chain and the frame buffers are made anew, and if  *)
(* the size is not the surface's any more, another callback is due.        *)
LEMMA SizeCallbackDevice ==
    ASSUME TypeOK, DeviceInv, SizeCallback
    PROVE  DeviceInv'
<1> DEFINE w == Head(sizes)
<1>1. /\ sizes \in Seq(Sizes \union {0}) /\ sizes # <<>> /\ Len(sizes) \in Nat \ {0}
      /\ sizes' = Tail(sizes) /\ surface = sizes[Len(sizes)]
      /\ phase = "poll" /\ UNCHANGED <<surface, ready, gpu>>
  BY LenProperties, EmptySeq DEF TypeOK, SizeCallback, DeviceInv, SizesInv
<1>2. /\ Len(sizes') = Len(sizes) - 1 /\ w = sizes[1] /\ w \in Sizes \union {0}
      /\ sizes' \in Seq(Sizes \union {0})
      /\ \A i \in 1 .. Len(sizes) - 1 : sizes'[i] = sizes[i + 1]
  BY <1>1, HeadTailProperties
<1>3. IF sizes' = <<>> THEN surface = w ELSE surface = sizes'[Len(sizes')]
  <2>1. CASE sizes' = <<>>
    <3>1. Len(sizes') = 0
      BY <2>1, EmptySeq
    <3>2. Len(sizes) = 1
      BY <1>1, <1>2, <3>1
    <3>3. surface = w
      BY <1>1, <1>2, <3>2
    <3>4. QED
      BY <2>1, <3>3
  <2>2. CASE sizes' # <<>>
    <3>1. Len(sizes') \in Nat \ {0}
      BY <1>2, <2>2, EmptySeq
    <3>2. QED
      BY <1>1, <1>2, <2>2, <3>1
  <2>3. QED
    BY <2>1, <2>2
<1>4. phase' \in {"poll", "dead"} /\ ~HasImage'
  BY <1>1 DEF SizeCallback, HasImage
<1>5. CASE w = 0 /\ UNCHANGED <<phase, chain, turn, targets, debugTargets>>
  <2>1. SizesInv'
    BY <1>1, <1>3, <1>5 DEF SizesInv
  <2>2. Fit' \/ \E i \in 1 .. Len(sizes') : sizes'[i] # 0
    <3>1. CASE Fit
      BY <1>5, <3>1 DEF Fit
    <3>2. CASE \E i \in 1 .. Len(sizes) : sizes[i] # 0
      <4>1. PICK i \in 1 .. Len(sizes) : sizes[i] # 0
        BY <3>2
      <4>2. i # 1
        BY <1>2, <1>5, <4>1
      <4>3. i - 1 \in 1 .. Len(sizes) - 1 /\ (i - 1) + 1 = i
        BY <1>1, <4>2
      <4>4. QED
        BY <1>2, <4>1, <4>3
    <3>3. QED
      BY <1>1, <3>1, <3>2 DEF DeviceInv, FitInv
  <2>3. FitInv'
    BY <1>1, <1>4, <1>5, <2>2 DEF FitInv
  <2>4. GpuInv' /\ InStep' /\ DebugInv'
    BY <1>1, <1>4, <1>5 DEF DeviceInv, GpuInv, InStep, DebugInv
  <2>5. QED
    BY <2>1, <2>3, <2>4 DEF DeviceInv
<1>6. CASE w # 0 /\ surface = 0 /\ phase' = "dead" /\ UNCHANGED <<chain, turn, targets, debugTargets>>
  <2>1. SizesInv'
    BY <1>1, <1>3, <1>6 DEF SizesInv
  <2>2. FitInv' /\ GpuInv' /\ InStep' /\ DebugInv'
    BY <1>1, <1>4, <1>6 DEF DeviceInv, FitInv, GpuInv, InStep, DebugInv
  <2>3. QED
    BY <2>1, <2>2 DEF DeviceInv
<1>7. CASE w # 0 /\ surface # 0 /\ ReplaceChain /\ RebuildTargets(w) /\ UNCHANGED phase
  <2>1. /\ chain'.size = surface /\ chain'.currentBuffer = 0 /\ turn' = 0
        /\ targets' = [live |-> TRUE, size |-> w] /\ ~debugTargets'.live
    BY <1>7 DEF ReplaceChain, RebuildTargets, NewChain, TypeOK
  <2>2. SizesInv'
    BY <1>1, <1>3, <2>1 DEF SizesInv
  <2>3. Fit' \/ \E i \in 1 .. Len(sizes') : sizes'[i] # 0
    <3>1. CASE sizes' = <<>>
      BY <1>3, <2>1, <3>1 DEF Fit
    <3>2. CASE sizes' # <<>>
      <4>1. Len(sizes') \in 1 .. Len(sizes')
        BY <1>2, <3>2, EmptySeq
      <4>2. QED
        BY <1>3, <1>7, <3>2, <4>1
    <3>3. QED
      BY <3>1, <3>2
  <2>4. FitInv'
    BY <1>1, <1>4, <1>7, <2>3 DEF FitInv
  <2>5. GpuInv' /\ InStep' /\ DebugInv'
    BY <1>1, <1>4, <1>7, <2>1 DEF DeviceInv, GpuInv, InStep, DebugInv
  <2>6. QED
    BY <2>2, <2>4, <2>5 DEF DeviceInv
<1>8. QED
  BY <1>5, <1>6, <1>7 DEF SizeCallback

(* The chain is replaced inside a frame because the surface has another    *)
(* size: then a size callback for that size is due.                        *)
LEMMA ResizeDevice ==
    ASSUME TypeOK, DeviceInv, Stale, NEW then \in {"record", "reset"}, DeviceResize(then)
    PROVE  DeviceInv'
<1>1. CASE Die
  BY <1>1
  DEF Die, DeviceInv, SizesInv, FitInv, GpuInv, InStep, DebugInv, HasImage, window, device
<1>2. CASE /\ surface # 0 /\ ReplaceChain
           /\ targets' = [targets EXCEPT !.live = FALSE]
           /\ ready' = "none" /\ gpu' = "idle" /\ phase' = then
           /\ UNCHANGED <<input, window>>
  <2>1. /\ chain'.size = surface /\ chain'.currentBuffer = 0 /\ turn' = 0
        /\ UNCHANGED <<surface, sizes>> /\ ~HasImage' /\ ~debugTargets'.live
    BY <1>2 DEF ReplaceChain, NewChain, window, HasImage, TypeOK
  <2>2. sizes # <<>> /\ Len(sizes) \in 1 .. Len(sizes) /\ sizes[Len(sizes)] # 0
    <3>1. sizes # <<>> /\ surface = sizes[Len(sizes)]
      BY <1>2 DEF DeviceInv, SizesInv, Stale
    <3>2. Len(sizes) \in Nat \ {0}
      BY <3>1, EmptySeq DEF TypeOK
    <3>3. QED
      BY <1>2, <3>1, <3>2
  <2>3. SizesInv'
    BY <2>1, <2>2 DEF DeviceInv, SizesInv
  <2>4. FitInv'
    BY <1>2, <2>1, <2>2 DEF FitInv
  <2>5. GpuInv' /\ InStep' /\ DebugInv'
    BY <1>2, <2>1 DEF GpuInv, InStep, DebugInv
  <2>6. QED
    BY <2>3, <2>4, <2>5 DEF DeviceInv
<1>3. QED
  BY <1>1, <1>2 DEF DeviceResize

(* Every step keeps the device invariant.                                  *)
LEMMA StepDevice == TypeOK /\ DeviceInv /\ [Next]_vars => DeviceInv'
<1> SUFFICES ASSUME TypeOK, DeviceInv, [Next]_vars PROVE DeviceInv'
  OBVIOUS
<1> USE DEF input, window, device
<1>1. CASE resetPressed \/ Scripts \/ Dispatch \/ EndDispatch \/ UNCHANGED vars
  BY <1>1
  DEF resetPressed, Scripts, Dispatch, EndDispatch, vars,
      DeviceInv, SizesInv, FitInv, Fit, GpuInv, InStep, DebugInv, HasImage
<1>2. ASSUME NEW e \in Events, InputCallback(e) PROVE DeviceInv'
  BY <1>2 DEF InputCallback, DeviceInv, SizesInv, FitInv, Fit, GpuInv, InStep, DebugInv, HasImage
<1>3. CASE EndPoll
  <2>1. Len(sizes) = 0
    BY <1>3, EmptySeq DEF EndPoll
  <2>2. Fit
    BY <1>3, <2>1 DEF EndPoll, DeviceInv, FitInv
  <2>3. QED
    BY <1>3, <2>2 DEF EndPoll, DeviceInv, SizesInv, FitInv, Fit, GpuInv, InStep, DebugInv, HasImage
<1>4. ASSUME NEW s \in Sizes \union {0}, UserResize(s) PROVE DeviceInv'
  BY <1>4, UserResizeDevice
<1>5. CASE SizeCallback
  BY <1>5, SizeCallbackDevice
<1>6. ASSUME NEW i \in Images, Acquire(i) PROVE DeviceInv'
  <2>1. /\ chain'.size = chain.size /\ chain'.currentBuffer = chain.currentBuffer
        /\ chain'.acquireImageIndex = i
        /\ UNCHANGED <<surface, sizes, targets, debugTargets, gpu>>
        /\ phase = "acquire" /\ phase' = "record" /\ ready' = "pending"
    BY <1>6 DEF Acquire, TypeOK
  <2>2. SizesInv' /\ FitInv' /\ GpuInv' /\ DebugInv'
    BY <2>1 DEF DeviceInv, SizesInv, FitInv, Fit, GpuInv, DebugInv, HasImage
  <2>3. InStep'
    <3>1. turn' # N => turn # N /\ i = turn /\ turn' = (i + 1) % N
      BY <1>6, FrameAssumption DEF Acquire, Images
    <3>2. QED
      BY <2>1, <3>1 DEF DeviceInv, InStep, HasImage
  <2>4. QED
    BY <2>2, <2>3 DEF DeviceInv
<1>7. CASE AcquireOutOfDate \/ PresentStale
  BY <1>7, ResizeDevice DEF AcquireOutOfDate, PresentStale
<1>8. CASE Record \/ Submit
  BY <1>8 DEF Record, Submit, DeviceInv, SizesInv, FitInv, Fit, GpuInv, InStep, DebugInv, HasImage
<1>9. CASE ImageReady \/ GpuRun
  BY <1>9 DEF ImageReady, GpuRun, TypeOK, DeviceInv, SizesInv, FitInv, Fit, GpuInv, InStep, DebugInv, HasImage
<1>10. CASE WaitForFence
  BY <1>10 DEF WaitForFence, DeviceInv, SizesInv, FitInv, Fit, GpuInv, InStep, DebugInv, HasImage
<1>11. CASE Present
  <2>1. /\ chain'.size = chain.size
        /\ chain'.currentBuffer = (chain.currentBuffer + 1) % N
        /\ UNCHANGED <<surface, sizes, targets, debugTargets, ready, turn>> /\ gpu' = "idle"
        /\ phase = "present" /\ phase' = "reset" /\ HasImage /\ ~HasImage'
    BY <1>11 DEF Present, Presented, TypeOK, HasImage
  <2>2. SizesInv' /\ FitInv' /\ GpuInv' /\ DebugInv'
    BY <2>1 DEF DeviceInv, SizesInv, FitInv, Fit, GpuInv, DebugInv
  <2>3. InStep'
    BY <2>1 DEF DeviceInv, InStep
  <2>4. QED
    BY <2>2, <2>3 DEF DeviceInv
<1>12. CASE Faults
  BY <1>12
  DEF Faults, AcquireFails, WaitTimeout, PresentFails, Die,
      DeviceInv, SizesInv, FitInv, GpuInv, InStep, DebugInv, HasImage
<1>13. QED
  BY <1>1, <1>2, <1>3, <1>4, <1>5, <1>6, <1>7, <1>8, <1>9, <1>10, <1>11, <1>12 DEF Next, Loop

(* So it always holds.                                                     *)
LEMMA AlwaysDevice == Spec => []DeviceInv
<1>1. Init => DeviceInv
  BY DEF Init, NewChain, DeviceInv, SizesInv, FitInv, Fit, GpuInv, InStep, DebugInv, HasImage
<1>2. QED
  BY <1>1, StepDevice, FrameTypes, PTL DEF Spec

(* A frame that has acquired an image draws on frame buffers that belong   *)
(* to the live chain and have its size, whatever the user does to the      *)
(* window's size meanwhile and wherever the chain was replaced; the debug  *)
(* renderer draws on such frame buffers, or on those of the first chain    *)
(* after it was replaced.                                                  *)
THEOREM FramesDrawOnLiveBuffers == Spec => []FrameBuffersFit
<1>1. TypeOK /\ DeviceInv => FrameBuffersFit
  BY DEF TypeOK, DeviceInv, FitInv, Fit, DebugInv, HasImage, FrameBuffersFit
<1>2. QED
  BY <1>1, FrameTypes, AlwaysDevice, PTL

(* The command pool is reset and a command buffer recorded only when the   *)
(* GPU is not running it.                                                  *)
THEOREM NoResetWhileRunning == Spec => []ResetWhenIdle
<1>1. DeviceInv => ResetWhenIdle
  BY DEF DeviceInv, GpuInv, ResetWhenIdle
<1>2. QED
  BY <1>1, AlwaysDevice, PTL

(* As long as the engine hands out the images of a chain in turn, the      *)
(* image that is queued is the one that was drawn on, although the code    *)
(* keeps two indices and replaces the chain in three places; and what is   *)
(* queued was always drawn on frame buffers of the live chain.             *)
THEOREM QueuesWhatWasDrawn == Spec => []PresentsWhatItDrew
<1>1. DeviceInv => PresentsWhatItDrew
  BY DEF DeviceInv, FitInv, Fit, InStep, HasImage, PresentsWhatItDrew
<1>2. QED
  BY <1>1, AlwaysDevice, PTL
=============================================================================
