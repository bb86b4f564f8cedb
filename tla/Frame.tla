-------------------------------- MODULE Frame --------------------------------
(***************************************************************************)
(* One turn of Application::start's loop: Input (Devices/Input.cpp), the   *)
(* callbacks of WindowWin, VkRenderDevice, VulkanSwapChain and the frame   *)
(* buffers of ImGui and of the renderers that draw on the window, the      *)
(* debug renderer among them.                                              *)
(*                                                                         *)
(* Four parties act: the main thread, the user (keys, window size), the    *)
(* GPU, and the presentation engine.  The last three are external.  The    *)
(* build is the one with assertions: VK_CHECK_RESULT ends the program.     *)
(*                                                                         *)
(* What the scripts, the mailbox, the event dispatcher and the scenes do   *)
(* in their part of the frame is in the modules of their own.              *)
(***************************************************************************)
EXTENDS Naturals, Sequences

CONSTANTS
    Keys,           \* keyboard keys (KeyCode::Id)
    Buttons,        \* mouse buttons (KeyCode::MouseKey)
    Scrolls,        \* scroll offsets the wheel reports
    Sizes,          \* window sizes, without the minimised one
    N,              \* images, and frames, of a swap chain
    MaxEvents,      \* bound: input events of one poll
    MaxPending      \* bound: size changes not yet polled

ASSUME FrameAssumption ==
    /\ Keys \intersect Buttons = {}
    /\ Scrolls \subseteq Nat \ {0} /\ Sizes \subseteq Nat \ {0} /\ Sizes # {}
    /\ N \in 1 .. 3
    /\ MaxEvents \in Nat /\ MaxPending \in Nat

VARIABLES
    phase,          \* where the main thread is in the loop
    queue,          \* input events posted and not yet dispatched
    pressed,        \* keyPressed and mouseClicked
    held,           \* keyHeld and mouseHeld
    scroll,         \* scrollOffset
    down,           \* keys and buttons that are physically down
    polled,         \* input events of the last poll (history)
    surface,        \* size of the window's surface, 0 when minimised
    sizes,          \* size changes for which the callback is still to come
    chain,          \* the swap chain
    targets,        \* frame buffers of the window: of the live chain?, their size
    debugTargets,   \* those of the debug renderer
    turn,           \* image whose turn it is, N once one came out of turn (history)
    ready,          \* the current frame's presentSemaphore
    gpu             \* the current frame's command buffer

input  == <<queue, pressed, held, scroll, down, polled>>
window == <<surface, sizes>>
device == <<chain, targets, debugTargets, turn, ready, gpu>>
vars   == <<phase, input, window, device>>

Inputs == Keys \union Buttons
Images == 0 .. N - 1
Events == [kind : {"press", "release"}, of : Inputs]
              \union [kind : {"repeat"}, of : Keys]
              \union [kind : {"scroll"}, of : Scrolls]

(* A swap chain as VulkanSwapChain::init leaves it.  Its extent is the     *)
(* surface's; VkRenderDevice keeps the same size.                          *)
NewChain(s) == [size |-> s, currentBuffer |-> 0, acquireImageIndex |-> 0]

Init ==
    /\ phase = "reset"
    /\ queue = <<>> /\ pressed = {} /\ held = {} /\ scroll = 0
    /\ down = {} /\ polled = <<>>
    /\ surface \in Sizes /\ sizes = <<>>
    /\ chain = NewChain(surface)
    /\ targets = [live |-> TRUE, size |-> surface] /\ debugTargets = targets
    /\ turn = 0 /\ ready = "none" /\ gpu = "idle"

(* An exception nobody catches, or a failed assertion.                     *)
Die == phase' = "dead" /\ UNCHANGED <<input, window, device>>

-----------------------------------------------------------------------------
(* Input.                                                                  *)

(* Mutant: the clicks and the scroll offset are not reset. *)
resetPressedKeysOnly ==
    /\ phase = "reset" /\ phase' = "scripts"
    /\ pressed' = pressed \ Keys /\ polled' = <<>>
    /\ UNCHANGED <<queue, held, scroll, down, window, device>>

(* Input::resetPressed, at the start of a frame.                           *)
resetPressed ==
    /\ phase = "reset" /\ phase' = "scripts"
    /\ pressed' = {} /\ scroll' = 0 /\ polled' = <<>>
    /\ UNCHANGED <<queue, held, down, window, device>>

(* SceneManager::apply, executeAll, onImGui and the systems, scripts       *)
(* included: they may read the input and change nothing of it.             *)
Scripts ==
    /\ phase = "scripts" /\ phase' = "poll"
    /\ UNCHANGED <<input, window, device>>

Post(e) == queue' = Append(queue, e) /\ polled' = Append(polled, e)

(* The key, button and scroll callbacks, called by glfwPollEvents.         *)
InputCallback(e) ==
    /\ phase = "poll" /\ Len(polled) < MaxEvents
    /\ \/ e.kind = "press"   /\ e.of \notin down /\ down' = down \union {e.of}
       \/ e.kind = "release" /\ e.of \in down    /\ down' = down \ {e.of}
       \/ e.kind = "repeat"  /\ e.of \in down    /\ down' = down
       \/ e.kind = "scroll"                      /\ down' = down
    /\ Post(e)
    /\ UNCHANGED <<phase, pressed, held, scroll, window, device>>

(* glfwPollEvents returns when the callbacks of all changes were called.   *)
EndPoll ==
    /\ phase = "poll" /\ sizes = <<>>
    /\ phase' = "dispatch"
    /\ UNCHANGED <<input, window, device>>

(* Input's handlers: onKeyPressed, onMousePressed, onKeyReleased,          *)
(* onMouseReleased, onMouseScrolled.  A repeated press is not a press.     *)
Handle(e) ==
    /\ pressed' = CASE e.kind = "press"               -> pressed \union {e.of}
                    [] e.kind \in {"release", "repeat"} -> pressed \ {e.of}
                    [] OTHER                           -> pressed
    /\ held' = CASE e.kind \in {"press", "repeat"} -> held \union {e.of}
                 [] e.kind = "release"             -> held \ {e.of}
                 [] OTHER                          -> held
    /\ scroll' = IF e.kind = "scroll" THEN e.of ELSE scroll

(* Mutant: the event stays in the queue. *)
DispatchPeeks ==
    /\ phase = "dispatch" /\ queue # <<>>
    /\ Handle(Head(queue))
    /\ UNCHANGED <<phase, queue, down, polled, window, device>>

(* EventDispatcher::dispatchEvents, until the queue is empty.              *)
Dispatch ==
    /\ phase = "dispatch" /\ queue # <<>>
    /\ Handle(Head(queue))
    /\ queue' = Tail(queue)
    /\ UNCHANGED <<phase, down, polled, window, device>>

(* Editor::onUpdate's own part reads the input here.                       *)
EndDispatch ==
    /\ phase = "dispatch" /\ queue = <<>>
    /\ phase' = "acquire"
    /\ UNCHANGED <<input, window, device>>

-----------------------------------------------------------------------------
(* Resizing.                                                               *)

(* The user, or the system, resizes the window.                            *)
UserResize(s) ==
    /\ phase \notin {"poll", "dead"} /\ s # surface /\ Len(sizes) < MaxPending
    /\ surface' = s /\ sizes' = Append(sizes, s)
    /\ UNCHANGED <<phase, input, device>>

(* Mutant: the new chain goes on counting where the old one was. *)
ReplaceChainKeepsIndex ==
    /\ chain' = [NewChain(surface) EXCEPT !.currentBuffer = chain.currentBuffer]
    /\ debugTargets' = [debugTargets EXCEPT !.live = FALSE]
    /\ turn' = 0

(* VulkanContext::resize.  The debug renderer's frame buffers stay with    *)
(* the old chain: RenderManager::onResize rebuilds them for the scene      *)
(* window of the editor alone, which has given them a texture to draw on   *)
(* before the first frame (there these are not used; in the Game they are  *)
(* drawn on every frame).                                                  *)
ReplaceChain ==
    /\ chain' = NewChain(surface)
    /\ debugTargets' = [debugTargets EXCEPT !.live = FALSE]
    /\ turn' = 0

(* VkRenderDevice::onResize called from acquireNextImage or present: the   *)
(* old chain is still referenced by the caller while the new one is made,  *)
(* so making it may fail, and fails when the surface is minimised.  All    *)
(* other frame buffers stay with the old chain as well.                    *)
DeviceResize(then) ==
    \/ Die
    \/ /\ surface # 0
       /\ ReplaceChain
       /\ targets' = [targets EXCEPT !.live = FALSE]
       /\ ready' = "none" /\ gpu' = "idle"
       /\ phase' = then
       /\ UNCHANGED <<input, window>>

(* Mutant: the renderers and ImGui are not told. *)
RebuildNothing(w) == targets' = [live |-> FALSE, size |-> w]

(* ImGui and the render managers' renderers make their frame buffers anew; *)
(* the debug renderer, which is none of these, is not told.                *)
RebuildTargets(w) == targets' = [live |-> TRUE, size |-> w]

(* The window-size callback: Application::onWindowResized.  Nobody else    *)
(* holds the old chain, so the new one can be made, unless the window was  *)
(* minimised since.                                                        *)
SizeCallback ==
    /\ phase = "poll" /\ sizes # <<>>
    /\ LET w == Head(sizes)
       IN  \/ /\ w = 0
              /\ UNCHANGED <<phase, chain, turn, targets, debugTargets>>
           \/ /\ w # 0 /\ surface = 0
              /\ phase' = "dead"
              /\ UNCHANGED <<chain, turn, targets, debugTargets>>
           \/ /\ w # 0 /\ surface # 0
              /\ ReplaceChain
              /\ RebuildTargets(w)
              /\ UNCHANGED phase
    /\ sizes' = Tail(sizes)
    /\ UNCHANGED <<input, surface, ready, gpu>>

-----------------------------------------------------------------------------
(* Drawing.                                                                *)

(* The engine may call the chain out of date, or suboptimal, once the      *)
(* surface has another size.                                               *)
Stale == chain.size # surface

(* VkRenderDevice::acquireNextImage, with an image: the engine will signal *)
(* the presentSemaphore of the current frame.  The chain asks for MAILBOX  *)
(* or IMMEDIATE, and the engine may hand out any of its images.            *)
Acquire(i) ==
    /\ phase = "acquire"
    /\ chain' = [chain EXCEPT !.acquireImageIndex = i]
    /\ turn' = IF i = turn THEN (i + 1) % N ELSE N
    /\ ready' = "pending"
    /\ phase' = "record"
    /\ UNCHANGED <<input, window, targets, debugTargets, gpu>>

(* Out of date: the chain is replaced, and no image is acquired from the   *)
(* new one.                                                                *)
AcquireOutOfDate == phase = "acquire" /\ Stale /\ DeviceResize("record")

(* Any other result throws.                                                *)
AcquireFails == phase = "acquire" /\ Die

(* beginRecording, the renderers, ImGui, and VkRenderDevice::end: the      *)
(* current frame's commands draw on frameBuffers[currentBuffer].           *)
Record ==
    /\ phase = "record" /\ phase' = "submit"
    /\ gpu' = "recorded"
    /\ UNCHANGED <<input, window, chain, targets, debugTargets, turn, ready>>

(* VulkanSwapChain::present: reset the fence and submit.                   *)
Submit ==
    /\ phase = "submit" /\ phase' = "wait"
    /\ gpu' = "submitted"
    /\ UNCHANGED <<input, window, chain, targets, debugTargets, turn, ready>>

(* The engine has finished with the image.                                 *)
ImageReady ==
    /\ phase # "dead" /\ ready = "pending" /\ ready' = "signalled"
    /\ UNCHANGED <<phase, input, window, chain, targets, debugTargets, turn, gpu>>

(* The GPU runs the commands once the semaphore is signalled, and signals  *)
(* renderSemaphore and renderFence.                                        *)
GpuRun ==
    /\ phase # "dead" /\ gpu = "submitted" /\ ready = "signalled"
    /\ gpu' = "done" /\ ready' = "none"
    /\ UNCHANGED <<phase, input, window, chain, targets, debugTargets, turn>>

(* Mutant: the fence is not waited for. *)
WaitForNobody ==
    /\ phase = "wait" /\ phase' = "present"
    /\ UNCHANGED <<input, window, device>>

WaitForFence ==
    /\ phase = "wait" /\ gpu = "done"
    /\ phase' = "present"
    /\ UNCHANGED <<input, window, device>>

(* The wait ends after UINT32_MAX nanoseconds; its result is asserted.     *)
WaitTimeout == phase = "wait" /\ gpu # "done" /\ Die

(* Mutant: the frame counter does not wrap. *)
PresentedOnce == [chain EXCEPT !.currentBuffer = @ + 1]

(* Reset the command pool, queue the image, move on to the next frame.     *)
Presented == [chain EXCEPT !.currentBuffer = (@ + 1) % N]

Present ==
    /\ phase = "present" /\ phase' = "reset"
    /\ chain' = Presented /\ gpu' = "idle"
    /\ UNCHANGED <<input, window, targets, debugTargets, turn, ready>>

(* Out of date or suboptimal: the frame counter moves, and the chain with  *)
(* it is replaced.                                                         *)
PresentStale == phase = "present" /\ Stale /\ DeviceResize("reset")

(* Any other result is asserted.                                           *)
PresentFails == phase = "present" /\ Die

-----------------------------------------------------------------------------
Loop ==
    \/ resetPressed \/ Scripts \/ EndPoll \/ Dispatch \/ EndDispatch
    \/ SizeCallback
    \/ (\E i \in Images : Acquire(i)) \/ AcquireOutOfDate
    \/ Record \/ Submit \/ WaitForFence
    \/ Present \/ PresentStale

Faults == AcquireFails \/ WaitTimeout \/ PresentFails

Next ==
    \/ Loop \/ Faults
    \/ \E e \in Events : InputCallback(e)
    \/ \E s \in Sizes \union {0} : UserResize(s)
    \/ ImageReady \/ GpuRun

(* The main thread runs, the engine gives images back and the GPU runs     *)
(* what it can; the user owes nothing.                                     *)
Fairness == WF_vars(Loop) /\ WF_vars(ImageReady) /\ WF_vars(GpuRun)

Spec == Init /\ [][Next]_vars /\ Fairness

-----------------------------------------------------------------------------
(* Properties.                                                             *)

TypeOK ==
    /\ phase \in {"reset", "scripts", "poll", "dispatch", "acquire", "record",
                  "submit", "wait", "present", "dead"}
    /\ queue \in Seq(Events) /\ polled \in Seq(Events)
    /\ pressed \subseteq Inputs /\ held \subseteq Inputs /\ down \subseteq Inputs
    /\ scroll \in Scrolls \union {0}
    /\ surface \in Sizes \union {0} /\ sizes \in Seq(Sizes \union {0})
    /\ chain \in [size : Sizes, currentBuffer : Images, acquireImageIndex : Images]
    /\ targets \in [live : BOOLEAN, size : Sizes]
    /\ debugTargets \in [live : BOOLEAN, size : Sizes]
    /\ turn \in 0 .. N
    /\ ready \in {"none", "pending", "signalled"}
    /\ gpu \in {"idle", "recorded", "submitted", "done"}

(* An event about key or button x, and the last one of such events.        *)
About(e, x)        == e.kind # "scroll" /\ e.of = x
LastAbout(s, i, x) == About(s[i], x) /\ \A j \in DOMAIN s : j > i => ~About(s[j], x)
LastScroll(s, i)   == s[i].kind = "scroll" /\ \A j \in DOMAIN s : j > i => s[j].kind # "scroll"

(* What the frame sees of the input.  Scripts never see a press: it is     *)
(* reset before they run and dispatched after.  Whoever reads the input    *)
(* after the dispatch sees exactly the keys that are down as held, and as  *)
(* pressed those whose last event of this poll is a press: a press         *)
(* followed by a release or a repeat in one poll is not seen, and none is  *)
(* seen in two frames.  Of several turns of the wheel the last one counts. *)
InputSeen ==
    /\ phase \in {"scripts", "poll"} => pressed = {} /\ scroll = 0
    /\ phase \in {"acquire", "record", "submit", "wait", "present"} =>
          /\ held = down
          /\ pressed = {x \in Inputs : \E i \in DOMAIN polled :
                           polled[i].kind = "press" /\ LastAbout(polled, i, x)}
          /\ \/ scroll = 0 /\ \A i \in DOMAIN polled : polled[i].kind # "scroll"
             \/ \E i \in DOMAIN polled : LastScroll(polled, i) /\ scroll = polled[i].of

(* A frame that has acquired an image draws on frame buffers of the live   *)
(* chain, made with its size, although an out-of-date present replaces     *)
(* the chain alone: the size callback that rebuilds the frame buffers      *)
(* comes with the next poll, before anything is drawn.  The debug          *)
(* renderer's fit as long as they are of the live chain, which is until it *)
(* is replaced for the first time: no resize rebuilds them.                *)
FrameBuffersFit ==
    phase = "record" /\ ready # "none" =>
        /\ targets = [live |-> TRUE, size |-> chain.size]
        /\ debugTargets.live => debugTargets = targets

(* The image that is queued is the one the frame drew on, as long as the   *)
(* engine has handed out the images of the chain in turn: the drawing goes *)
(* by currentBuffer and the engine by acquireImageIndex, and the two keep  *)
(* in step over every replacement of the chain.  The code relies on it     *)
(* although the modes it asks for do not promise it.  A frame whose        *)
(* acquire was out of date is not queued.                                  *)
PresentsWhatItDrew ==
    phase = "present" =>
        /\ targets.live
        /\ turn # N => chain.currentBuffer = chain.acquireImageIndex

(* The command pool is reset, and a command buffer recorded, only when the *)
(* GPU does not run it.                                                    *)
ResetWhenIdle == phase \in {"record", "present"} => gpu # "submitted"

(* After an out-of-date acquire the commands wait for a semaphore that     *)
(* nobody will signal.                                                     *)
Doomed == phase = "wait" /\ gpu = "submitted" /\ ready = "none"

(* Every frame comes to its end, unless an error ends the program or the   *)
(* acquire was out of date.                                                *)
FramesGoOn == []<>(phase = "reset" \/ phase = "dead" \/ Doomed)
=============================================================================
