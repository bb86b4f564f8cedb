# MapleEngine: specification, model checking and proofs

This directory holds TLA+ modules for the parts of MapleEngine whose behaviour
depends on the order in which threads, frames, callbacks and user edits happen.
Paths below are relative to `src/Code/Maple/src` unless they start with `Editor/`
(`src/Code/Editor/src`).

## Inventory

| Component | State | Operations | What must hold |
|---|---|---|---|
| Thread pool (`Thread/ThreadPool.cpp`) | per thread: list of jobs, mutex, one condition variable, close flag | addTask, wait, waitAll, run, destructor | jobs run once and in order, no lost wake-up, wait is a barrier, shutdown drops nothing |
| Main-thread mailbox (`Application.cpp`) | `executeQueue` and its mutex | postOnMainThread, executeAll | completions delivered once, after their job, in order |
| Event dispatcher (`Event/`) | vector of handler pointers by priority, pending additions and removals, event queue | add, remove, post, dispatchEvents, destructors | no dead pointer followed, priorities respected, events in order, promises kept |
| Frame loop (`Application.cpp`) | phase of the frame | apply, executeAll, onImGui, systems, dispatchEvents, render | the order of these phases, which everything below relies on |
| Script virtual machine (`Scripts/Mono`) | script domain, assemblies, functions held by scripts | compile, unload, load, reload event | scripts use functions of the loaded domain; the newest build is loaded |
| Scenes (`Scene/SceneManager.cpp`, `Scene/Scene.cpp`) | scenes by name, current scene (raw pointer), switching flag, dirty flag, file path | addScene, switchScene, apply, saveTo, loadFrom | the current scene is alive and not null when used; a clean scene equals its file |
| Entities (`Scene/Component`, `Scene/Entity`, `SceneGraph.cpp`, `Editor/HierarchyWindow.cpp`) | registry, doubly linked child lists | create, setParent, reparent, drops, destroy | links agree, a forest, no child lost |
| Editor (`Editor/Editor.cpp`, windows) | play state, selection, clipboard, dialog, camera | menus, play buttons, openFile | dialog and selection agree with what they stand for |
| Lua scripts (`Scripts/Lua`) | table and functions per component | load, init, update; create, destroy and reparent entities | the tree and the selection bear what scripts do to entities |
| Serialization (`Others/Serialization.cpp`) | scene files | serialize, loadScene | the tree that is saved comes back |
| Input and window (`Devices`, `Window`) | pressed and held keys and buttons, scroll offset | GLFW callbacks, event handlers, resetPressed | a press is seen in one frame, held keys are those that are down |
| Render device (`Engine/Vulkan`, `Engine/Renderer/VkRenderDevice.cpp`, `ImGui/VkImGUIRenderer.cpp`) | swap chain, frames, fences, command buffers, frame buffers | begin, end, present, resize | no buffer recorded while in use, the queued image is the one drawn on, frame buffers of the live chain |
| 2D renderer, atlas (`Engine/Renderer/Renderer2D.cpp`, `Engine/TexturePool.cpp`, `Engine/TextureAtlas.cpp`, `Engine/QuadTree.h`) | batch, texture slots, shelves, tree of leftovers | submit, flush, present, addSprite, update, add, erase, findNode | limits of the batch, right texture slot, images do not overlap, no leftover lost |
| 3D and debug renderers, loaders, maths, terrain, ImGui glue | mostly none | recording of draw calls, parsing, arithmetic | - |

Interaction.  Background work starts in the editor (`compileAssembly`), runs on a
pool thread, and comes back along two paths: an event, posted by the job to the
dispatcher, and a completion, posted by `Thread::run` to the mailbox.  The main
thread empties the mailbox and then, later in the same frame, the event queue.
Scenes change only in `SceneManager::apply`, at the start of a frame, but scene
objects are freed in the middle of one.  What is hard here is the order of these
steps, the raw pointers that live across them (scenes, handlers, functions of an
unloaded domain), the one condition variable with two predicates, and long
sequences of tree edits.  `PROJECT.json` lists these hazards at their lines.

## Modules

| Module | Models |
|---|---|
| `ThreadPool` | `Thread`, `ThreadPool`, `postOnMainThread`, `executeAll` |
| `Executor` | what the pool promises: submit, execute once, complete, deliver in order |
| `EventDispatcher` | `EventDispatcher` and `EventHandler` |
| `ScriptReload` | frame loop, compile jobs, script domain, scenes and scripts together |
| `Hierarchy` | the entity tree and all edits of it |
| `Scenes` | the current scene over its file, the dirty flag, crashes, the editor's selection; uses `Hierarchy` |
| `Frame` | input, window callbacks, swap chain and frame buffers over one turn of the main loop |
| `Sprites` | texture pool, atlas packing, search tree of leftovers, batches of the 2D renderer |
| `MCThreadPool`, `MCEventDispatcher`, `MCScenes`, `MCSprites` | symmetry sets and constants for TLC |
| `ThreadPoolProofs` | theorems about `ThreadPool`, and that it implements `Executor` |
| `EventDispatcherProofs`, `ScriptReloadProofs`, `HierarchyProofs`, `ScenesProofs`, `FrameProofs`, `SpritesProofs` | theorems about the module of that name |
| `SequenceFacts` | lemmas that the proofs share: what `Append`, `Tail`, `RemoveAt`, `InsertAt` and `FlattenSeq` do to lists, and that a set of numbers has a least one |

Each module contains, before the definition it changes, the mutated forms that
the runs must be able to tell from the real one; each is marked "Mutant".

**ThreadPool.**  A critical section of a thread's mutex is one action.  A thread
blocked in `condition.wait` is a member of `condition[w]`; `notify_one` removes
any one member, and a spurious wake-up may do so too.  `Thread::run` is the six
`Worker` actions: block, leave, copy the front, run, post the completion, pop.
The front stays in the list while it runs, which is what `wait` relies on.  The
search for the least loaded thread is one action per thread (`Scan`), since the
mutex is released between reads.  `added`, `served`, `delivered` and `before` are
history.  Nobody calls a pool that is being destroyed.

**EventDispatcher.**  A handler is an address.  User code runs outside the dispatcher or
inside a callback and may create, add, remove and destroy handlers; any thread may post.
`dispatchEvents` is split where other threads or callbacks can interleave; the pending
removals and additions are taken one at a time, as its two loops do.  `std::upper_bound`
finds the one place behind every handler of the same or a higher priority and before all
others; on a vector that is not ordered there may be none, and the result is undefined:
any position.  `ReuseAddresses` says whether the allocator may hand out the address of a
destroyed handler that is still in the vector or pending; a running handler's callback
does not destroy that handler.

**ScriptReload.**  The main thread goes through the phases apply, execute, imgui,
systems, dispatch; user actions happen in imgui and, while the modal dialog is
open, not at all.  A compile job interleaves anywhere.  A domain is a number, 0
when unloaded; a script remembers the domain its functions come from; a build of
`MapleAssembly.dll` is the number of the compilation that wrote it.  A failed
compilation leaves the file alone.  Using a freed or null scene, or calling a
function of an unloaded domain, may crash (phase `crashed`, where the main thread
stops).  Pool and queues are used through the guarantees the first two modules
establish.  A script's class is taken to exist in every build.  Two jobs of csc
writing the file at the same time are taken as one after the other.

**Hierarchy.**  `node[e]` is the component (parent, first, next, prev), and
`onConstruct`, `onDestroy` and `reparent` are functions from one forest of links
to the next, as the code's signal handlers are.  What a loop or recursion along the
links visits (`getChildren`, `isParent`, the update of the transforms) is the
smallest set that has its start and that no step leaves (`Reach`); `onConstruct`
appends behind the one child in it without a next.  The Transform component is not
part of the state: the properties window and scripts add and remove it at any time and
independently of the tree, so `update(transform)`, the entities whose world matrix
`SceneGraph::update` sets, is a function of the set of entities that have one, and the
property is about every such set.  Handles of entt carry a version,
so they are never reused.  Two edits do not look at an entity's children: the drop
on the free area of the window and `Entity::destroy`; `LeafDrops` and
`LeafDestroys` say whether they are used on childless entities only.

**Scenes.**  The registry of the current scene is an instance of `Hierarchy`, whose
edits are wrapped by what the editor does around them: `Flagged` edits go through
`Scene` and set `dirty`, `Silent` ones go to the registry and do not.  The history
variable `silent` remembers the latter since the last save or load, so that the
property can say exactly when a clean scene may differ from its file.  A file is
missing, a snapshot (entities with their versions and links), or torn: `File`
empties it on opening and the process may end before `write` (`DieInSave`).
`loadFrom` reads into a cleared registry with `onConstruct` disconnected; a file
without a scene makes cereal throw, which ends the process, and `Start` is the
next one.  A scene that was never saved is written under its name, which the user
can edit: any file.  Opening the file of the current scene frees the scene the
rest of the frame still uses (`openFile` may end the process).  `Cut` is `Copy`:
`setCopiedEntity` does not store the flag.  `Script` is what a
Lua script may do to the registry (`Entity::destroy`, `setParent`,
`EntityManager::create`; Mono exports none of these).  It is enabled whenever the editor
runs: a script runs when its component is loaded and in every frame of Play, and the
pause button enters and leaves Play without any other effect, so there is no variable
for the play state.  The play button itself only deselects, because `cacheScene` and
`loadCachedScene` are empty: what scripts did in Play stays.  Opening a model makes one
entity (`openModel`), or one with an entity below it for each mesh (`openMeshes`, for
two meshes).

**Frame.**  The main thread goes through reset, scripts, poll, dispatch, acquire,
record, submit, wait, present.  Callbacks of GLFW happen in poll, events are handled
in dispatch.  The user resizes the window at any time, and the callback comes with
the next poll; in between the presentation engine may call the chain out of date or
suboptimal, or may not yet.  `VkRenderDevice::onResize` called from acquire or
present replaces the chain only, the size callback also the frame buffers.  Errors
that are thrown or asserted end the program (`Die`); this is the build with
assertions.  `targets` is one record for the frame buffers of ImGui and of the
render managers' renderers on the window, which `Application::onWindowResized` rebuilds
by the same call.  The debug renderer is not among them: `RenderManager::onResize` tells
it only when asked to (`debug`), which the scene window of the editor does and
`onWindowResized` does not.  In the editor it draws on the scene window's texture from
the first frame on; in the Game application it draws on the window in every frame, on
frame buffers (`debugTargets`) that stay with the first chain.  The engine hands out any
image (the chain asks for MAILBOX, then IMMEDIATE); `turn` is history and remembers
whether the images of the current chain have come in turn.  A chain has
at most three images, the size of the `frames` array.

**Sprites.**  An atlas has its shelf (`border`, `yRange`) and the search tree of
leftover rectangles, whose operations `add`, `erase`, `readd` and `findNode` are
functions on trees.  `findFrom` answers with the node it started from when nothing below
is large enough, and each caller looks at the answer again; here that answer is 0.
`update` is the packing; `TexturePool` fills its last atlas and starts a new one when an
image does not fit.  Images are assumed not to be larger than an atlas (the code does
not check the width of one that starts a shelf) and small enough for `int16_t`.
`renderScene` applies `submitQuad` to the commands of a frame in turn.  A draw call
keeps the textures it wrote, but all draw calls of a frame share one descriptor set,
updated while they are recorded and read when they run: `descriptorSet` is what a slot
then holds.  A pointer into the moved vector of atlases (`Lookup`) and an image in
memory that is looked for as a file (`AddDataToNew`) may end the program.

## Runs

| Run | Shows | Bounds |
|---|---|---|
| `pool_safety` | order of service, wake-ups, barrier, mailbox order, shutdown, refinement of `Executor` | 2 threads, 2 clients (one waits), 3 tasks, one of them without a job |
| `pool_live` | every task served, every completion called, every wait returns | the same with 2 tasks |
| `events_safety` | live pointers, no duplicates, priorities, order | 3 handlers, 2 priorities, 2 events, 4 edits |
| `events_live` | every event resolved | 2 handlers, 2 events, 3 edits |
| `events_reuse` | violation: priority order is lost when an address is reused | 2 addresses, 3 handlers |
| `reload` | what is loaded, shown and bound after compilations | 2 compilations, 2 scenes |
| `reload_null_scene` | violation: the first job may read a null scene | 1 compilation |
| `hierarchy` | links agree, whose matrix an update sets, moves append, deletions whole | 5 entities, any of them with a Transform |
| `hierarchy_orphans` | violation: children of an entity dropped on the free area are lost | 3 entities |
| `frame` | the input a frame sees, frame buffers and images over every replacement of the chain, reuse of command buffers, frames go on | 1 key, 1 button, 2 scroll offsets, 2 sizes and minimised, 3 images handed out in any order, 2 events a poll, 2 changes of size not yet polled |
| `scenes` | clean scene equals its file, trees survive files and crashes, when the selection dangles | 4 entities, 2 files, 3 edits, any number of saves, loads, crashes and starts |
| `sprites` | images apart, no leftover lost, every quad drawn, and with which texture | 8 by 10 atlas, 8 sizes, 6 images, smallest leftover 2, batches of 3 quads and 2 textures, frames of up to 5 quads |

Why the bounds are enough.  Two threads make the scan's stale minimum and the
loop of `waitAll` happen; two clients let an add race a wait; three tasks put two
jobs behind a running one.  Three handlers of two priorities give an insertion in
the middle and a removal in front of the loop index.  Two compilations, of which
the first (`Editor::init`) shows no dialog, are all that can be in flight at once,
because the dialog blocks the menu; two scene objects let the open scene be
replaced.  Five entities give lists with a first, a middle and a last child and
trees of depth three at the same time.

One key and one button suffice because `Input` treats them independently; two events
give press and release, release and press, press and repeat, or two turns of the wheel,
in one poll (the theorem is about any number). Two changes of size let the chain be
replaced twice before the callback, and three images are what the code asks for.  Four
entities are the camera and a model with two meshes, which one edit makes; two more
edits, of the user or of a script, take that tree apart, and entities are
interchangeable (symmetry).  The sizes of images make every branch of `Split` and of the
shelf happen, two atlases and more, and trees of leftovers with all four directions;
five quads overflow a batch of three and a table of two textures in every order.

Fairness.  Workers, callers inside the pool and compile jobs are OS threads and
are scheduled (weak fairness).  `Application::start` loops for ever and calls
`executeAll` and `dispatchEvents` in every frame; `executeAll` is reached whatever
else the frame calls, hence the strong fairness of `ExecuteBegin`.  The user and
the callers of the pool are never obliged to do anything.  Callbacks return.  In
`Frame` the main thread goes on, the engine gives an acquired image back and the
GPU runs what is submitted and ready; no fairness is asked of the faults, so that
`FramesGoOn` is about the loop.

Deadlock checking is on for `scenes`.  It is off elsewhere: a pool may be destroyed,
a program may end by an assertion, and all bounded inputs may be used up.

## What the runs found

- A new handler at the address of a destroyed one takes over its position in the
  vector, so a low priority handler can be called first (`events_reuse`).
- The compilation that `Editor::init` starts may read the current scene before
  there is one; the reload handler dereferences it (`reload_null_scene`).
- A drop on the free area of the hierarchy window loses the entity's children
  (`hierarchy_orphans`).
- `FreshUnlessOvertaken` and `NewestBuildLoaded` name exactly when they fail: a
  reload event that is dispatched before its own callback ran, a change of scene,
  or two compilations at once.
- With two threads in `wait()` on one `Thread`, one of them can sleep for ever;
  `NoLostWakeup` and the liveness of the pool assume one waiting client.
- After an acquire that is out of date the frame draws on frame buffers of the old
  chain and waits for a semaphore nobody signals, until the wait times out and its
  assertion ends the program; `FramesGoOn` and `PresentsWhatItDrew` name this case
  (`Doomed`) and show that there is no other.
- The code draws by `currentBuffer` and queues `acquireImageIndex` and never compares
  them, while the present modes it asks for do not promise images in turn.  Once one
  comes out of turn a frame may queue another image than it drew on;
  `PresentsWhatItDrew` shows that this is the only way.
- After the first resize of the Game application the debug renderer draws on frame
  buffers of a destroyed chain: no resize of the window rebuilds them
  (`FrameBuffersFit` excepts exactly these).
- `SceneGraph::update` starts only at roots with a Transform and hands a matrix only from
  a parent that has one.  An "Empty Entity" has none, so what is dropped below it keeps
  the matrix it had; `EveryChildUpdated` says so and shows that there is no other reason
  to be missed.
- In a frame of several draw calls the earlier ones sample the textures of the later
  ones: all write into one descriptor set before any of them runs.  `FrameDrawsAll`
  promises a quad its own texture only where no later call fills its slot with another.
- A script that destroys the selected entity leaves the selection dangling, as the
  deletion of something above it does (`SelectionDangles`).
- Scripts never see a pressed key or a scroll: they are reset before and dispatched
  after the systems run.  Only `Editor::onUpdate` and the renderers see them.
- A save after moving, deleting or adding children writes nothing, unless something
  else made the scene dirty; a scene read from a file is dirty at once.
- The search for a leftover may miss one that is large enough, because `readd` moves
  a child with everything below it (with seven images in a 13 by 14 atlas).  Space
  is wasted, nothing overlaps.
- A button other than the three known ones is posted as -1; a minimised window makes
  acquire or present ask for a chain that cannot be made.  Neither is guarded.

## Proofs

Every theorem holds for every value of the constants that the `ASSUME` of its
module allows; TLC evaluates these assumptions in every run.  Each inductive
invariant was checked with TLC before it was proved.  A proof of a step has one
case for each action.

**Pool** (`ThreadPoolProofs`; any number of threads, clients and tasks).

- `TypeCorrect`: `Spec => []TypeOK`.  `TypeOK` is not inductive: popping needs a
  list that is not empty.  The inductive invariant `Inv` adds `WorkerInv` (the
  worker's task is the front of its list until it is popped), `ClientInv` (who can
  be inside the pool while it is destroyed) and `CloseInv` (only a drained thread
  is closed).
- `FirstComeFirstServed`: `Spec => []ServedInOrder`, with `Inv` and two lemmas on
  moving a task from the unserved to the served part of the history.
- `ShutdownServesAll`: `Spec => []NothingDropped`, from `CloseInv` and the former.
- `WakeupsArrive`: if at most one client waits, `Spec => []NoLostWakeup`.  With one
  waiter the worker and the waiter are never asleep together on one thread (one
  predicate is false only when the other is true), so `notify_one` cannot choose
  wrongly.  This is where the assumption is needed.

**Pool against `Executor`** (`ThreadPoolProofs`).  The invariant `PoolInv` says that
no task is in two places (`OnceInv`), that a worker that has run its task holds the
last one served (`RunInv`), and that the mail, called or not, holds the completions
of exactly the tasks that were answered, in the order of service (`MailInv`).

- `MailInOrder`: `Spec => []CompletionsInOrder`, read off `MailInv` and
  `FirstComeFirstServed`.
- `WaitsAreBarriers`: `Spec => WaitIsBarrier`, an action property.  `WaitInv` says
  where a task that a caller waits for can be: in the list the caller is at, in a
  later one, or popped.  `waitAll` visits the threads in order, so a list it has
  passed may be filled again, but not with a task it waits for.  No assumption on
  the number of waiting clients: the barrier is safe where the wake-up is not.
- `PoolImplementsExecutor`: `Spec => PoolIsExecutor`.  Adding a task is `Submit`,
  running it `Execute`, posting `Complete`, `executeAll`'s calls deliver; every
  other step leaves the abstract state alone.

**Event dispatcher** (`EventDispatcherProofs`; any number of handlers, priorities,
events and edits from callbacks).  `DispatcherInv` has `LoopInv` (the loop variables
by `pc`), `SetInv` (the vector has no duplicates, nothing is pending both ways, and
`PointersAreLive`) and `SeenInv` (a handler the index has passed has
been shown an event it wants).  From it: `DispatcherTypes`, `NoDanglingHandlers`,
`HandlersOnce`, `DispatchedInOrder`, `NobodySkipped`.  The first five hold with
addresses used again or not.  `HandledStops` needs `~ReuseAddresses`: `OrderInv`
(the vector is sorted and the handlers were called in this order) is what a reused
address breaks (`events_reuse`).  That a sorted vector has an upper bound is shown
with the least index whose handler has a lower priority.

**Script reload** (`ScriptReloadProofs`; any number of compilations and scenes).
`Inv` has `SceneInv` (scripts and jobs that read a scene agree on the current one
until it changes), `QueueInv` (each completion is queued once, and an event is still
queued or came early), `MenuInv` (the dialog lets one compilation of the menu be in
flight), `LoadInv` (nothing is loaded while the only job has not reported) and
`FreshInv`.  From it: `ReloadTypes`, `LoadedAfterCompiling`, `DialogIsExact`,
`NewestUnlessOverlapped`, `ScriptsAreFresh`.

**Frame** (`FrameProofs`; any keys, buttons, sizes and number of events).  `InputInv`
says that the queue is the part of the poll that was not dispatched, that `pressed` and
`scroll` are what the dispatched part amounts to, and that the rest of the queue will
make `held` the same as `down`: `FramesSeeTheirInput`.  `DeviceInv` says that the last
pending size is the surface's, that frame buffers which do not fit are due to be rebuilt
before the next frame draws, that the GPU works only while the main thread waits for it,
that the debug renderer's frame buffers fit while they are of the live chain, and that,
as long as no image of the chain came out of turn (`turn`), the engine's next image and
the chain's two indices keep in step by phase: `FramesDrawOnLiveBuffers`,
`NoResetWhileRunning` and `QueuesWhatWasDrawn`.  `FrameTypes` is the type invariant.

**Hierarchy** (`HierarchyProofs`; any number of entities).  All five theorems assume
`LeafDrops` and `LeafDestroys`: with either edit used on an entity that has children
the properties fail (`hierarchy_orphans` for `EveryChildUpdated`; TLC finds the same
of `TypeOK`, when a list that still names a removed entity is written through).
`LinksAgree` is not inductive: an entity that is appended below one of its own
descendants, or behind itself, would satisfy it.  `TreeInv` adds that the links end.
This is said without counting: every non-empty set of entities has a member whose
parent, next or previous one is outside the set (`Grounded`).  From it, the list of an
entity holds exactly those that name it as their parent (`ListHolds`), and no link
names an entity without a component (`NoStrayLink`).  An edit is proved in the two halves
the code has: `Cut`, what `onDestroy` leaves (`OnDestroyLinks`, `CutKeepsTree`), and
`Appended`, what `onConstruct` adds (`OnConstructAppends`, `AppendKeepsTree`, which
needs that the new parent is not below the entity); a deletion removes a whole family
(`PruneKeepsTree`).

- `HierarchyTypes` and `LinksAlwaysAgree`: `TypeOK` and `LinksAgree`, parts of
  `TreeInv`.
- `UpdateReachesAll`: `EveryChildUpdated`, for any set of entities with a Transform.
  Every entity is in the subtree of some root (`TreeReached`: a set of entities that are
  in none has a member whose parent is in one, and the parent's list holds it), and that
  root is the only one above it (`OneRoot`).
- `MovesAppend` and `DeletionsAreAlwaysWhole`: the action properties `MoveAppends` and
  `DeletionsAreWhole`, from what the two halves do to every list of siblings.

**Scenes** (`ScenesProofs`; any number of entities, files, edits and crashes).

- `CleanScenesAreSaved`: `DirtyTracksFile` with the types of the files and paths is
  inductive.
- `TreesStayIntact`: `TreesIntact`.  The registry's steps are those of `Hierarchy`
  (`SameSteps`), whose proofs are used through an instance; `GoodFile` says of every
  file with a scene what `TreeInv` says of the registry, so a load needs no repair.
- `SelectionDanglesOnly`: the action property `SelectionDangles`: whatever a deletion
  takes besides the entity itself is below it, and a script takes one entity.

The last two assume `LeafDrops` and `LeafDestroys` as above.

**Sprites** (`SpritesProofs`; atlases and `MINLOSIZE` of any size, and images that are
not larger than the atlas: `SpritesAssumption`, which the code does not check).
`PackedImagesApart`: `Spec => []ImagesApart`.  `ImagesApart` is not inductive: where
the next image goes depends on the shelf and on the tree.  `AtlasOK` says that the
shelf ends in the atlas, that every image and leftover is above the free part (above
the shelf, or in it and left of its end), and that leftovers are apart from images
and from each other; `QuadsOK` says the same of the images of full atlases.  About
the tree the proof needs only which rectangles it holds: `add` adds one, `erase`
takes one out and `readd` keeps all, wherever they hang (`AddFacts`, `EraseFacts`,
`ReaddFacts`), and the last check of `findNode` (`FindFacts`).  A lemma for each
branch of `update` follows: `NewShelfOK`, `AppendOK`, `SplitOK`, `ReuseOK`.

`LeftoversStayReachable`: `Spec => []NoLeftoverLost`.  While `erase` works, up to four
subtrees hang nowhere.  `Woods` says of such a forest that parents and children agree,
that no child hangs twice and that both kinds of links end; `Loose` are the roots
besides the root, and `Below` separates what is under one of them from the rest.
`CutWoods` takes a node out and leaves its children loose, apart from each other;
`HungKeepsWoods` hangs one loose subtree under a node outside it and leaves the others
loose.  Where it is hung is the end of the walk of `addOrNext`, a recursive function:
that it exists, and ends at a node with room, follows from the links' ending
(`DescentExists`, `RoomFacts`).  Between operations nothing is loose (`Linked`).

`FramesDrawAll`: `Spec => []FrameDrawsAll`, from the lemma `SceneOK`, which is about
every list of commands and not only those the property asks for.  `RunOK` says of the
state after some commands that the batches drawn and the current one keep the limits
and the slots, and that their quads, one batch after the other, are those commands.
`Settled`, that a batch with a texture has a quad, is what makes no draw call empty:
it fails inside `submitQuad` and holds again at its end.  The states exist for every
length, and all of them are good, because a first one that were not would have one
before it (`SceneStates`, `LeastNumber`).  Which texture a quad is drawn with follows
from the last draw call that fills its slot (`SampleOK`).

Model-checked only: liveness (`pool_live`, `events_live`, `EveryCompileReported` and
`FramesGoOn`) and anything else under fairness, which the prover does not handle.  All
other properties of the passing runs are theorems.  Their induction over numbers,
lists and trees is carried by sets: a set of numbers has a least member, and a set of
nodes has one whose link leaves it.

## Not modelled

Draw-call recording, shaders, loaders, floating-point geometry, matrices, terrain
simplification, ImGui layout, the Mono and Lua binding wrappers, logging and
profiling: numeric, I/O or third-party work without control state of the engine's
own.  Most of the repository by far is vendored code under `Code/Maple/lib` (Tracy,
Vulkan headers, ImGui, SPIRV-Cross, GLM, cereal and others): it is not part of this
system, and the share of the repository's lines the models stand for is small for
that reason.
