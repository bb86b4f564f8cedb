---------------------------- MODULE ScriptReload ----------------------------
(***************************************************************************)
(* Recompiling the C# scripts while the editor runs: the frame loop of     *)
(* Application::start, the compile job of                                  *)
(* MonoVirtualMachine::compileAssembly on a pool thread, the two ways its  *)
(* result comes back (the RecompileScripts event and the completion        *)
(* callback), the script domain, the scenes and the scripts in them.       *)
(*                                                                         *)
(* The main thread runs one phase of the frame after another; a compile    *)
(* job interleaves with it anywhere.  The pool and the two queues are used *)
(* through what ThreadPool and EventDispatcher guarantee: a job runs once, *)
(* its completion is posted after it returned, and both queues are FIFO.   *)
(***************************************************************************)
EXTENDS Naturals, Sequences, Functions

CONSTANTS
    Names,          \* scene files the user can open; StartFile is default.scene
    StartFile,
    DefaultName,    \* name of the scene that apply() creates by itself
    MaxScenes,      \* bound: Scene objects ever constructed
    MaxCompiles     \* bound: compilations, the one of Editor::init included

ASSUME ReloadAssumption ==
    /\ StartFile \in Names /\ DefaultName \notin Names
    /\ MaxScenes \in Nat \ {0} /\ MaxCompiles \in Nat \ {0}

Compiles == 1 .. MaxCompiles        \* 1 is the compilation Editor::init starts
SceneIds == 1 .. MaxScenes
NoScene  == 0                       \* a null Scene*
NoScript == 0                       \* MonoScript without functions, or none at all
NoBuild  == 0                       \* no MapleAssembly.dll on disk
OldBuild == MaxCompiles + 1         \* the one an earlier session left there
Builds   == Compiles \union {NoBuild, OldBuild}

VARIABLES
    phase,          \* where the main thread is in the frame
    play,           \* EditorState::Play (TRUE) or Preview
    allScenes,      \* name -> Scene object, NoScene if absent
    currentScene,   \* the raw pointer
    currentName, switching,
    sceneCount,     \* Scene objects constructed so far
    script,         \* script[s] : domain the functions of s's script come from
    attached,       \* scenes that have a MonoComponent with a script
    domain,         \* the script domain: 0 when unloaded, else its number
    domainCount,
    library,        \* is MapleAssembly.dll among the loaded assemblies
    loadedBuild,    \* the build of it that is loaded
    dll,            \* the build on disk
    job,            \* job[k] : where the k-th compilation is
    eventScene,     \* eventScene[k] : RecompileScriptsEvent::scene
    eventQueue, executeQueue,
    dialog,         \* LoadingDialog::active
    early,          \* history: reload events dispatched before their callback ran
    overlapped,     \* history: two compilations were in flight at once
    moved           \* history: the current scene changed since Editor::init

sceneVars == <<allScenes, currentScene, currentName, switching, sceneCount, moved>>
vmVars    == <<domain, domainCount, library, loadedBuild>>
jobVars   == <<dll, job, eventScene>>
vars == <<phase, play, sceneVars, script, attached, vmVars, jobVars, eventQueue,
          executeQueue, dialog, early, overlapped>>

Live == {allScenes[n] : n \in DOMAIN allScenes} \ {NoScene}

InFlight == {k \in Compiles : job[k] \notin {"none", "reported"}}

(* Editor::init: default.scene is added and switched to if it exists; the  *)
(* first compilation starts, unloading what MonoSystem::onInit had loaded. *)
Init ==
    /\ phase = "apply" /\ play = FALSE
    /\ \E exists \in BOOLEAN :
         /\ allScenes = [n \in Names \union {DefaultName} |->
                            IF exists /\ n = StartFile THEN 1 ELSE NoScene]
         /\ switching = exists
         /\ currentName = IF exists THEN StartFile ELSE DefaultName
         /\ sceneCount = IF exists THEN 1 ELSE 0
    /\ currentScene = NoScene
    /\ script = [s \in SceneIds |-> NoScript] /\ attached = {}
    /\ domain = 0 /\ domainCount = 1 /\ library = FALSE /\ loadedBuild = NoBuild
    /\ dll \in {NoBuild, OldBuild}
    /\ job = [k \in Compiles |-> IF k = 1 THEN "compile" ELSE "none"]
    /\ eventScene = [k \in Compiles |-> NoScene]
    /\ eventQueue = <<>> /\ executeQueue = <<>>
    /\ dialog = FALSE
    /\ early = {} /\ overlapped = FALSE /\ moved = FALSE

-----------------------------------------------------------------------------
(* The compile job, on a pool thread.                                      *)

(* csc writes MapleAssembly.dll, or reports an error and leaves it alone.  *)
Compile(k) ==
    /\ job[k] = "compile"
    /\ job' = [job EXCEPT ![k] = "compiled"]
    /\ dll' \in {dll, k}
    /\ UNCHANGED <<phase, play, sceneVars, script, attached, vmVars, eventScene, eventQueue,
                   executeQueue, dialog, early, overlapped>>

(* event->scene = getCurrentScene(), unsynchronised with the main thread.  *)
ReadScene(k) ==
    /\ job[k] = "compiled"
    /\ job' = [job EXCEPT ![k] = "read"]
    /\ eventScene' = [eventScene EXCEPT ![k] = currentScene]
    /\ UNCHANGED <<phase, play, sceneVars, script, attached, vmVars, dll, eventQueue,
                   executeQueue, dialog, early, overlapped>>

PostReloadEvent(k) ==
    /\ job[k] = "read"
    /\ job' = [job EXCEPT ![k] = "eventPosted"]
    /\ eventQueue' = Append(eventQueue, k)
    /\ UNCHANGED <<phase, play, sceneVars, script, attached, vmVars, dll, eventScene,
                   executeQueue, dialog, early, overlapped>>

(* Mutant: one slot in place of the queue. *)
PostCallbackOverwrites(k) ==
    /\ job[k] = "eventPosted"
    /\ job' = [job EXCEPT ![k] = "posted"]
    /\ executeQueue' = <<k>>
    /\ UNCHANGED <<phase, play, sceneVars, script, attached, vmVars, dll, eventScene,
                   eventQueue, dialog, early, overlapped>>

(* The job returned; Thread::run posts its completion.                     *)
PostCallback(k) ==
    /\ job[k] = "eventPosted"
    /\ job' = [job EXCEPT ![k] = "posted"]
    /\ executeQueue' = Append(executeQueue, k)
    /\ UNCHANGED <<phase, play, sceneVars, script, attached, vmVars, dll, eventScene,
                   eventQueue, dialog, early, overlapped>>

-----------------------------------------------------------------------------
(* The frame.                                                              *)

(* Mutant: the lookup comes before the default scene is added. *)
ApplyLooksUpFirst ==
    /\ phase = "apply"
    /\ phase' = "execute"
    /\ IF ~switching /\ currentScene # NoScene
       THEN UNCHANGED <<sceneVars, script, attached>>
       ELSE LET create == ~switching /\ Live = {}
                s      == allScenes[currentName]
            IN  /\ create => sceneCount < MaxScenes
                /\ allScenes' = IF create THEN [allScenes EXCEPT ![DefaultName] = sceneCount + 1] ELSE allScenes
                /\ sceneCount' = IF create THEN sceneCount + 1 ELSE sceneCount
                /\ currentScene' = s
                /\ moved' = (moved \/ currentScene # NoScene)
                /\ switching' = FALSE
                /\ attached' = IF create THEN attached ELSE attached \ {s}
                /\ script' = IF create THEN script ELSE [script EXCEPT ![s] = NoScript]
                /\ currentName' = IF create THEN DefaultName ELSE currentName
    /\ UNCHANGED <<play, vmVars, jobVars, eventQueue, executeQueue, dialog, early, overlapped>>

(* SceneManager::apply: nothing to do, or make currentName current, first  *)
(* creating the default scene if there is none.  loadFrom clears the       *)
(* entities of a scene that has a file, and script components are not part *)
(* of the file.                                                            *)
Apply ==
    /\ phase = "apply"
    /\ phase' = "execute"
    /\ IF ~switching /\ currentScene # NoScene
       THEN UNCHANGED <<sceneVars, script, attached>>
       ELSE LET create == ~switching /\ Live = {}
                s      == IF create THEN sceneCount + 1 ELSE allScenes[currentName]
            IN  /\ create => sceneCount < MaxScenes
                /\ allScenes' = IF create THEN [allScenes EXCEPT ![DefaultName] = s] ELSE allScenes
                /\ sceneCount' = IF create THEN s ELSE sceneCount
                /\ currentScene' = s
                /\ moved' = (moved \/ currentScene # NoScene)
                /\ switching' = FALSE
                /\ attached' = IF create THEN attached ELSE attached \ {s}
                /\ script' = IF create THEN script ELSE [script EXCEPT ![s] = NoScript]
                /\ currentName' = IF create THEN DefaultName ELSE currentName
    /\ UNCHANGED <<play, vmVars, jobVars, eventQueue, executeQueue, dialog, early, overlapped>>

(* Mutant: the callback closes the dialog only. *)
RunCallbackWithoutLoad ==
    /\ phase = "execute" /\ executeQueue # <<>>
    /\ LET k == Head(executeQueue)
       IN  /\ job' = [job EXCEPT ![k] = "reported"]
           /\ dialog' = IF k = 1 THEN dialog ELSE FALSE
    /\ executeQueue' = Tail(executeQueue)
    /\ domain' = IF domain = 0 THEN domainCount + 1 ELSE domain
    /\ domainCount' = IF domain = 0 THEN domainCount + 1 ELSE domainCount
    /\ library' = library
    /\ loadedBuild' = loadedBuild
    /\ UNCHANGED <<phase, play, sceneVars, script, attached, dll, eventScene, eventQueue,
                   early, overlapped>>

(* The completion callback: MonoVirtualMachine::loadAssembly creates the   *)
(* script domain if there is none and loads the assembly unless it is      *)
(* loaded already or there is no file; the menu's callback also closes the dialog.             *)
RunCallback ==
    /\ phase = "execute" /\ executeQueue # <<>>
    /\ LET k == Head(executeQueue)
       IN  /\ job' = [job EXCEPT ![k] = "reported"]
           /\ dialog' = IF k = 1 THEN dialog ELSE FALSE
    /\ executeQueue' = Tail(executeQueue)
    /\ domain' = IF domain = 0 THEN domainCount + 1 ELSE domain
    /\ domainCount' = IF domain = 0 THEN domainCount + 1 ELSE domainCount
    /\ library' = (library \/ dll # NoBuild)
    /\ loadedBuild' = IF library THEN loadedBuild ELSE dll
    /\ UNCHANGED <<phase, play, sceneVars, script, attached, dll, eventScene, eventQueue,
                   early, overlapped>>

ExecuteDone ==
    /\ phase = "execute" /\ executeQueue = <<>>
    /\ phase' = "imgui"
    /\ UNCHANGED <<play, sceneVars, script, attached, vmVars, jobVars, eventQueue,
                   executeQueue, dialog, early, overlapped>>

(* MonoScript::loadFunction: findClass searches the loaded assemblies and, *)
(* when it finds nothing, leaves the old functions in place.               *)
LoadFunction(s) == IF library THEN [script EXCEPT ![s] = domain] ELSE script

(* The user attaches a script in the properties window; the modal dialog   *)
(* blocks all input while it is open.                                      *)
AttachScript ==
    /\ phase = "imgui" /\ ~dialog
    /\ currentScene \in Live \ attached
    /\ attached' = attached \union {currentScene}
    /\ script' = LoadFunction(currentScene)
    /\ UNCHANGED <<phase, play, sceneVars, vmVars, jobVars, eventQueue, executeQueue,
                   dialog, early, overlapped>>

(* Calling a function that was compiled into an unloaded domain is         *)
(* undefined: the program may go on or crash.                              *)
Stale(s) == s \in attached /\ script[s] \notin {NoScript, domain}

(* The play button: Stop, or Play, which starts the scripts of the scene.  *)
TogglePlay ==
    /\ phase = "imgui" /\ ~dialog
    /\ play' = ~play
    /\ \/ phase' = phase
       \/ ~play /\ (Stale(currentScene) \/ currentScene \notin Live) /\ phase' = "crashed"
    /\ UNCHANGED <<sceneVars, script, attached, vmVars, jobVars, eventQueue,
                   executeQueue, dialog, early, overlapped>>

(* Mutant: the dialog is not shown. *)
CompileWithoutDialog(k) ==
    /\ phase = "imgui" /\ ~dialog
    /\ job[k] = "none" /\ \A j \in 1 .. k - 1 : job[j] # "none"
    /\ dialog' = dialog
    /\ domain' = 0 /\ library' = FALSE
    /\ job' = [job EXCEPT ![k] = "compile"]
    /\ overlapped' = (overlapped \/ InFlight # {})
    /\ UNCHANGED <<phase, play, sceneVars, script, attached, domainCount, loadedBuild, dll,
                   eventScene, eventQueue, executeQueue, early>>

(* Mutant: the map of assemblies is not cleared. *)
CompileKeepsAssemblies(k) ==
    /\ phase = "imgui" /\ ~dialog
    /\ job[k] = "none" /\ \A j \in 1 .. k - 1 : job[j] # "none"
    /\ dialog' = TRUE
    /\ domain' = 0
    /\ job' = [job EXCEPT ![k] = "compile"]
    /\ overlapped' = (overlapped \/ InFlight # {})
    /\ UNCHANGED <<phase, play, sceneVars, script, attached, domainCount, library, loadedBuild, dll,
                   eventScene, eventQueue, executeQueue, early>>

(* "Compile C# Assembly": show the dialog, unload the script domain and    *)
(* every assembly but corlib at once, and queue the job.                   *)
CompileAssembly(k) ==
    /\ phase = "imgui" /\ ~dialog
    /\ job[k] = "none" /\ \A j \in 1 .. k - 1 : job[j] # "none"
    /\ dialog' = TRUE
    /\ domain' = 0 /\ library' = FALSE
    /\ job' = [job EXCEPT ![k] = "compile"]
    /\ overlapped' = (overlapped \/ InFlight # {})
    /\ UNCHANGED <<phase, play, sceneVars, script, attached, domainCount, loadedBuild, dll,
                   eventScene, eventQueue, executeQueue, early>>

(* Editor::openFile on a scene file: a new Scene object takes the place of *)
(* the one of that name, which is freed, and becomes current next frame.   *)
OpenScene(n) ==
    /\ phase = "imgui" /\ ~dialog /\ sceneCount < MaxScenes
    /\ sceneCount' = sceneCount + 1
    /\ allScenes' = [allScenes EXCEPT ![n] = sceneCount + 1]
    /\ currentName' = n /\ switching' = TRUE
    /\ UNCHANGED <<phase, play, currentScene, moved, script, attached, vmVars, jobVars,
                   eventQueue, executeQueue, dialog, early, overlapped>>

ImGuiDone ==
    /\ phase = "imgui"
    /\ phase' = "systems"
    /\ UNCHANGED <<play, sceneVars, script, attached, vmVars, jobVars, eventQueue,
                   executeQueue, dialog, early, overlapped>>

(* SystemManager::onUpdate reads the current scene, which must not have    *)
(* been freed; MonoSystem calls the update functions when playing.         *)
UpdateSystems ==
    /\ phase = "systems"
    /\ \/ currentScene \in Live /\ phase' = "dispatch"
       \/ currentScene \notin Live /\ phase' = "crashed"
       \/ play /\ Stale(currentScene) /\ phase' = "crashed"
    /\ UNCHANGED <<play, sceneVars, script, attached, vmVars, jobVars, eventQueue,
                   executeQueue, dialog, early, overlapped>>

(* Mutant: the handler does not look the functions up again. *)
DispatchWithoutReload ==
    /\ phase = "dispatch" /\ eventQueue # <<>>
    /\ LET k == Head(eventQueue)
           s == eventScene[k]
       IN  /\ script' = script
           /\ phase' = IF s \in Live THEN "dispatch" ELSE "crashed"
           /\ early' = IF job[k] = "reported" THEN early ELSE early \union {k}
    /\ eventQueue' = Tail(eventQueue)
    /\ UNCHANGED <<play, sceneVars, attached, vmVars, jobVars, executeQueue, dialog,
                   overlapped>>

(* The RecompileScripts handler of MonoSystem: reload the functions of all *)
(* scripts of the event's scene, a pointer the job read earlier.           *)
DispatchReload ==
    /\ phase = "dispatch" /\ eventQueue # <<>>
    /\ LET k == Head(eventQueue)
           s == eventScene[k]
       IN  /\ script' = IF s \in attached \intersect Live THEN LoadFunction(s) ELSE script
           /\ phase' = IF s \in Live THEN "dispatch" ELSE "crashed"
           /\ early' = IF job[k] = "reported" THEN early ELSE early \union {k}
    /\ eventQueue' = Tail(eventQueue)
    /\ UNCHANGED <<play, sceneVars, attached, vmVars, jobVars, executeQueue, dialog,
                   overlapped>>

DispatchDone ==
    /\ phase = "dispatch" /\ eventQueue = <<>>
    /\ phase' = "apply"
    /\ UNCHANGED <<play, sceneVars, script, attached, vmVars, jobVars, eventQueue,
                   executeQueue, dialog, early, overlapped>>

RunJob(k) == Compile(k) \/ ReadScene(k) \/ PostReloadEvent(k) \/ PostCallback(k)

Frame == Apply \/ RunCallback \/ ExecuteDone \/ ImGuiDone \/ UpdateSystems
            \/ DispatchReload \/ DispatchDone

User == AttachScript \/ TogglePlay \/ (\E k \in Compiles : CompileAssembly(k))
            \/ \E n \in Names : OpenScene(n)

Next == Frame \/ User \/ \E k \in Compiles : RunJob(k)

Spec == Init /\ [][Next]_vars

(* The frame loop never stops and pool threads are scheduled; the user     *)
(* does nothing in particular.                                             *)
FairSpec == Spec /\ WF_vars(Frame) /\ \A k \in Compiles : WF_vars(RunJob(k))

-----------------------------------------------------------------------------
(* Properties.                                                             *)

TypeOK ==
    /\ phase \in {"apply", "execute", "imgui", "systems", "dispatch", "crashed"}
    /\ play \in BOOLEAN /\ switching \in BOOLEAN /\ library \in BOOLEAN
    /\ dialog \in BOOLEAN /\ overlapped \in BOOLEAN /\ moved \in BOOLEAN
    /\ allScenes \in [Names \union {DefaultName} -> SceneIds \union {NoScene}]
    /\ currentScene \in SceneIds \union (IF phase = "apply" THEN {NoScene} ELSE {})
    /\ currentName \in Names \union {DefaultName}
    /\ sceneCount \in 0 .. MaxScenes
    /\ script \in [SceneIds -> Nat] /\ attached \subseteq SceneIds
    /\ domain \in Nat /\ domainCount \in Nat
    /\ loadedBuild \in Builds /\ dll \in Builds
    /\ job \in [Compiles -> {"none", "compile", "compiled", "read", "eventPosted", "posted",
                             "reported"}]
    /\ eventScene \in [Compiles -> SceneIds \union {NoScene}]
    /\ eventQueue \in Seq(Compiles) /\ executeQueue \in Seq(Compiles)
    /\ early \subseteq Compiles

(* Unloading happens when a compilation is asked for and loading when it   *)
(* is reported, on the same thread: once nothing is in flight the script   *)
(* assembly is loaded again, however compilations overlapped.              *)
LoadedWhenQuiet == InFlight = {} => domain # 0 /\ (dll # NoBuild => library)

(* The dialog is up exactly while a compilation the menu started has not   *)
(* reported, so it neither vanishes early nor stays for ever.              *)
DialogWhileCompiling == dialog <=> InFlight \ {1} # {}

(* Scripts run code of the loaded domain once nothing is in flight and no  *)
(* reload event waits, unless a reload event overtook its own callback (it *)
(* is posted first, and dispatched in a later phase of the frame than the  *)
(* callback) or the scene was changed in between.                          *)
FreshUnlessOvertaken ==
    phase # "crashed" /\ InFlight = {} /\ eventQueue = <<>> /\ early = {} /\ ~moved /\ ~switching =>
        \A s \in attached : library => script[s] = domain

(* The assembly that is loaded is the newest build, unless a compilation   *)
(* was started while another was in flight: loadAssembly does not load     *)
(* again what is loaded already.                                           *)
NewestBuildLoaded == InFlight = {} /\ ~overlapped => loadedBuild = dll

(* Every compilation is reported to the main thread and its reload event   *)
(* is dispatched, unless the frame loop crashed.                           *)
EveryCompileReported ==
    \A k \in Compiles :
        job[k] = "compile" ~> \/ phase = "crashed"
                              \/ /\ job[k] = "reported"
                                 /\ k \notin Range(eventQueue)

(* Scene/ReadMe.md on GetCurrentScene(): "the scene is not null".  The job *)
(* of compileAssembly uses what it returns.                                *)
CurrentSceneNotNull ==
    \A k \in Compiles : job[k] \in {"read", "eventPosted", "posted"} => eventScene[k] # NoScene
=============================================================================
