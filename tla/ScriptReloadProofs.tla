------------------------- MODULE ScriptReloadProofs -------------------------
(***************************************************************************)
(* What holds of the recompilation of scripts for every number of          *)
(* compilations, scenes and scene files.                                   *)
(***************************************************************************)
EXTENDS ScriptReload, SequenceFacts

(* The scene that is to become current exists; before the first one is     *)
(* current nothing is attached, and what is attached or was read by a job  *)
(* before the scene changed belongs to that scene.                         *)
SceneInv ==
    /\ switching => allScenes[currentName] # NoScene
    /\ currentScene = NoScene => attached = {} /\ (switching \/ Live = {})
    /\ ~moved => attached \subseteq {currentScene}
    /\ ~moved => \A k \in Compiles : eventScene[k] \in {NoScene, currentScene}

(* executeQueue holds jobs whose completion was posted, each once; a job   *)
(* past its event has it still in the queue, or the event came early.      *)
QueueInv ==
    /\ IsInjective(executeQueue)
    /\ \A k \in Range(executeQueue) : job[k] = "posted"
    /\ early = {} => \A k \in Compiles :
                        job[k] \in {"eventPosted", "posted"} => k \in Range(eventQueue)

(* The dialog lets the menu start one compilation at a time.               *)
MenuInv ==
    /\ job[1] # "none"
    /\ \A j, k \in InFlight \ {1} : j = k
    /\ DialogWhileCompiling

(* Without overlap nothing is loaded until the one job has reported.       *)
LoadInv ==
    /\ library => domain # 0
    /\ LoadedWhenQuiet
    /\ ~overlapped => /\ \A j, k \in InFlight : j = k
                      /\ InFlight # {} => ~library
    /\ NewestBuildLoaded

(* With a loaded assembly and no event to come, scripts are of the domain. *)
FreshInv ==
    phase # "crashed" /\ eventQueue = <<>> /\ early = {} /\ ~moved /\ ~switching /\ library =>
        \A s \in attached : script[s] = domain

Inv == TypeOK /\ SceneInv /\ QueueInv /\ MenuInv /\ LoadInv /\ FreshInv

-----------------------------------------------------------------------------
(* Types.                                                                  *)

(* What a step does to the state of jobs, queues and scripts that is not a *)
(* step of the actions named.                                              *)
LEMMA LiveScenes ==
    ASSUME TypeOK
    PROVE  /\ Live \subseteq SceneIds
           /\ \A n \in Names \union {DefaultName} : allScenes[n] # NoScene => allScenes[n] \in Live
<1>1. allScenes \in [Names \union {DefaultName} -> SceneIds \union {NoScene}]
  BY DEF TypeOK
<1>2. QED
  BY <1>1 DEF Live

(* apply() makes an existing scene current, or creates one.                *)
LEMMA ApplyScene ==
    ASSUME TypeOK, SceneInv, Apply
    PROVE  \/ UNCHANGED <<sceneVars, script, attached>> /\ currentScene # NoScene
           \/ /\ currentScene' \in SceneIds /\ sceneCount' \in 0 .. MaxScenes
              /\ allScenes' \in [Names \union {DefaultName} -> SceneIds \union {NoScene}]
              /\ currentName' \in Names \union {DefaultName}
              /\ moved' = (moved \/ currentScene # NoScene) /\ switching' = FALSE
              /\ attached' \subseteq attached
              /\ script' \in [SceneIds -> Nat]
<1>1. CASE ~switching /\ currentScene # NoScene
  BY <1>1 DEF Apply
<1>2. CASE ~(~switching /\ currentScene # NoScene) /\ ~switching /\ Live = {}
  <2>1. /\ sceneCount < MaxScenes /\ allScenes' = [allScenes EXCEPT ![DefaultName] = sceneCount + 1]
        /\ sceneCount' = sceneCount + 1 /\ currentScene' = sceneCount + 1
        /\ moved' = (moved \/ currentScene # NoScene) /\ switching' = FALSE
        /\ attached' = attached /\ script' = script /\ currentName' = DefaultName
    BY <1>2 DEF Apply
  <2>2. sceneCount + 1 \in SceneIds /\ sceneCount + 1 \in 0 .. MaxScenes
    BY <2>1, ReloadAssumption DEF TypeOK, SceneIds
  <2>3. QED
    BY <2>1, <2>2 DEF TypeOK
<1>3. CASE ~(~switching /\ currentScene # NoScene) /\ ~(~switching /\ Live = {})
  <2>1. switching
    BY <1>3 DEF SceneInv
  <2>2. allScenes[currentName] \in SceneIds
    BY <2>1 DEF SceneInv, TypeOK
  <2>3. /\ allScenes' = allScenes /\ sceneCount' = sceneCount
        /\ currentScene' = allScenes[currentName]
        /\ moved' = (moved \/ currentScene # NoScene) /\ switching' = FALSE
        /\ attached' = attached \ {allScenes[currentName]}
        /\ script' = [script EXCEPT ![allScenes[currentName]] = NoScript]
        /\ currentName' = currentName
    BY <1>3 DEF Apply
  <2>4. script' \in [SceneIds -> Nat]
    BY <2>2, <2>3 DEF TypeOK, NoScript
  <2>5. QED
    BY <2>2, <2>3, <2>4 DEF TypeOK
<1>4. QED
  BY <1>1, <1>2, <1>3

(* Every step keeps the types.                                             *)
LEMMA StepType == TypeOK /\ SceneInv /\ [Next]_vars => TypeOK'
<1> SUFFICES ASSUME TypeOK, SceneInv, [Next]_vars PROVE TypeOK'
  OBVIOUS
<1>1. ASSUME NEW k \in Compiles, Compile(k) PROVE TypeOK'
  BY <1>1 DEF TypeOK, Compile, sceneVars, vmVars, Builds
<1>2. ASSUME NEW k \in Compiles, ReadScene(k) PROVE TypeOK'
  <2>1. eventScene' \in [Compiles -> SceneIds \union {NoScene}]
    BY <1>2 DEF TypeOK, ReadScene
  <2>2. QED
    BY <1>2, <2>1 DEF TypeOK, ReadScene, sceneVars, vmVars
<1>3. ASSUME NEW k \in Compiles, PostReloadEvent(k) \/ PostCallback(k) PROVE TypeOK'
  <2>1. eventQueue' \in Seq(Compiles) /\ executeQueue' \in Seq(Compiles)
    <3>1. eventQueue \in Seq(Compiles) /\ executeQueue \in Seq(Compiles)
      BY DEF TypeOK
    <3>2. CASE PostReloadEvent(k)
      BY <3>1, <3>2, AppendProperties DEF PostReloadEvent
    <3>3. CASE PostCallback(k)
      BY <3>1, <3>3, AppendProperties DEF PostCallback
    <3>4. QED
      BY <1>3, <3>2, <3>3
  <2>2. CASE PostReloadEvent(k)
    BY <2>1, <2>2 DEF TypeOK, PostReloadEvent, sceneVars, vmVars
  <2>3. CASE PostCallback(k)
    BY <2>1, <2>3 DEF TypeOK, PostCallback, sceneVars, vmVars
  <2>4. QED
    BY <1>3, <2>2, <2>3
<1>4. CASE Apply
  <2>1. phase' = "execute" /\ UNCHANGED <<play, vmVars, jobVars, eventQueue, executeQueue,
                                           dialog, early, overlapped>>
    BY <1>4 DEF Apply
  <2>2. CASE UNCHANGED <<sceneVars, script, attached>> /\ currentScene # NoScene
    BY <2>1, <2>2 DEF TypeOK, sceneVars, vmVars, jobVars
  <2>3. CASE /\ currentScene' \in SceneIds /\ sceneCount' \in 0 .. MaxScenes
             /\ allScenes' \in [Names \union {DefaultName} -> SceneIds \union {NoScene}]
             /\ currentName' \in Names \union {DefaultName}
             /\ moved' = (moved \/ currentScene # NoScene) /\ switching' = FALSE
             /\ attached' \subseteq attached
             /\ script' \in [SceneIds -> Nat]
    BY <2>1, <2>3 DEF TypeOK, vmVars, jobVars
  <2>4. QED
    BY <1>4, <2>2, <2>3, ApplyScene
<1>5. CASE RunCallback
  <2>1. Head(executeQueue) \in Compiles /\ executeQueue' \in Seq(Compiles)
    BY <1>5, HeadTailProperties DEF RunCallback, TypeOK
  <2>2. domain' \in Nat /\ domainCount' \in Nat /\ library' \in BOOLEAN /\ loadedBuild' \in Builds
    BY <1>5 DEF RunCallback, TypeOK
  <2>3. QED
    BY <1>5, <2>1, <2>2 DEF RunCallback, TypeOK, sceneVars
<1>6. CASE ExecuteDone \/ ImGuiDone \/ UpdateSystems \/ DispatchDone \/ TogglePlay
  <2>1. CASE ExecuteDone
    BY <2>1 DEF ExecuteDone, TypeOK, sceneVars, vmVars, jobVars
  <2>2. CASE ImGuiDone
    BY <2>2 DEF ImGuiDone, TypeOK, sceneVars, vmVars, jobVars
  <2>3. CASE UpdateSystems
    BY <2>3 DEF UpdateSystems, TypeOK, sceneVars, vmVars, jobVars
  <2>4. CASE DispatchDone
    BY <2>4 DEF DispatchDone, TypeOK, sceneVars, vmVars, jobVars
  <2>5. CASE TogglePlay
    BY <2>5 DEF TogglePlay, TypeOK, sceneVars, vmVars, jobVars
  <2>6. QED
    BY <1>6, <2>1, <2>2, <2>3, <2>4, <2>5
<1>7. CASE AttachScript
  <2>1. currentScene \in SceneIds
    BY <1>7, LiveScenes DEF AttachScript
  <2>2. script' \in [SceneIds -> Nat]
    BY <1>7, <2>1 DEF AttachScript, LoadFunction, TypeOK
  <2>3. QED
    BY <1>7, <2>1, <2>2 DEF AttachScript, TypeOK, sceneVars, vmVars, jobVars
<1>8. ASSUME NEW k \in Compiles, CompileAssembly(k) PROVE TypeOK'
  BY <1>8 DEF CompileAssembly, TypeOK, sceneVars
<1>9. ASSUME NEW n \in Names, OpenScene(n) PROVE TypeOK'
  <2>1. sceneCount + 1 \in SceneIds /\ sceneCount + 1 \in 0 .. MaxScenes
    BY <1>9, ReloadAssumption DEF OpenScene, TypeOK, SceneIds
  <2>2. QED
    BY <1>9, <2>1 DEF OpenScene, TypeOK, vmVars, jobVars
<1>10. CASE DispatchReload
  <2>1. eventQueue' \in Seq(Compiles) /\ Head(eventQueue) \in Compiles
    BY <1>10, HeadTailProperties DEF DispatchReload, TypeOK
  <2>2. script' \in [SceneIds -> Nat]
    BY <1>10 DEF DispatchReload, LoadFunction, TypeOK
  <2>3. phase' \in {"dispatch", "crashed"} /\ early' \subseteq Compiles /\ currentScene \in SceneIds
    BY <1>10, <2>1 DEF DispatchReload, TypeOK
  <2>4. QED
    BY <1>10, <2>1, <2>2, <2>3 DEF DispatchReload, TypeOK, sceneVars, vmVars, jobVars
<1>11. CASE UNCHANGED vars
  BY <1>11 DEF vars, TypeOK, sceneVars, vmVars, jobVars
<1>12. QED
  BY <1>1, <1>2, <1>3, <1>4, <1>5, <1>6, <1>7, <1>8, <1>9, <1>10, <1>11
  DEF Next, Frame, User, RunJob

-----------------------------------------------------------------------------
(* Scenes.                                                                 *)

LEMMA StepScene == TypeOK /\ SceneInv /\ [Next]_vars => SceneInv'
<1> SUFFICES ASSUME TypeOK, SceneInv, [Next]_vars PROVE SceneInv'
  OBVIOUS
<1>0. NoScene \notin SceneIds
  BY DEF NoScene, SceneIds
<1>1. CASE UNCHANGED <<sceneVars, attached, eventScene>>
  BY <1>1 DEF SceneInv, sceneVars, Live
<1>2. ASSUME NEW k \in Compiles, Compile(k) \/ PostReloadEvent(k) \/ PostCallback(k) \/ CompileAssembly(k)
      PROVE  SceneInv'
  BY <1>1, <1>2 DEF Compile, PostReloadEvent, PostCallback, CompileAssembly
<1>3. CASE RunCallback \/ ExecuteDone \/ ImGuiDone \/ UpdateSystems \/ DispatchDone \/ TogglePlay
           \/ DispatchReload \/ UNCHANGED vars
  BY <1>1, <1>3 DEF RunCallback, ExecuteDone, ImGuiDone, UpdateSystems, DispatchDone, TogglePlay,
                    DispatchReload, vars, jobVars
<1>4. ASSUME NEW k \in Compiles, ReadScene(k) PROVE SceneInv'
  BY <1>4 DEF ReadScene, SceneInv, TypeOK, sceneVars, Live
<1>5. CASE Apply
  <2>1. eventScene' = eventScene
    BY <1>5 DEF Apply, jobVars
  <2>2. CASE UNCHANGED <<sceneVars, script, attached>>
    BY <1>1, <2>1, <2>2
  <2>3. CASE /\ currentScene' \in SceneIds /\ moved' = (moved \/ currentScene # NoScene)
             /\ switching' = FALSE /\ attached' \subseteq attached
    BY <1>0, <2>1, <2>3 DEF SceneInv
  <2>4. QED
    BY <1>5, <2>2, <2>3, ApplyScene
<1>6. CASE AttachScript
  <2>1. currentScene \in SceneIds
    BY <1>6, LiveScenes DEF AttachScript
  <2>2. QED
    BY <1>0, <1>6, <2>1 DEF AttachScript, SceneInv, sceneVars, jobVars
<1>7. ASSUME NEW n \in Names, OpenScene(n) PROVE SceneInv'
  <2>1. /\ currentScene \in SceneIds /\ allScenes'[n] = sceneCount + 1 /\ sceneCount + 1 # 0
        /\ currentName' = n /\ UNCHANGED <<currentScene, moved, attached, eventScene>>
    BY <1>7 DEF OpenScene, TypeOK, jobVars
  <2>2. QED
    BY <1>0, <2>1 DEF SceneInv, NoScene
<1>8. QED
  BY <1>2, <1>3, <1>4, <1>5, <1>6, <1>7 DEF Next, Frame, User, RunJob

-----------------------------------------------------------------------------
(* The two queues.                                                         *)

LEMMA StepQueue == TypeOK /\ QueueInv /\ [Next]_vars => QueueInv'
<1> SUFFICES ASSUME TypeOK, QueueInv, [Next]_vars PROVE QueueInv'
  OBVIOUS
<1>0. /\ executeQueue \in Seq(Compiles) /\ eventQueue \in Seq(Compiles)
      /\ job \in [Compiles -> {"none", "compile", "compiled", "read", "eventPosted", "posted",
                               "reported"}]
  BY DEF TypeOK
<1>1. CASE UNCHANGED <<job, executeQueue, eventQueue, early>>
  BY <1>1 DEF QueueInv
<1>2. CASE \/ Apply \/ ExecuteDone \/ ImGuiDone \/ UpdateSystems \/ DispatchDone \/ AttachScript
           \/ TogglePlay \/ (\E n \in Names : OpenScene(n)) \/ UNCHANGED vars
  BY <1>1, <1>2 DEF Apply, ExecuteDone, ImGuiDone, UpdateSystems, DispatchDone, AttachScript,
                    TogglePlay, OpenScene, vars, jobVars
<1>3. ASSUME NEW k \in Compiles, Compile(k) \/ ReadScene(k) \/ CompileAssembly(k)
      PROVE  QueueInv'
  <2>1. /\ UNCHANGED <<executeQueue, eventQueue, early>> /\ job[k] # "posted"
        /\ job'[k] \notin {"eventPosted", "posted"}
        /\ \A j \in Compiles : j # k => job'[j] = job[j]
    BY <1>0, <1>3 DEF Compile, ReadScene, CompileAssembly
  <2>2. Range(executeQueue) \subseteq Compiles
    BY <1>0, RangeOfSeq
  <2>3. QED
    BY <2>1, <2>2 DEF QueueInv
<1>4. ASSUME NEW k \in Compiles, PostReloadEvent(k) PROVE QueueInv'
  <2>1. /\ UNCHANGED <<executeQueue, early>> /\ eventQueue' = Append(eventQueue, k)
        /\ job[k] = "read" /\ job'[k] = "eventPosted"
        /\ \A j \in Compiles : j # k => job'[j] = job[j]
    BY <1>0, <1>4 DEF PostReloadEvent
  <2>2. Range(eventQueue') = Range(eventQueue) \union {k}
    BY <1>0, <2>1, RangeAppend
  <2>3. Range(executeQueue) \subseteq Compiles
    BY <1>0, RangeOfSeq
  <2>4. QED
    BY <2>1, <2>2, <2>3 DEF QueueInv
<1>5. ASSUME NEW k \in Compiles, PostCallback(k) PROVE QueueInv'
  <2>1. /\ UNCHANGED <<eventQueue, early>> /\ executeQueue' = Append(executeQueue, k)
        /\ job[k] = "eventPosted" /\ job'[k] = "posted"
        /\ \A j \in Compiles : j # k => job'[j] = job[j]
    BY <1>0, <1>5 DEF PostCallback
  <2>2. k \notin Range(executeQueue) /\ Range(executeQueue) \subseteq Compiles
    BY <1>0, <2>1, RangeOfSeq DEF QueueInv
  <2>3. Range(executeQueue') = Range(executeQueue) \union {k}
    BY <1>0, <2>1, RangeAppend
  <2>4. IsInjective(executeQueue')
    BY <1>0, <2>1, <2>2, InjectiveAppend DEF QueueInv
  <2>5. QED
    BY <2>1, <2>2, <2>3, <2>4 DEF QueueInv
<1>6. CASE RunCallback
  <2> DEFINE k == Head(executeQueue)
  <2>1. /\ executeQueue # <<>> /\ executeQueue' = Tail(executeQueue)
        /\ UNCHANGED <<eventQueue, early>> /\ job' = [job EXCEPT ![k] = "reported"]
    BY <1>6 DEF RunCallback
  <2>2. /\ k \in Compiles /\ Range(executeQueue) = Range(Tail(executeQueue)) \union {k}
    BY <1>0, <2>1, RangeTail
  <2>3. IsInjective(Tail(executeQueue)) /\ k \notin Range(Tail(executeQueue))
    BY <1>0, <2>1, InjectiveTail DEF QueueInv
  <2>4. Range(executeQueue) \subseteq Compiles
    BY <1>0, RangeOfSeq
  <2> HIDE DEF k
  <2>5. job'[k] = "reported" /\ \A j \in Compiles : j # k => job'[j] = job[j]
    BY <1>0, <2>1, <2>2
  <2>6. QED
    BY <2>1, <2>2, <2>3, <2>4, <2>5 DEF QueueInv
<1>7. CASE DispatchReload
  <2> DEFINE k == Head(eventQueue)
  <2>1. /\ eventQueue # <<>> /\ eventQueue' = Tail(eventQueue) /\ UNCHANGED <<job, executeQueue>>
        /\ early' = IF job[k] = "reported" THEN early ELSE early \union {k}
    BY <1>7 DEF DispatchReload, jobVars
  <2>2. Range(eventQueue) = Range(Tail(eventQueue)) \union {k}
    BY <1>0, <2>1, RangeTail
  <2> HIDE DEF k
  <2>3. early' = {} => early = {} /\ job[k] = "reported"
    BY <2>1
  <2>4. QED
    BY <2>1, <2>2, <2>3 DEF QueueInv
<1>8. QED
  BY <1>2, <1>3, <1>4, <1>5, <1>6, <1>7 DEF Next, Frame, User, RunJob

-----------------------------------------------------------------------------
(* The dialog and the loaded assembly.                                     *)

(* Only the menu puts a compilation in flight, and only a callback lands   *)
(* one; only a compilation in flight writes the dll.                       *)
LEMMA FlightSteps ==
    ASSUME TypeOK, [Next]_vars, ~RunCallback, ~\E k \in Compiles : CompileAssembly(k)
    PROVE  /\ InFlight' = InFlight /\ UNCHANGED <<dialog, vmVars, overlapped>>
           /\ dll' = dll \/ InFlight # {}
           /\ \A k \in Compiles : job'[k] = "none" => job[k] = "none"
<1>0. job \in [Compiles -> {"none", "compile", "compiled", "read", "eventPosted", "posted",
                            "reported"}]
  BY DEF TypeOK
<1>1. CASE UNCHANGED <<jobVars, vmVars, dialog, overlapped>>
  BY <1>1 DEF InFlight, jobVars
<1>2. CASE \/ Apply \/ ExecuteDone \/ ImGuiDone \/ UpdateSystems \/ DispatchReload \/ DispatchDone
           \/ AttachScript \/ TogglePlay \/ (\E n \in Names : OpenScene(n)) \/ UNCHANGED vars
  BY <1>1, <1>2 DEF Apply, ExecuteDone, ImGuiDone, UpdateSystems, DispatchReload, DispatchDone,
                    AttachScript, TogglePlay, OpenScene, vars
<1>3. ASSUME NEW k \in Compiles, RunJob(k)
      PROVE  /\ InFlight' = InFlight /\ UNCHANGED <<dialog, vmVars, overlapped>>
             /\ InFlight # {}
             /\ \A j \in Compiles : job'[j] = "none" => job[j] = "none"
  <2>1. /\ job[k] \notin {"none", "reported"} /\ job'[k] \notin {"none", "reported"}
        /\ \A j \in Compiles : j # k => job'[j] = job[j]
        /\ UNCHANGED <<dialog, vmVars, overlapped>>
    BY <1>0, <1>3 DEF RunJob, Compile, ReadScene, PostReloadEvent, PostCallback
  <2>2. \A j \in Compiles : job'[j] \notin {"none", "reported"} <=> job[j] \notin {"none", "reported"}
    BY <2>1
  <2>3. InFlight' = InFlight /\ k \in InFlight
    BY <2>1, <2>2 DEF InFlight
  <2>4. QED
    BY <2>1, <2>3
<1>4. QED
  BY <1>2, <1>3 DEF Next, Frame, User

(* A callback lands the compilation at the front of the queue.             *)
LEMMA CallbackLands ==
    ASSUME TypeOK, QueueInv, RunCallback
    PROVE  LET k == Head(executeQueue)
           IN  /\ k \in InFlight /\ InFlight' = InFlight \ {k}
               /\ job'[k] = "reported" /\ \A j \in Compiles : j # k => job'[j] = job[j]
<1> DEFINE k == Head(executeQueue)
<1>0. /\ executeQueue \in Seq(Compiles)
      /\ job \in [Compiles -> {"none", "compile", "compiled", "read", "eventPosted", "posted",
                               "reported"}]
  BY DEF TypeOK
<1>1. executeQueue # <<>> /\ job' = [job EXCEPT ![k] = "reported"]
  BY DEF RunCallback
<1>2. k \in Compiles /\ k \in Range(executeQueue)
  BY <1>0, <1>1, RangeTail
<1>3. job[k] = "posted"
  BY <1>2 DEF QueueInv
<1> HIDE DEF k
<1>4. job'[k] = "reported" /\ \A j \in Compiles : j # k => job'[j] = job[j]
  BY <1>0, <1>1, <1>2
<1>5. k \in InFlight /\ InFlight' = InFlight \ {k}
  BY <1>2, <1>3, <1>4 DEF InFlight
<1>6. QED
  BY <1>4, <1>5 DEF k

(* The menu puts a new one in flight.                                      *)
LEMMA MenuStarts ==
    ASSUME TypeOK, NEW k \in Compiles, CompileAssembly(k)
    PROVE  /\ k \notin InFlight /\ InFlight' = InFlight \union {k}
           /\ job[k] = "none" /\ job'[k] = "compile"
           /\ \A j \in Compiles : j # k => job'[j] = job[j]
<1>1. /\ job \in [Compiles -> {"none", "compile", "compiled", "read", "eventPosted", "posted",
                               "reported"}]
      /\ job[k] = "none" /\ job' = [job EXCEPT ![k] = "compile"]
  BY DEF TypeOK, CompileAssembly
<1>2. job'[k] = "compile" /\ \A j \in Compiles : j # k => job'[j] = job[j]
  BY <1>1
<1>3. QED
  BY <1>1, <1>2 DEF InFlight

LEMMA StepMenu == TypeOK /\ QueueInv /\ MenuInv /\ [Next]_vars => MenuInv'
<1> SUFFICES ASSUME TypeOK, QueueInv, MenuInv, [Next]_vars PROVE MenuInv'
  OBVIOUS
<1>0. 1 \in Compiles
  BY ReloadAssumption DEF Compiles
<1>1. CASE RunCallback
  <2> DEFINE k == Head(executeQueue)
  <2>1. /\ k \in InFlight /\ InFlight' = InFlight \ {k} /\ job'[k] = "reported"
        /\ \A j \in Compiles : j # k => job'[j] = job[j]
    BY <1>1, CallbackLands
  <2>2. dialog' = IF k = 1 THEN dialog ELSE FALSE
    BY <1>1 DEF RunCallback
  <2> HIDE DEF k
  <2>3. job'[1] # "none"
    BY <1>0, <2>1 DEF MenuInv
  <2>4. CASE k = 1
    BY <2>1, <2>2, <2>3, <2>4 DEF MenuInv, DialogWhileCompiling
  <2>5. CASE k # 1
    <3>1. InFlight' \ {1} = {}
      BY <2>1, <2>5 DEF MenuInv
    <3>2. QED
      BY <2>2, <2>3, <2>5, <3>1 DEF MenuInv, DialogWhileCompiling
  <2>6. QED
    BY <2>4, <2>5
<1>2. ASSUME NEW k \in Compiles, CompileAssembly(k) PROVE MenuInv'
  <2>1. /\ InFlight' = InFlight \union {k} /\ job[k] = "none" /\ job'[k] = "compile"
        /\ \A j \in Compiles : j # k => job'[j] = job[j]
    BY <1>2, MenuStarts
  <2>2. dialog' = TRUE /\ ~dialog
    BY <1>2 DEF CompileAssembly
  <2>3. InFlight \ {1} = {} /\ k # 1
    BY <2>1, <2>2 DEF MenuInv, DialogWhileCompiling
  <2>4. InFlight' \ {1} = {k}
    BY <2>1, <2>3
  <2>5. job'[1] # "none"
    BY <1>0, <2>1 DEF MenuInv
  <2>6. QED
    BY <2>2, <2>4, <2>5 DEF MenuInv, DialogWhileCompiling
<1>3. CASE ~RunCallback /\ ~\E k \in Compiles : CompileAssembly(k)
  BY <1>0, <1>3, FlightSteps DEF MenuInv, DialogWhileCompiling
<1>4. QED
  BY <1>1, <1>2, <1>3

LEMMA StepLoad == TypeOK /\ QueueInv /\ LoadInv /\ [Next]_vars => LoadInv'
<1> SUFFICES ASSUME TypeOK, QueueInv, LoadInv, [Next]_vars PROVE LoadInv'
  OBVIOUS
<1>1. CASE RunCallback
  <2>1. PICK k : k \in InFlight /\ InFlight' = InFlight \ {k}
    BY <1>1, CallbackLands
  <2>2. /\ domain' = IF domain = 0 THEN domainCount + 1 ELSE domain
        /\ library' = (library \/ dll # NoBuild)
        /\ loadedBuild' = IF library THEN loadedBuild ELSE dll
        /\ dll' = dll /\ overlapped' = overlapped /\ domainCount \in Nat /\ library \in BOOLEAN
    BY <1>1 DEF RunCallback, TypeOK
  <2>3. domain' # 0
    BY <2>2
  <2>4. ~overlapped => InFlight' = {} /\ loadedBuild' = dll
    BY <2>1, <2>2 DEF LoadInv
  <2>5. LoadedWhenQuiet' /\ NewestBuildLoaded'
    BY <2>2, <2>3, <2>4 DEF LoadedWhenQuiet, NewestBuildLoaded
  <2>6. QED
    BY <2>2, <2>3, <2>4, <2>5 DEF LoadInv
<1>2. ASSUME NEW k \in Compiles, CompileAssembly(k) PROVE LoadInv'
  <2>1. InFlight' = InFlight \union {k}
    BY <1>2, MenuStarts
  <2>2. /\ library' = FALSE /\ overlapped' = (overlapped \/ InFlight # {})
        /\ loadedBuild' = loadedBuild /\ dll' = dll
    BY <1>2 DEF CompileAssembly
  <2>3. QED
    BY <2>1, <2>2 DEF LoadInv, LoadedWhenQuiet, NewestBuildLoaded
<1>3. CASE ~RunCallback /\ ~\E k \in Compiles : CompileAssembly(k)
  <2>1. /\ InFlight' = InFlight /\ UNCHANGED <<domain, library, loadedBuild, overlapped>>
        /\ dll' = dll \/ InFlight # {}
    BY <1>3, FlightSteps DEF vmVars
  <2>2. QED
    BY <2>1 DEF LoadInv, LoadedWhenQuiet, NewestBuildLoaded
<1>4. QED
  BY <1>1, <1>2, <1>3

-----------------------------------------------------------------------------
(* The functions of the scripts.                                           *)

LEMMA StepFresh ==
    TypeOK /\ SceneInv /\ QueueInv /\ LoadInv /\ FreshInv /\ [Next]_vars => FreshInv'
<1> SUFFICES ASSUME TypeOK, SceneInv, QueueInv, LoadInv, FreshInv, [Next]_vars,
                    phase' # "crashed", eventQueue' = <<>>, early' = {}, ~moved', ~switching',
                    library', NEW s \in attached'
             PROVE  script'[s] = domain'
  BY DEF FreshInv
<1>1. CASE UNCHANGED <<eventQueue, early, moved, switching, library, attached, script, domain>>
           /\ phase # "crashed"
  BY <1>1 DEF FreshInv
<1>2. ASSUME NEW k \in Compiles, Compile(k) \/ ReadScene(k) \/ PostCallback(k)
      PROVE  script'[s] = domain'
  BY <1>1, <1>2 DEF Compile, ReadScene, PostCallback, sceneVars, vmVars
<1>3. CASE \/ ExecuteDone \/ ImGuiDone \/ UpdateSystems \/ DispatchDone \/ TogglePlay \/ UNCHANGED vars
  BY <1>1, <1>3 DEF ExecuteDone, ImGuiDone, UpdateSystems, DispatchDone, TogglePlay, vars,
                    sceneVars, vmVars
<1>4. ASSUME NEW k \in Compiles, PostReloadEvent(k)
      PROVE  FALSE
  BY <1>4, AppendProperties, SMTT(30) DEF PostReloadEvent, TypeOK
<1>5. ASSUME NEW k \in Compiles, CompileAssembly(k)
      PROVE  FALSE
  BY <1>5 DEF CompileAssembly
<1>6. ASSUME NEW n \in Names, OpenScene(n)
      PROVE  FALSE
  BY <1>6 DEF OpenScene
<1>7. CASE Apply
  <2>1. phase = "apply" /\ UNCHANGED <<eventQueue, early, library, domain>>
    BY <1>7 DEF Apply, vmVars
  <2>2. CASE UNCHANGED <<sceneVars, script, attached>>
    BY <1>1, <2>1, <2>2 DEF sceneVars
  <2>3. CASE moved' = (moved \/ currentScene # NoScene) /\ attached' \subseteq attached
    BY <2>3 DEF SceneInv
  <2>4. QED
    BY <1>7, <2>2, <2>3, ApplyScene
<1>8. CASE RunCallback
  <2>1. /\ phase = "execute" /\ executeQueue # <<>>
        /\ UNCHANGED <<eventQueue, early, moved, switching, attached, script>>
        /\ domain' = IF domain = 0 THEN domainCount + 1 ELSE domain
    BY <1>8 DEF RunCallback, sceneVars
  <2>2. CASE library
    <3>1. domain' = domain
      BY <2>1, <2>2 DEF LoadInv
    <3>2. QED
      BY <2>1, <2>2, <3>1 DEF FreshInv
  <2>3. CASE ~library
    <3>1. Head(executeQueue) \in Compiles /\ Head(executeQueue) \in Range(executeQueue)
      BY <2>1, RangeTail DEF TypeOK
    <3>2. Head(executeQueue) \in Range(eventQueue)
      BY <2>1, <3>1 DEF QueueInv
    <3>3. Range(<<>>) = {}
      BY DEF Range
    <3>4. QED
      BY <2>1, <3>2, <3>3
  <2>4. QED
    BY <2>2, <2>3
<1>9. CASE AttachScript
  <2>1. /\ currentScene \in Live /\ currentScene \notin attached
        /\ attached' = attached \union {currentScene}
        /\ script' = LoadFunction(currentScene)
        /\ UNCHANGED <<moved, library, domain>>
    BY <1>9 DEF AttachScript, sceneVars, vmVars
  <2>2. s = currentScene /\ currentScene \in SceneIds
    BY <2>1, LiveScenes DEF SceneInv
  <2>3. QED
    BY <2>1, <2>2 DEF LoadFunction, TypeOK
<1>10. CASE DispatchReload
  <2> DEFINE k == Head(eventQueue)
  <2>1. /\ eventQueue # <<>> /\ UNCHANGED <<moved, library, domain, attached>>
        /\ phase' = IF eventScene[k] \in Live THEN "dispatch" ELSE "crashed"
        /\ script' = IF eventScene[k] \in attached \intersect Live
                     THEN LoadFunction(eventScene[k]) ELSE script
    BY <1>10 DEF DispatchReload, sceneVars, vmVars
  <2>2. k \in Compiles
    BY <2>1, RangeTail DEF TypeOK
  <2> HIDE DEF k
  <2>3. eventScene[k] \in Live /\ NoScene \notin Live
    BY <2>1 DEF Live
  <2>4. eventScene[k] = currentScene
    BY <2>1, <2>2, <2>3 DEF SceneInv
  <2>5. s = currentScene /\ s \in attached
    BY <2>1 DEF SceneInv
  <2>6. script' = [script EXCEPT ![s] = domain] /\ s \in SceneIds
    BY <2>1, <2>3, <2>4, <2>5, LiveScenes DEF LoadFunction
  <2>7. QED
    BY <2>1, <2>6 DEF TypeOK
<1>11. QED
  BY <1>2, <1>3, <1>4, <1>5, <1>6, <1>7, <1>8, <1>9, <1>10 DEF Next, Frame, User, RunJob

-----------------------------------------------------------------------------
(* Theorems.                                                               *)

LEMMA InitInv == Init => Inv
<1> SUFFICES ASSUME Init PROVE Inv
  OBVIOUS
<1>1. 1 \in Compiles /\ 1 \in SceneIds /\ MaxScenes \in Nat \ {0} /\ StartFile \in Names
      /\ DefaultName \notin Names
  BY ReloadAssumption DEF Compiles, SceneIds
<1>2. /\ allScenes \in [Names \union {DefaultName} -> SceneIds \union {NoScene}]
      /\ switching \in BOOLEAN /\ currentName \in Names \union {DefaultName}
      /\ sceneCount \in 0 .. MaxScenes
      /\ switching => allScenes[currentName] = 1
      /\ ~switching => \A n \in Names \union {DefaultName} : allScenes[n] = NoScene
  BY <1>1 DEF Init
<1>3. TypeOK
  <2>1. eventQueue \in Seq(Compiles) /\ executeQueue \in Seq(Compiles)
    BY EmptySeq DEF Init
  <2>2. script \in [SceneIds -> Nat] /\ attached \subseteq SceneIds
    BY DEF Init, NoScript
  <2>3. loadedBuild \in Builds /\ dll \in Builds
    BY DEF Init, Builds
  <2>4. QED
    BY <1>2, <2>1, <2>2, <2>3 DEF Init, TypeOK
<1>4. SceneInv
  <2>1. ~switching => Live = {}
    BY <1>2 DEF Live
  <2>2. QED
    BY <1>2, <2>1 DEF Init, SceneInv, NoScene
<1>5. QueueInv
  <2>1. Range(<<>>) = {} /\ IsInjective(<<>>)
    BY DEF Range, IsInjective
  <2>2. \A k \in Compiles : job[k] \in {"compile", "none"}
    BY DEF Init
  <2>3. QED
    BY <2>1, <2>2 DEF Init, QueueInv
<1>6. InFlight = {1}
  BY <1>1 DEF Init, InFlight
<1>7. MenuInv
  BY <1>1, <1>6 DEF Init, MenuInv, DialogWhileCompiling
<1>8. LoadInv
  BY <1>6 DEF Init, LoadInv, LoadedWhenQuiet, NewestBuildLoaded
<1>9. FreshInv
  BY DEF Init, FreshInv
<1>10. QED
  BY <1>3, <1>4, <1>5, <1>7, <1>8, <1>9 DEF Inv

LEMMA AlwaysInv == Spec => []Inv
<1>1. Inv /\ [Next]_vars => Inv'
  BY StepType, StepScene, StepQueue, StepMenu, StepLoad, StepFresh DEF Inv
<1>2. QED
  BY <1>1, InitInv, PTL DEF Spec

(* The shape of the state for any number of compilations and scenes: in    *)
(* particular apply() leaves a current scene in every later phase.         *)
THEOREM ReloadTypes == Spec => []TypeOK
<1>1. Inv => TypeOK
  BY DEF Inv
<1>2. QED
  BY <1>1, AlwaysInv, PTL

(* compileAssembly unloads and the completion callback loads: once nothing *)
(* is in flight the script assembly is loaded, whatever the interleaving.  *)
THEOREM LoadedAfterCompiling == Spec => []LoadedWhenQuiet
<1>1. Inv => LoadedWhenQuiet
  BY DEF Inv, LoadInv
<1>2. QED
  BY <1>1, AlwaysInv, PTL

(* The loading dialog is up exactly while a compilation of the menu is in  *)
(* flight.                                                                 *)
THEOREM DialogIsExact == Spec => []DialogWhileCompiling
<1>1. Inv => DialogWhileCompiling
  BY DEF Inv, MenuInv
<1>2. QED
  BY <1>1, AlwaysInv, PTL

(* Without overlapping compilations the newest build is the loaded one.    *)
THEOREM NewestUnlessOverlapped == Spec => []NewestBuildLoaded
<1>1. Inv => NewestBuildLoaded
  BY DEF Inv, LoadInv
<1>2. QED
  BY <1>1, AlwaysInv, PTL

(* Scripts run the loaded code unless a reload event overtook its callback *)
(* or the scene was changed; that no compilation is in flight is not even  *)
(* needed.                                                                 *)
THEOREM ScriptsAreFresh == Spec => []FreshUnlessOvertaken
<1>1. Inv => FreshUnlessOvertaken
  BY DEF Inv, FreshInv, FreshUnlessOvertaken
<1>2. QED
  BY <1>1, AlwaysInv, PTL
=============================================================================
