------------------------------- MODULE Scenes -------------------------------
(***************************************************************************)
(* The current scene, its file and the editor's selection: Scene::saveTo   *)
(* and loadFrom, SceneManager (Scene/SceneManager.cpp), Serialization, the *)
(* menus of the hierarchy window and Editor::openFile.                     *)
(*                                                                         *)
(* A scene in memory is a registry of entities, edited by the operations   *)
(* of Hierarchy.  A file holds a snapshot of one, with the handles and     *)
(* versions of its entities.  Scene::dirty is set by some edits only, and  *)
(* a save without it does nothing.  A scene that is not the current one is *)
(* never shown again before it has been read from its file anew, so only   *)
(* the current one has a registry here.                                    *)
(***************************************************************************)
EXTENDS Naturals, FiniteSets

CONSTANTS
    Entities, Null, LeafDrops, LeafDestroys,    \* as in Hierarchy
    Files,          \* scene files
    Default,        \* "default.scene"
    NoFile,         \* the empty Scene::filePath, and no switch under way
    MaxEdits        \* bound: edits in a behaviour

ASSUME ScenesAssumption ==
    /\ IsFiniteSet(Entities) /\ Null \notin Entities
    /\ LeafDrops \in BOOLEAN /\ LeafDestroys \in BOOLEAN
    /\ Default \in Files /\ NoFile \notin Files /\ MaxEdits \in Nat

VARIABLES
    valid, used, has, node, \* the registry of the current scene: Hierarchy
    files,          \* files[f] : the snapshot in f, Missing or Torn
    path,           \* Scene::filePath of the current scene
    key,            \* its key in allScenes; NoFile for "default"
    dirty,          \* its dirty flag
    pending,        \* switchingScenes: the scene of the next apply
    selected,       \* Editor::selectedNode
    running,        \* the editor is running
    silent,         \* history: an edit since the last save or load that set no flag
    edits           \* edits so far

H == INSTANCE Hierarchy

registry == <<valid, used, has, node>>
session  == <<path, key, pending, running>>
vars     == <<registry, files, session, dirty, selected, silent, edits>>

Missing == [state |-> "missing"]
Torn    == [state |-> "torn"]

(* entt::snapshot: the entities with their versions, and the components.   *)
Snapshot == [state |-> "scene", valid |-> valid, used |-> used, has |-> has, node |-> node]

-----------------------------------------------------------------------------
(* The process ends: only the files are left.                              *)
Ended ==
    /\ valid' = {} /\ used' = {} /\ has' = {}
    /\ node' = [e \in Entities |-> H!Blank]
    /\ path' = NoFile /\ key' = NoFile /\ pending' = NoFile
    /\ dirty' = FALSE /\ silent' = FALSE
    /\ selected' = Null /\ running' = FALSE

(* Scene::Scene and SceneManager::addScene: a new scene has one entity,    *)
(* "Main Camera", whose creation makes it dirty.                           *)
FreshScene(c) ==
    /\ valid' = {c} /\ used' = {c} /\ has' = {}
    /\ node' = [e \in Entities |-> H!Blank]
    /\ dirty' = TRUE

(* Mutant: the link to the previous sibling is not part of the snapshot. *)
ReadWithoutPrev(s) ==
    /\ valid' = s.valid /\ used' = s.used
    /\ has' = s.has /\ node' = [e \in Entities |-> [s.node[e] EXCEPT !.prev = Null]]

(* Serialization::loadScene into the registry that loadFrom has cleared,   *)
(* with on_construct disconnected: the links are those of the file.        *)
Read(s) ==
    /\ valid' = s.valid /\ used' = s.used
    /\ has' = s.has /\ node' = s.node

(* Scene::loadFrom of a scene that addSceneFromFile has made and left      *)
(* dirty.  cereal throws on a file that has no scene in it, and nobody     *)
(* catches that.                                                           *)
loadFrom(f) ==
    IF files[f].state = "scene"
    THEN /\ Read(files[f])
         /\ path' = f /\ key' = f /\ pending' = NoFile
         /\ dirty' = TRUE /\ silent' = FALSE
         /\ running' = TRUE
    ELSE Ended

(* SceneManager::apply at the start of a frame.                            *)
Apply ==
    /\ running /\ pending # NoFile
    /\ loadFrom(pending)
    /\ selected' = IF running' THEN selected ELSE Null
    /\ UNCHANGED <<files, edits>>

(* Editor::init, and the first apply: default.scene if there is one, else  *)
(* a scene without a file.                                                 *)
Start ==
    /\ ~running
    /\ selected' = Null
    /\ UNCHANGED <<files, edits>>
    /\ IF files[Default] # Missing THEN loadFrom(Default)
       ELSE /\ \E c \in Entities : FreshScene(c)
            /\ running' = TRUE /\ silent' = FALSE
            /\ path' = NoFile /\ key' = NoFile /\ pending' = NoFile

Exit == running /\ Ended /\ UNCHANGED <<files, edits>>

-----------------------------------------------------------------------------
(* Edits of the current scene, once it is there.                           *)

(* Mutant: a new entity does not count as a change. *)
Unflagged(edit) ==
    /\ running /\ edits < MaxEdits
    /\ edit /\ edits' = edits + 1
    /\ UNCHANGED <<files, session, dirty, silent>>

(* Scene::createEntity and duplicateEntity set the flag.                   *)
Flagged(edit) ==
    /\ running /\ edits < MaxEdits
    /\ edit /\ edits' = edits + 1
    /\ dirty' = TRUE
    /\ UNCHANGED <<files, session, silent>>

(* The edits that go to the registry directly do not.                      *)
Silent(edit) ==
    /\ running /\ edits < MaxEdits
    /\ edit /\ edits' = edits + 1
    /\ silent' = TRUE
    /\ UNCHANGED <<files, session, dirty>>

(* "Add ..." of the window's menu, and "Duplicate", whose copy has no      *)
(* parent.                                                                 *)
createEntity(e) == Flagged(H!Create(e)) /\ UNCHANGED selected

(* "Paste" on p.  A cut entity is pasted as a copied one is, the flag that *)
(* it was cut is not kept.                                                 *)
duplicateEntity(e, p) ==
    /\ Flagged(H!AddChild(e, p))
    /\ selected' = IF selected = p THEN Null ELSE selected

(* "Add Child" on p.  While p's menu is open p is not selected.            *)
AddChild(e, p) ==
    /\ Silent(H!AddChild(e, p))
    /\ selected' = IF selected = p THEN Null ELSE selected

(* Mutant: the deleted node stays selected. *)
DeleteSelected(e) == Silent(H!destroyEntity(e)) /\ UNCHANGED selected

(* "Delete" on e, which is not selected any more, unlike what is below it. *)
Delete(e) ==
    /\ Silent(H!destroyEntity(e))
    /\ selected' = IF selected = e THEN Null ELSE selected

Drop(e) ==
    /\ Silent(\/ H!DropOnPanel(e) \/ H!DropOnFreeArea(e)
              \/ \E p \in Entities : H!DropOnNode(e, p))
    /\ UNCHANGED selected

(* What a Lua script can do to the registry: Entity::destroy, setParent    *)
(* and EntityManager::create.  Scripts run when their component is loaded  *)
(* and in every frame of Play, which the pause button enters and leaves    *)
(* without any other effect: at any time, and the selection stays.         *)
Script(e) ==
    /\ Silent(\/ H!Create(e) \/ H!DestroyAlone(e)
              \/ \E p \in Entities : H!setParent(e, p))
    /\ UNCHANGED selected

(* Editor::openFile of a model: an entity for it, which is selected.  A    *)
(* model with one mesh, or none, is this entity alone.                     *)
openModel(e) == Flagged(H!Create(e)) /\ selected' = e

(* One with two meshes or more has an entity below it for each; c and d    *)
(* stand for them.                                                         *)
openMeshes(e, c, d) ==
    /\ Cardinality({e, c, d}) = 3
    /\ Flagged(/\ {e, c, d} \intersect used = {}
               /\ valid' = valid \union {e, c, d} /\ used' = used \union {e, c, d}
               /\ node' = H!emplace(H!emplace(node, c, e), d, e)
               /\ has' = has \union {e, c, d})
    /\ selected' = e

(* Editor::setSelected from a click in the window or in the scene.         *)
setSelected(e) ==
    /\ running /\ e \in valid
    /\ selected' = e
    /\ UNCHANGED <<registry, files, session, dirty, silent, edits>>

(* The play button of Editor::drawPlayButtons; the scene is neither kept   *)
(* at the start of Play nor brought back at its end.                       *)
PlayOrStop ==
    /\ running /\ selected # Null
    /\ selected' = Null
    /\ UNCHANGED <<registry, files, session, dirty, silent, edits>>

-----------------------------------------------------------------------------
(* Scene::saveTo.  A scene without a file is saved under its name, which   *)
(* the user may have changed to that of any file.                          *)
Target(f) == running /\ dirty /\ f = IF path = NoFile THEN f ELSE path

saveTo(f) ==
    /\ Target(f)
    /\ path' = f /\ dirty' = FALSE /\ silent' = FALSE
    /\ files' = [files EXCEPT ![f] = Snapshot]
    /\ UNCHANGED <<registry, key, pending, running, selected, edits>>

(* Serialization::serialize opens the file before it writes it, and        *)
(* opening it for writing empties it: the process may end in between.      *)
DieInSave(f) ==
    /\ Target(f)
    /\ files' = [files EXCEPT ![f] = Torn]
    /\ Ended
    /\ UNCHANGED edits

(* Editor::openFile of a scene: addSceneFromFile, then switchScene.  When  *)
(* f is the key of the current scene, addScene frees that scene while the  *)
(* rest of the frame still uses it, which may end the process.             *)
openFile(f) ==
    /\ running /\ files[f] # Missing
    /\ UNCHANGED <<files, edits>>
    /\ \/ /\ pending' = f
          /\ UNCHANGED <<registry, path, key, running, dirty, selected, silent>>
       \/ f = key /\ Ended

-----------------------------------------------------------------------------
(* An earlier session may have left a scene with one entity.               *)
Init ==
    \E c \in Entities :
        LET fresh == [state |-> "scene", valid |-> {c}, used |-> {c}, has |-> {},
                      node |-> [e \in Entities |-> H!Blank]]
        IN  /\ valid = {} /\ used = {} /\ has = {} /\ node = fresh.node
            /\ files \in [Files -> {Missing, fresh}]
            /\ path = NoFile /\ key = NoFile /\ pending = NoFile
            /\ dirty = FALSE /\ silent = FALSE
            /\ selected = Null /\ running = FALSE /\ edits = 0

Next ==
    \/ Start \/ Exit \/ Apply \/ PlayOrStop
    \/ \E e \in Entities : \/ createEntity(e) \/ openModel(e) \/ Delete(e) \/ Drop(e)
                           \/ setSelected(e) \/ Script(e)
    \/ \E e, p \in Entities : duplicateEntity(e, p) \/ AddChild(e, p)
    \/ \E e, c, d \in Entities : openMeshes(e, c, d)
    \/ \E f \in Files : saveTo(f) \/ DieInSave(f) \/ openFile(f)

Spec == Init /\ [][Next]_vars

-----------------------------------------------------------------------------
(* Properties.                                                             *)

(* When the current scene is not dirty, its file holds exactly what is in  *)
(* memory, unless an edit that sets no flag was made since: the links of   *)
(* the tree included, in whatever order scenes were opened, saved and lost.*)
DirtyTracksFile ==
    running /\ ~dirty /\ ~silent => path # NoFile /\ files[path] = Snapshot

(* The tree in memory is a tree after every edit, save, load and restart,  *)
(* and so is the one in every file: what is read back needs no repair.     *)
TreesIntact ==
    /\ H!LinksAgree /\ H!NoCycle
    /\ \A f \in Files :
          LET s == files[f]
          IN  s.state = "scene" =>
                /\ s.has \subseteq s.valid
                /\ \A e \in s.has :
                      /\ s.node[e].parent # Null => e \in H!getChildren(s.node, s.node[e].parent)
                      /\ H!getChildren(s.node, e) \subseteq s.has

(* The selection is left naming a dead entity only when the scene was      *)
(* switched, something above the selected entity was deleted, or the       *)
(* entity was destroyed alone, by a script: deleting it in the window      *)
(* deselects it, and no other edit destroys it.                            *)
SelectionDangles ==
    [][(selected' = selected /\ selected \in valid \ valid') =>
         \/ pending # NoFile /\ pending' = NoFile
         \/ H!Ancestors(node, selected) \intersect (valid \ valid') # {}
         \/ valid' = valid \ {selected}]_vars
=============================================================================
