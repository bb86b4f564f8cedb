---------------------------- MODULE ScenesProofs ----------------------------
(***************************************************************************)
(* The dirty flag of a scene, its tree and the selection, for any number   *)
(* of entities, files, edits, restarts and crashes.  The trees rest on     *)
(* HierarchyProofs: every edit of a scene is a step of Hierarchy, or two   *)
(* emplacements, and a file holds what memory once held.                   *)
(***************************************************************************)
EXTENDS Scenes, FiniteSetTheorems, TLAPS

T == INSTANCE HierarchyProofs

(* Scene::filePath names a file of the model, or none.                     *)
FileInv ==
    /\ files = [f \in Files |-> files[f]]
    /\ path \in Files \union {NoFile} /\ pending \in Files \union {NoFile}

Inv == FileInv /\ DirtyTracksFile

-----------------------------------------------------------------------------
(* A process that has ended, and a scene that has just been read, are not  *)
(* at rest: there is nothing to compare with the file.                     *)
LEMMA EndedInv ==
    ASSUME files' = [f \in Files |-> files'[f]], Ended
    PROVE  Inv'
  BY DEF Inv, FileInv, DirtyTracksFile, Ended

LEMMA LoadInv ==
    ASSUME Inv, files' = files, NEW f \in Files, loadFrom(f)
    PROVE  Inv'
<1>1. CASE files[f].state = "scene"
  BY <1>1 DEF loadFrom, Inv, FileInv, DirtyTracksFile
<1>2. CASE files[f].state # "scene"
  BY <1>2, EndedInv DEF loadFrom, Inv, FileInv
<1>3. QED
  BY <1>1, <1>2

(* An edit marks the scene, with its flag or in the history of those that  *)
(* set none.                                                               *)
LEMMA EditInv ==
    ASSUME Inv, UNCHANGED <<files, session>>, dirty' = TRUE \/ silent' = TRUE
    PROVE  Inv'
  BY DEF Inv, FileInv, DirtyTracksFile, session

LEMMA StepInv == Inv /\ [Next]_vars => Inv'
<1> SUFFICES ASSUME Inv, [Next]_vars PROVE Inv'
  OBVIOUS
<1>1. CASE UNCHANGED <<registry, files, session, dirty, silent>>
  BY <1>1 DEF Inv, FileInv, DirtyTracksFile, Snapshot, registry, session
<1>2. CASE Start
  <2>1. files' = files
    BY <1>2 DEF Start
  <2>2. CASE files[Default] # Missing
    BY <1>2, <2>1, <2>2, LoadInv, ScenesAssumption DEF Start
  <2>3. CASE files[Default] = Missing
    <3>1. dirty' = TRUE /\ path' = NoFile /\ pending' = NoFile
      BY <1>2, <2>3 DEF Start, FreshScene
    <3>2. QED
      BY <2>1, <3>1 DEF Inv, FileInv, DirtyTracksFile
  <2>4. QED
    BY <2>2, <2>3
<1>3. CASE Exit
  BY <1>3, EndedInv DEF Exit, Inv, FileInv
<1>4. CASE Apply
  <2>1. files' = files /\ pending \in Files /\ loadFrom(pending)
    BY <1>4 DEF Apply, Inv, FileInv
  <2>2. QED
    BY <2>1, LoadInv
<1>5. ASSUME NEW e \in Entities, createEntity(e) \/ Delete(e) \/ Drop(e) \/ Script(e)
      PROVE  Inv'
  BY <1>5, EditInv DEF createEntity, Delete, Drop, Script, Flagged, Silent
<1>6. ASSUME NEW e \in Entities, NEW p \in Entities, duplicateEntity(e, p) \/ AddChild(e, p)
      PROVE  Inv'
  BY <1>6, EditInv DEF duplicateEntity, AddChild, Flagged, Silent
<1>7. ASSUME NEW e \in Entities, NEW c \in Entities, NEW d \in Entities,
             openModel(e) \/ openMeshes(e, c, d)
      PROVE  Inv'
  BY <1>7, EditInv DEF openModel, openMeshes, Flagged
<1>8. CASE PlayOrStop \/ \E e \in Entities : setSelected(e)
  BY <1>1, <1>8 DEF PlayOrStop, setSelected
<1>9. ASSUME NEW f \in Files, saveTo(f)
      PROVE  Inv'
  <2>1. /\ path' = f /\ files' = [files EXCEPT ![f] = Snapshot]
        /\ UNCHANGED <<registry, pending, running>>
    BY <1>9 DEF saveTo
  <2>2. files' = [g \in Files |-> files'[g]] /\ files'[f] = Snapshot
    BY <2>1 DEF Inv, FileInv
  <2>3. Snapshot' = Snapshot
    BY <2>1 DEF Snapshot, registry
  <2>4. QED
    BY <2>1, <2>2, <2>3, ScenesAssumption DEF Inv, FileInv, DirtyTracksFile
<1>10. ASSUME NEW f \in Files, DieInSave(f)
       PROVE  Inv'
  <2>1. files' = [g \in Files |-> files'[g]] /\ Ended
    BY <1>10 DEF DieInSave, Inv, FileInv
  <2>2. QED
    BY <2>1, EndedInv
<1>11. ASSUME NEW f \in Files, openFile(f)
       PROVE  Inv'
  <2>1. files' = files
    BY <1>11 DEF openFile
  <2>2. CASE Ended
    BY <2>1, <2>2, EndedInv DEF Inv, FileInv
  <2>3. CASE pending' = f /\ UNCHANGED <<registry, path, running, dirty, silent>>
    BY <2>1, <2>3 DEF Inv, FileInv, DirtyTracksFile, Snapshot, registry
  <2>4. QED
    BY <1>11, <2>2, <2>3 DEF openFile
<1>12. CASE UNCHANGED vars
  BY <1>1, <1>12 DEF vars
<1>13. QED
  BY <1>2, <1>3, <1>4, <1>5, <1>6, <1>7, <1>8, <1>9, <1>10, <1>11, <1>12 DEF Next

(* A scene that is not dirty, and had no edit that sets no flag, is in its *)
(* file as it is in memory: whatever was opened, saved and lost before, a  *)
(* save that does nothing because of the flag loses nothing.               *)
THEOREM CleanScenesAreSaved == Spec => []DirtyTracksFile
<1>1. Init => Inv
  BY DEF Init, Inv, FileInv, DirtyTracksFile
<1>2. Inv => DirtyTracksFile
  BY DEF Inv
<1>3. QED
  BY <1>1, <1>2, StepInv, PTL DEF Spec

-----------------------------------------------------------------------------
(* The operators of the two instances of Hierarchy.                        *)

LEMMA TheAssumption == T!HierarchyAssumption
  BY ScenesAssumption DEF T!HierarchyAssumption, T!IsFiniteSet, IsFiniteSet

LEMMA SameWalks ==
    ASSUME NEW n, NEW e
    PROVE  /\ H!Blank = T!Blank
           /\ H!getChildren(n, e) = T!getChildren(n, e)
           /\ H!Ancestors(n, e) = T!Ancestors(n, e)
           /\ H!Subtree(n, e) = T!Subtree(n, e)
<1>1. H!Blank = T!Blank
  BY DEF H!Blank, T!Blank
<1>2. H!getChildren(n, e) = T!getChildren(n, e)
  BY DEF H!getChildren, T!getChildren, H!Siblings, T!Siblings, H!Reach, T!Reach
<1>3. H!Ancestors(n, e) = T!Ancestors(n, e)
  BY DEF H!Ancestors, T!Ancestors, H!Reach, T!Reach
<1>4. H!Subtree(n, e) = T!Subtree(n, e)
  BY DEF H!Subtree, T!Subtree, H!Reach, T!Reach
<1> QED BY <1>1, <1>2, <1>3, <1>4

LEMMA SameMoves ==
    ASSUME NEW n, NEW e, NEW p
    PROVE  /\ H!onDestroy(n, e) = T!onDestroy(n, e)
           /\ H!Detach(n, e) = T!Detach(n, e)
           /\ H!emplace(n, e, p) = T!emplace(n, e, p)
           /\ H!reparent(n, e, p) = T!reparent(n, e, p)
<1>1. ASSUME NEW m PROVE H!onConstruct(m, e) = T!onConstruct(m, e)
  BY DEF H!onConstruct, T!onConstruct, H!getChildren, T!getChildren, H!Siblings, T!Siblings,
         H!Reach, T!Reach
<1>2. H!onDestroy(n, e) = T!onDestroy(n, e)
  BY DEF H!onDestroy, T!onDestroy
<1>3. ASSUME NEW m, NEW q PROVE H!Unplaced(m, e, q) = T!Unplaced(m, e, q)
  BY DEF H!Unplaced, T!Unplaced
<1>4. H!Detach(n, e) = T!Detach(n, e)
  BY <1>2, <1>3 DEF H!Detach, T!Detach
<1>5. H!emplace(n, e, p) = T!emplace(n, e, p)
  BY <1>1 DEF H!emplace, T!emplace, H!Blank, T!Blank
<1>6. H!reparent(n, e, p) = T!reparent(n, e, p)
  BY <1>1, <1>2, <1>3 DEF H!reparent, T!reparent
<1> QED BY <1>2, <1>4, <1>5, <1>6

LEMMA SameSteps ==
    ASSUME NEW e \in Entities, NEW p \in Entities
    PROVE  /\ H!Create(e) => T!Create(e)
           /\ H!AddChild(e, p) => T!AddChild(e, p)
           /\ H!destroyEntity(e) => T!destroyEntity(e)
           /\ H!DropOnPanel(e) => T!DropOnPanel(e)
           /\ H!DropOnFreeArea(e) => T!DropOnFreeArea(e)
           /\ H!DropOnNode(e, p) => T!DropOnNode(e, p)
           /\ H!setParent(e, p) => T!setParent(e, p)
           /\ H!DestroyAlone(e) => T!DestroyAlone(e)
<1>1. H!Create(e) => T!Create(e)
  BY DEF H!Create, T!Create
<1>2. H!AddChild(e, p) => T!AddChild(e, p)
  BY SameMoves DEF H!AddChild, T!AddChild
<1>3. H!destroyEntity(e) => T!destroyEntity(e)
  BY SameMoves, SameWalks DEF H!destroyEntity, T!destroyEntity
<1>4. H!DropOnPanel(e) => T!DropOnPanel(e)
  BY SameMoves DEF H!DropOnPanel, T!DropOnPanel
<1>5. H!DropOnFreeArea(e) => T!DropOnFreeArea(e)
  BY SameMoves, SameWalks DEF H!DropOnFreeArea, T!DropOnFreeArea
<1>6. H!DropOnNode(e, p) => T!DropOnNode(e, p)
  BY SameMoves, SameWalks DEF H!DropOnNode, T!DropOnNode, H!Place, T!Place,
     H!isParent, T!isParent
<1>7. H!setParent(e, p) => T!setParent(e, p)
  BY SameMoves, SameWalks DEF H!setParent, T!setParent, H!Place, T!Place,
     H!isParent, T!isParent
<1>8. H!DestroyAlone(e) => T!DestroyAlone(e)
  BY SameMoves, SameWalks DEF H!DestroyAlone, T!DestroyAlone
<1> QED BY <1>1, <1>2, <1>3, <1>4, <1>5, <1>6, <1>7, <1>8

-----------------------------------------------------------------------------
(* The tree in memory and those in the files.                              *)

GoodFile(s) ==
    /\ s.has \subseteq s.valid /\ s.valid \subseteq s.used /\ s.used \subseteq Entities
    /\ T!Tree(s.node, s.has)

TreesInv ==
    /\ T!TreeInv
    /\ \A f \in Files : files[f].state = "scene" => GoodFile(files[f])

LEMMA BlankInv ==
    ASSUME has' = {}, valid' \subseteq used', used' \subseteq Entities,
           node' = [e \in Entities |-> H!Blank]
    PROVE  T!TreeInv'
<1>1. node' = [e \in Entities |-> T!Blank]
  BY SameWalks
<1>2. T!Tree(node', {})
  BY <1>1, TheAssumption, T!BlankTree
<1> QED BY <1>2 DEF T!TreeInv

LEMMA EndedTree ==
    ASSUME Ended
    PROVE  T!TreeInv'
  BY BlankInv DEF Ended

LEMMA LoadTree ==
    ASSUME TreesInv, NEW f \in Files, loadFrom(f)
    PROVE  T!TreeInv'
<1>1. CASE files[f].state = "scene"
  <2>1. GoodFile(files[f])
    BY <1>1 DEF TreesInv
  <2>2. /\ valid' = files[f].valid /\ used' = files[f].used
        /\ has' = files[f].has /\ node' = files[f].node
    BY <1>1 DEF loadFrom, Read
  <2> QED BY <2>1, <2>2 DEF GoodFile, T!TreeInv
<1>2. CASE files[f].state # "scene"
  BY <1>2, EndedTree DEF loadFrom
<1> QED BY <1>1, <1>2

(* The edits that are steps of Hierarchy.                                  *)
LEMMA EditTree ==
    ASSUME LeafDrops, LeafDestroys, T!TreeInv, T!Next
    PROVE  T!TreeInv'
  BY TheAssumption, T!NextKeepsTree

LEMMA PairSize ==
    ASSUME NEW a, NEW b
    PROVE  Cardinality({a, b}) <= 2
<1>1. {a, b} = {a} \union {b}
  OBVIOUS
<1>2. IsFiniteSet({a}) /\ Cardinality({a}) = 1
  BY FS_Singleton
<1>3. Cardinality({a} \union {b}) <= 2
  <2>1. CASE b \in {a}
    <3>1. {a} \union {b} = {a}
      BY <2>1
    <3> QED BY <3>1, <1>2
  <2>2. CASE b \notin {a}
    BY <1>2, <2>2, FS_AddElement
  <2> QED BY <2>1, <2>2
<1> QED BY <1>1, <1>3

LEMMA MeshesTree ==
    ASSUME T!TreeInv, NEW e \in Entities, NEW c \in Entities, NEW d \in Entities,
           openMeshes(e, c, d)
    PROVE  T!TreeInv'
<1>1. /\ {e, c, d} \intersect used = {}
      /\ valid' = valid \union {e, c, d} /\ used' = used \union {e, c, d}
      /\ node' = H!emplace(H!emplace(node, c, e), d, e)
      /\ has' = has \union {e, c, d}
      /\ Cardinality({e, c, d}) = 3
  BY DEF openMeshes, Flagged
<1>2. e # c /\ e # d /\ c # d
  <2> SUFFICES ASSUME e = c \/ e = d \/ c = d PROVE FALSE
    OBVIOUS
  <2>1. \/ {e, c, d} = {e, d} \/ {e, c, d} = {e, c}
    OBVIOUS
  <2>2. \A a, b \in Entities : Cardinality({a, b}) <= 2
    BY PairSize
  <2>3. Cardinality({e, c, d}) <= 2
    BY <2>1, <2>2
  <2> QED BY <1>1, <2>3
<1>3. /\ has \subseteq valid /\ valid \subseteq used /\ used \subseteq Entities
      /\ T!Tree(node, has)
  BY DEF T!TreeInv
<1> PICK m : m = T!emplace(node, c, e)
  OBVIOUS
<1>4. node' = T!emplace(m, d, e)
  BY <1>1, SameMoves
<1>5. T!Tree(m, has \union {c, e})
  BY <1>1, <1>2, <1>3, TheAssumption, T!EmplaceKeepsTree
<1>6. d \in Entities \ (has \union {c, e}) /\ e \in Entities \ {d}
  BY <1>1, <1>2, <1>3
<1>7. T!Tree(node', (has \union {c, e}) \union {d, e})
  BY <1>4, <1>5, <1>6, TheAssumption, T!EmplaceKeepsTree
<1>8. has' = (has \union {c, e}) \union {d, e}
  BY <1>1
<1> QED BY <1>1, <1>3, <1>7, <1>8 DEF T!TreeInv

LEMMA StepTree ==
    ASSUME LeafDrops, LeafDestroys, FileInv, TreesInv, Next
    PROVE  T!TreeInv'
<1>1. T!TreeInv
  BY DEF TreesInv
<1>2. CASE UNCHANGED registry
  BY <1>1, <1>2 DEF registry, T!TreeInv
<1>3. CASE Start
  <2>1. CASE files[Default] # Missing
    BY <1>3, <2>1, LoadTree, ScenesAssumption DEF Start
  <2>2. CASE files[Default] = Missing
    BY <1>3, <2>2, BlankInv DEF Start, FreshScene
  <2> QED BY <2>1, <2>2
<1>4. CASE Exit
  BY <1>4, EndedTree DEF Exit
<1>5. CASE Apply
  <2>1. pending \in Files /\ loadFrom(pending)
    BY <1>5 DEF Apply, FileInv
  <2> QED BY <2>1, LoadTree
<1>6. ASSUME NEW e \in Entities, createEntity(e) \/ openModel(e) PROVE T!TreeInv'
  <2>1. H!Create(e)
    BY <1>6 DEF createEntity, openModel, Flagged
  <2>2. T!Next
    BY <2>1, SameSteps DEF T!Next
  <2> QED BY <1>1, <2>2, EditTree
<1>7. ASSUME NEW e \in Entities, Delete(e) PROVE T!TreeInv'
  <2>1. H!destroyEntity(e)
    BY <1>7 DEF Delete, Silent
  <2>2. T!Next
    BY <2>1, SameSteps DEF T!Next
  <2> QED BY <1>1, <2>2, EditTree
<1>8. ASSUME NEW e \in Entities, Drop(e) PROVE T!TreeInv'
  <2>1. \/ H!DropOnPanel(e) \/ H!DropOnFreeArea(e)
        \/ \E p \in Entities : H!DropOnNode(e, p)
    BY <1>8 DEF Drop, Silent
  <2>2. T!Next
    BY <2>1, SameSteps DEF T!Next
  <2> QED BY <1>1, <2>2, EditTree
<1>9. ASSUME NEW e \in Entities, NEW p \in Entities, duplicateEntity(e, p) \/ AddChild(e, p)
      PROVE  T!TreeInv'
  <2>1. H!AddChild(e, p)
    BY <1>9 DEF duplicateEntity, AddChild, Flagged, Silent
  <2>2. T!Next
    BY <2>1, SameSteps DEF T!Next
  <2> QED BY <1>1, <2>2, EditTree
<1>10. ASSUME NEW e \in Entities, NEW c \in Entities, NEW d \in Entities, openMeshes(e, c, d)
       PROVE  T!TreeInv'
  BY <1>1, <1>10, MeshesTree
<1>11. CASE PlayOrStop \/ \E e \in Entities : setSelected(e)
  BY <1>2, <1>11 DEF PlayOrStop, setSelected
<1>12. ASSUME NEW f \in Files, saveTo(f) \/ DieInSave(f) \/ openFile(f) PROVE T!TreeInv'
  <2>1. UNCHANGED registry \/ Ended
    BY <1>12 DEF saveTo, DieInSave, openFile
  <2> QED BY <1>2, <2>1, EndedTree
<1>13. ASSUME NEW e \in Entities, Script(e) PROVE T!TreeInv'
  <2>1. \/ H!Create(e) \/ H!DestroyAlone(e)
        \/ \E p \in Entities : H!setParent(e, p)
    BY <1>13 DEF Script, Silent
  <2>2. T!Next
    BY <2>1, SameSteps DEF T!Next
  <2> QED BY <1>1, <2>2, EditTree
<1> QED BY <1>3, <1>4, <1>5, <1>6, <1>7, <1>8, <1>9, <1>10, <1>11, <1>12, <1>13 DEF Next

(* A save writes the tree in memory; nothing else writes a scene.          *)
LEMMA StepFiles ==
    ASSUME FileInv, TreesInv, Next, NEW f \in Files, files'[f].state = "scene"
    PROVE  GoodFile(files'[f])
<1>1. files[f].state = "scene" => GoodFile(files[f])
  BY DEF TreesInv
<1>2. CASE files' = files
  BY <1>1, <1>2
<1>3. CASE files'[f] = Snapshot
  BY <1>3 DEF Snapshot, GoodFile, TreesInv, T!TreeInv
<1>4. CASE files'[f] = Torn
  BY <1>4 DEF Torn
<1>5. ASSUME NEW g \in Files, saveTo(g) \/ DieInSave(g)
      PROVE  files'[f] \in {files[f], Snapshot, Torn}
  BY <1>5 DEF saveTo, DieInSave, FileInv
<1>6. \/ files' = files
      \/ \E g \in Files : saveTo(g) \/ DieInSave(g)
  BY DEF Next, Start, Exit, Apply, PlayOrStop, createEntity, openModel, Delete, Drop,
         Script, setSelected, duplicateEntity, AddChild, openMeshes, openFile, Flagged, Silent
<1> QED BY <1>1, <1>2, <1>3, <1>4, <1>5, <1>6

LEMMA InitTrees == Init => TreesInv
<1> SUFFICES ASSUME Init PROVE TreesInv
  OBVIOUS
<1>1. PICK c \in Entities :
        LET fresh == [state |-> "scene", valid |-> {c}, used |-> {c}, has |-> {},
                      node |-> [e \in Entities |-> H!Blank]]
        IN  /\ valid = {} /\ used = {} /\ has = {} /\ node = fresh.node
            /\ files \in [Files -> {Missing, fresh}]
  BY DEF Init
<1>2. node = [e \in Entities |-> T!Blank]
  BY <1>1, SameWalks
<1>3. T!Tree(node, {})
  BY <1>2, TheAssumption, T!BlankTree
<1>4. T!TreeInv
  BY <1>1, <1>3 DEF T!TreeInv
<1>5. ASSUME NEW f \in Files, files[f].state = "scene" PROVE GoodFile(files[f])
  <2>1. /\ files[f].valid = {c} /\ files[f].used = {c} /\ files[f].has = {}
        /\ files[f].node = node
    BY <1>1, <1>5 DEF Missing
  <2> QED BY <1>3, <2>1 DEF GoodFile
<1> QED BY <1>4, <1>5 DEF TreesInv

LEMMA TreesAlways == LeafDrops /\ LeafDestroys /\ Spec => [](FileInv /\ TreesInv)
<1> SUFFICES ASSUME LeafDrops, LeafDestroys PROVE Spec => [](FileInv /\ TreesInv)
  OBVIOUS
<1>1. Init => Inv /\ TreesInv
  BY InitTrees DEF Init, Inv, FileInv, DirtyTracksFile
<1>2. Inv /\ TreesInv /\ [Next]_vars => Inv' /\ TreesInv'
  <2> SUFFICES ASSUME Inv, TreesInv, [Next]_vars PROVE TreesInv'
    BY StepInv
  <2>1. CASE Next
    <3>1. FileInv
      BY DEF Inv
    <3>2. T!TreeInv'
      BY <2>1, <3>1, StepTree
    <3>3. \A f \in Files : files'[f].state = "scene" => GoodFile(files'[f])
      BY <2>1, <3>1, StepFiles
    <3> QED BY <3>2, <3>3 DEF TreesInv
  <2>2. CASE UNCHANGED vars
    BY <2>2 DEF vars, registry, TreesInv, T!TreeInv
  <2> QED BY <2>1, <2>2
<1>3. Inv => FileInv
  BY DEF Inv
<1> QED BY <1>1, <1>2, <1>3, PTL DEF Spec

(* The tree of the current scene is a tree, and so is the one in every     *)
(* file: saving, dying in a save, restarting and loading keep the links    *)
(* that the edits left, and a load needs no repair.                        *)
THEOREM TreesStayIntact == LeafDrops /\ LeafDestroys /\ Spec => []TreesIntact
<1>1. FileInv /\ TreesInv => TreesIntact
  <2> SUFFICES ASSUME TreesInv PROVE TreesIntact
    OBVIOUS
  <2>1. T!TreeInv /\ T!Tree(node, has) /\ valid \subseteq Entities
    BY DEF TreesInv, T!TreeInv
  <2>2. H!LinksAgree
    <3>1. T!LinksAgree
      BY <2>1, TheAssumption, T!TreeLinks
    <3> QED BY <3>1 DEF H!LinksAgree, T!LinksAgree
  <2>3. H!NoCycle
    <3>1. \A e \in Entities : e \notin T!Ancestors(node, e)
      BY <2>1, TheAssumption, T!TreeHasNoCycle
    <3> QED BY <2>1, <3>1, SameWalks DEF H!NoCycle
  <2>4. ASSUME NEW f \in Files, NEW s, s = files[f], s.state = "scene"
        PROVE  /\ s.has \subseteq s.valid
               /\ \A e \in s.has :
                     /\ s.node[e].parent # Null =>
                           e \in H!getChildren(s.node, s.node[e].parent)
                     /\ H!getChildren(s.node, e) \subseteq s.has
    <3>1. s.has \subseteq s.valid /\ s.has \subseteq Entities /\ T!Tree(s.node, s.has)
      BY <2>4 DEF TreesInv, GoodFile
    <3>2. \A p \in Entities : H!getChildren(s.node, p) = {y \in s.has : s.node[y].parent = p}
      BY <3>1, TheAssumption, T!ListHolds, SameWalks
    <3>3. \A e \in s.has : s.node[e].parent # Null => s.node[e].parent \in Entities
      BY <3>1 DEF T!Tree, T!Links
    <3> QED BY <3>1, <3>2, <3>3
  <2> QED BY <2>2, <2>3, <2>4 DEF TreesIntact
<1> QED BY <1>1, TreesAlways, PTL

(* A selected entity that is destroyed while it stays selected had         *)
(* something above it that was destroyed with it, or was destroyed alone,  *)
(* as Entity::destroy of a script does, or the scene was switched:         *)
(* Editor::selectedNode is never left dangling by a deletion of the        *)
(* selected entity and its children in the window, by a drop, by a change  *)
(* of its parent or by the end of the process.                             *)
THEOREM SelectionDanglesOnly == LeafDrops /\ LeafDestroys /\ Spec => SelectionDangles
<1> SUFFICES ASSUME LeafDrops, LeafDestroys PROVE Spec => SelectionDangles
  OBVIOUS
<1>1. TreesInv /\ [Next]_vars =>
        [(selected' = selected /\ selected \in valid \ valid') =>
           \/ pending # NoFile /\ pending' = NoFile
           \/ H!Ancestors(node, selected) \intersect (valid \ valid') # {}
           \/ valid' = valid \ {selected}]_vars
  <2> SUFFICES ASSUME TreesInv, Next, selected' = selected, selected \in valid \ valid'
               PROVE  \/ pending # NoFile /\ pending' = NoFile
                      \/ H!Ancestors(node, selected) \intersect (valid \ valid') # {}
                      \/ valid' = valid \ {selected}
    BY DEF vars
  <2>1. T!Tree(node, has) /\ valid \subseteq Entities
    BY DEF TreesInv, T!TreeInv
  <2>2. selected # Null /\ ~(valid \subseteq valid')
    BY <2>1, ScenesAssumption
  <2>3. CASE Apply
    BY <2>3 DEF Apply, loadFrom, Ended
  <2>4. ASSUME NEW e \in Entities, Delete(e)
        PROVE  H!Ancestors(node, selected) \intersect (valid \ valid') # {}
    <3>1. H!destroyEntity(e) /\ selected # e
      BY <2>2, <2>4 DEF Delete, Silent
    <3>2. e \in valid /\ valid' = valid \ T!Subtree(node, e)
      BY <3>1, SameWalks DEF H!destroyEntity
    <3>3. selected \in T!Subtree(node, e) \ {e} /\ e \in T!Subtree(node, e)
      BY <2>1, <3>1, <3>2, TheAssumption, T!SubtreeIsFamily
    <3>4. e \in T!Ancestors(node, selected)
      BY <2>1, <3>3, TheAssumption, T!SubtreeBelow
    <3> QED BY <3>2, <3>3, <3>4, SameWalks
  <2>5. CASE Start \/ Exit \/ PlayOrStop \/ (\E f \in Files : DieInSave(f))
    <3>1. selected' = Null
      BY <2>5 DEF Start, Exit, PlayOrStop, DieInSave, Ended
    <3> QED BY <2>2, <3>1
  <2>6. ASSUME NEW f \in Files, saveTo(f) \/ openFile(f) PROVE FALSE
    <3>1. selected' = Null \/ valid' = valid
      BY <2>6 DEF saveTo, openFile, Ended, registry
    <3> QED BY <2>2, <3>1
  <2>7. ASSUME NEW e \in Entities, createEntity(e) \/ openModel(e) \/ Drop(e) \/ setSelected(e)
        PROVE  FALSE
    <3>1. valid \subseteq valid'
      BY <2>7 DEF createEntity, openModel, Drop, setSelected, Flagged, Silent, registry,
         H!Create, H!DropOnPanel, H!DropOnFreeArea, H!DropOnNode, H!Place
    <3> QED BY <2>2, <3>1
  <2>8. ASSUME NEW e \in Entities, NEW p \in Entities, duplicateEntity(e, p) \/ AddChild(e, p)
        PROVE  FALSE
    <3>1. valid \subseteq valid'
      BY <2>8 DEF duplicateEntity, AddChild, Flagged, Silent, H!AddChild
    <3> QED BY <2>2, <3>1
  <2>9. ASSUME NEW e \in Entities, NEW c \in Entities, NEW d \in Entities, openMeshes(e, c, d)
        PROVE  FALSE
    <3>1. valid \subseteq valid'
      BY <2>9 DEF openMeshes, Flagged
    <3> QED BY <2>2, <3>1
  <2>10. ASSUME NEW e \in Entities, Script(e) PROVE valid' = valid \ {selected}
    <3>1. valid \subseteq valid' \/ valid' = valid \ {e}
      BY <2>10 DEF Script, Silent, H!Create, H!DestroyAlone, H!setParent, H!Place
    <3> QED BY <2>2, <3>1
  <2> QED BY <2>3, <2>4, <2>5, <2>6, <2>7, <2>8, <2>9, <2>10 DEF Next
<1> QED BY <1>1, TreesAlways, PTL DEF Spec, SelectionDangles
=============================================================================
