------------------------------ MODULE Hierarchy ------------------------------
(***************************************************************************)
(* The entity tree of a scene: the Hierarchy component                     *)
(* (Scene/Component/Component.cpp), Entity::setParent and Entity::destroy  *)
(* (Scene/Entity/Entity.cpp), the recursion of SceneGraph::update, and the *)
(* edits of the hierarchy window (Editor/src/HierarchyWindow.cpp).         *)
(*                                                                         *)
(* The children of an entity are a doubly linked list spread over the      *)
(* components: the parent knows the first child, every child its parent    *)
(* and its neighbours.  Both directions must agree after any sequence of   *)
(* edits.  A handle of entt carries a version, so a destroyed entity's     *)
(* handle never becomes valid again.                                       *)
(***************************************************************************)
EXTENDS Naturals, FiniteSets

CONSTANTS
    Entities,       \* entity handles
    Null,           \* entt::null
    LeafDrops,      \* are only childless entities dropped on the free area
    LeafDestroys    \* are only childless entities destroyed by scripts

ASSUME HierarchyAssumption ==
    /\ IsFiniteSet(Entities) /\ Null \notin Entities
    /\ LeafDrops \in BOOLEAN /\ LeafDestroys \in BOOLEAN

VARIABLES
    valid,          \* registry.valid
    used,           \* handles handed out so far
    has,            \* entities with a Hierarchy component
    node            \* node[e] : the component of e, Blank without one

vars == <<valid, used, has, node>>

Handles == Entities \union {Null}
Blank   == [parent |-> Null, first |-> Null, next |-> Null, prev |-> Null]

Init ==
    /\ valid = {} /\ used = {} /\ has = {}
    /\ node = [e \in Entities |-> Blank]

-----------------------------------------------------------------------------
(* Walks along the links.  A loop or a recursion over them visits the      *)
(* smallest set that has its starting points and that no step leaves.      *)

Reach(step, from) ==
    LET closed == {S \in SUBSET Entities : from \subseteq S /\ \A y \in S : step[y] \subseteq S}
    IN  {x \in Entities : \A S \in closed : x \in S}

(* e, its next sibling, and so on: the loop of getChildren.                *)
Siblings(n, e) == Reach([x \in Entities |-> {n[x].next} \ {Null}], {e} \ {Null})

getChildren(n, e) == Siblings(n, n[e].first)

(* Everything the loop of isParent visits, starting above e.               *)
Ancestors(n, e) ==
    Reach([x \in Entities |-> {n[x].parent} \ {Null}], {n[e].parent} \ {Null})

isParent(e, potentialParent) == potentialParent \in Ancestors(node, e)

(* What a recursion over the children reaches from e: updateTransform and  *)
(* destroyEntity.  Each call goes down to the first child and along the    *)
(* children; the siblings of e itself are not among them.                  *)
Subtree(n, e) ==
    {e} \union Reach([x \in Entities |-> {n[x].first, n[x].next} \ {Null}],
                     {n[e].first} \ {Null})

(* SceneGraph::update: the entities whose world matrix it sets, when the   *)
(* entities in transform have a Transform.  Without a Hierarchy it is the  *)
(* identity; otherwise a recursion starts at every root that has both      *)
(* components, goes down through children of either kind, and sets a       *)
(* child's matrix from its parent's where both have a Transform.           *)
update(transform) ==
    LET roots   == {r \in has \intersect transform : node[r].parent = Null}
        reached == UNION {Subtree(node, r) : r \in roots}
    IN  (transform \ has)
            \union {e \in transform \intersect reached :
                        node[e].parent = Null \/ node[e].parent \in transform}

-----------------------------------------------------------------------------
(* Hierarchy::onDestroy: take e out of its parent's list.                  *)

(* Mutant: the first child's neighbour keeps its link back. *)
onDestroyKeepsPrev(n, e) ==
    LET front == n[e].prev \notin valid
    IN  [x \in Entities |->
            [n[x] EXCEPT
                !.first = IF front /\ x = n[e].parent THEN n[e].next ELSE @,
                !.next  = IF ~front /\ x = n[e].prev THEN n[e].next ELSE @,
                !.prev  = IF ~front /\ x = n[e].next THEN n[e].prev ELSE @]]

onDestroy(n, e) ==
    LET front == n[e].prev \notin valid
    IN  [x \in Entities |->
            IF x \notin has THEN n[x] ELSE
            [n[x] EXCEPT
                !.first = IF front /\ x = n[e].parent THEN n[e].next ELSE @,
                !.next  = IF ~front /\ x = n[e].prev THEN n[e].next ELSE @,
                !.prev  = IF x = n[e].next /\ (front => n[e].parent \in has)
                          THEN IF front THEN Null ELSE n[e].prev
                          ELSE @]]

(* Mutant: the new child is put in front of the list. *)
onConstructInFront(n, e) ==
    LET p == n[e].parent
    IN  [x \in Entities |->
            [n[x] EXCEPT
                !.first = IF x = p THEN e ELSE @,
                !.next  = IF x = e THEN n[p].first ELSE @,
                !.prev  = IF x = n[p].first THEN e ELSE @]]

(* Hierarchy::onConstruct: append e to the list of its parent, which gets  *)
(* a component of its own if it has none.  The loop over the list ends at  *)
(* the child without a next one.                                           *)
onConstruct(n, e) ==
    LET p    == n[e].parent
        list == getChildren(n, p)
        last == CHOOSE y \in list : n[y].next = Null
    IN  [x \in Entities |->
            [n[x] EXCEPT
                !.first = IF x = p /\ list = {} THEN e ELSE @,
                !.next  = IF list # {} /\ x = last THEN e ELSE @,
                !.prev  = IF list # {} /\ x = e THEN last ELSE @]]

(* The component of e loses its place; its own children stay.              *)
Unplaced(n, e, p) == [n EXCEPT ![e] = [@ EXCEPT !.parent = p, !.next = Null, !.prev = Null]]

(* Hierarchy::reparent to null, and to p.                                  *)
Detach(n, e)      == Unplaced(onDestroy(n, e), e, Null)
reparent(n, e, p) == onConstruct(Unplaced(onDestroy(n, e), e, p), e)

(* registry.emplace<Hierarchy>(e, p), with the on_construct signal.        *)
emplace(n, e, p) == onConstruct([n EXCEPT ![e] = [Blank EXCEPT !.parent = p]], e)

(* e becomes a child of p, through whichever of the two applies.           *)
Place(e, p) ==
    /\ node' = IF e \in has THEN reparent(node, e, p) ELSE emplace(node, e, p)
    /\ has' = has \union {e, p}
    /\ UNCHANGED <<valid, used>>

-----------------------------------------------------------------------------
(* EntityManager::create.                                                  *)
Create(e) ==
    /\ e \notin used
    /\ valid' = valid \union {e} /\ used' = used \union {e}
    /\ UNCHANGED <<has, node>>

(* Scene::duplicateEntity with a parent, and "Add Child" of the window:    *)
(* create and setParent in one go.                                         *)
AddChild(e, p) ==
    /\ e \notin used /\ p \in valid
    /\ valid' = valid \union {e} /\ used' = used \union {e}
    /\ node' = emplace(node, e, p)
    /\ has' = has \union {e, p}

(* Mutant: a child may be moved below itself. *)
setParentAnywhere(e, p) ==
    /\ e \in valid /\ p \in valid /\ p # e
    /\ Place(e, p)

(* Entity::setParent.  Its third condition compares e's parent with e      *)
(* itself, so moving e to the parent it already has is accepted, and makes *)
(* it the last child.                                                      *)
setParent(e, p) ==
    /\ e \in valid /\ p \in valid
    /\ p # e
    /\ e \in has => ~isParent(p, e) /\ node[e].parent # e
    /\ Place(e, p)

(* The window's drop of e on p: here e's own parent is refused.            *)
DropOnNode(e, p) ==
    /\ e \in valid /\ p \in valid
    /\ p # e
    /\ e \in has => ~isParent(p, e) /\ node[e].parent # p
    /\ Place(e, p)

(* A drop above the list: e becomes a root and keeps its component.        *)
DropOnPanel(e) ==
    /\ e \in has
    /\ node' = Detach(node, e)
    /\ UNCHANGED <<valid, used, has>>

(* A drop on the free area below the list: the component of e, and with it *)
(* the link to its children, is removed as well.                           *)
DropOnFreeArea(e) ==
    /\ e \in has /\ node[e].parent # Null
    /\ LeafDrops => node[e].first = Null
    /\ node' = [Detach(node, e) EXCEPT ![e] = Blank]
    /\ has' = has \ {e}
    /\ UNCHANGED <<valid, used>>

(* Mutant: an entity is destroyed with its children, not their children. *)
destroyChildren(e) ==
    LET gone == {e} \union getChildren(node, e)
    IN  /\ e \in valid
        /\ node' = [x \in Entities |-> IF x \in gone THEN Blank ELSE onDestroy(node, e)[x]]
        /\ valid' = valid \ gone /\ has' = has \ gone
        /\ UNCHANGED used

(* "Delete" of the window: e and everything below it.                      *)
destroyEntity(e) ==
    LET gone == Subtree(node, e)
    IN  /\ e \in valid
        /\ node' = [x \in Entities |-> IF x \in gone THEN Blank ELSE onDestroy(node, e)[x]]
        /\ valid' = valid \ gone /\ has' = has \ gone
        /\ UNCHANGED used

(* Mutant: the component outlives its entity. *)
DestroyAloneLeaks(e) ==
    /\ e \in valid
    /\ LeafDestroys => node[e].first = Null
    /\ node' = [onDestroy(node, e) EXCEPT ![e] = Blank]
    /\ valid' = valid \ {e}
    /\ UNCHANGED <<used, has>>

(* Entity::destroy, which scripts call: e alone.                           *)
DestroyAlone(e) ==
    /\ e \in valid
    /\ LeafDestroys => node[e].first = Null
    /\ node' = [onDestroy(node, e) EXCEPT ![e] = Blank]
    /\ valid' = valid \ {e} /\ has' = has \ {e}
    /\ UNCHANGED used

Next ==
    \/ \E e \in Entities : \/ Create(e) \/ DropOnPanel(e) \/ DropOnFreeArea(e)
                           \/ destroyEntity(e) \/ DestroyAlone(e)
    \/ \E e, p \in Entities : AddChild(e, p) \/ setParent(e, p) \/ DropOnNode(e, p)

Spec == Init /\ [][Next]_vars

-----------------------------------------------------------------------------
(* Properties.                                                             *)

TypeOK ==
    /\ has \subseteq valid /\ valid \subseteq used /\ used \subseteq Entities
    /\ node \in [Entities -> [parent : Handles, first : Handles, next : Handles, prev : Handles]]
    /\ \A e \in Entities \ has : node[e] = Blank

(* Both directions of every link agree: a child is its parent's first or   *)
(* its previous sibling's next, neighbours share a parent, a root has no   *)
(* siblings and a first child no previous one.                             *)
LinksAgree ==
    \A e \in has :
        LET x == node[e]
        IN  /\ x.parent = Null => x.next = Null /\ x.prev = Null
            /\ x.parent # Null => /\ x.parent \in has
                                  /\ x.prev = Null => node[x.parent].first = e
            /\ x.prev # Null => x.prev \in has /\ node[x.prev].next = e
            /\ x.next # Null => /\ x.next \in has /\ node[x.next].prev = e
                                /\ node[x.next].parent = x.parent
            /\ x.first # Null => /\ x.first \in has /\ node[x.first].parent = e
                                 /\ node[x.first].prev = Null

(* No entity is its own ancestor: every loop of isParent and every         *)
(* recursion over children ends.                                           *)
NoCycle == \A e \in valid : e \notin Ancestors(node, e)

(* Whatever entities have a Transform (scripts and the properties window   *)
(* add and remove it at any time, and an empty entity has none), the       *)
(* update sets the world matrix of an entity that has one exactly when the *)
(* root above it and its parent have one too: no child is missing from its *)
(* parent's list, and no edit closes a loop of entities that has no root   *)
(* or cuts a subtree off.                                                  *)
EveryChildUpdated ==
    \A transform \in SUBSET valid : \A e \in transform :
        e \in update(transform) <=>
            \A a \in Ancestors(node, e) :
                node[a].parent = Null \/ a = node[e].parent => a \in transform

(* An edit other than a deletion moves at most one entity: all other       *)
(* entities keep their parent, all other children their order, and the     *)
(* moved one, if it has a parent, is now the last child there.             *)
MoveAppends ==
    [][valid \subseteq valid' =>
         \E e \in Entities :
            /\ \A q \in valid \ {e} : node'[q].parent = node[q].parent
            /\ \A p \in valid :
                  LET old == getChildren(node, p)
                      new == getChildren(node', p)
                  IN  /\ new \ {e} = old \ {e}
                      /\ e \in new => Siblings(node', e) = {e}
                      /\ \A x \in old \ {e} :
                            Siblings(node', x) \ {e} = Siblings(node, x) \ {e}]_vars

(* A deletion destroys whole subtrees: whatever is left has a parent that  *)
(* is left, and the survivors keep theirs.                                 *)
DeletionsAreWhole ==
    [][\A e \in valid' : valid' \subseteq valid /\ valid' # valid =>
            /\ node'[e].parent = node[e].parent
            /\ node[e].parent # Null => node[e].parent \in valid']_vars
=============================================================================
