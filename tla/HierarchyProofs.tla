--------------------------- MODULE HierarchyProofs ---------------------------
(***************************************************************************)
(* Proofs about Hierarchy: the links of the entity tree agree and describe *)
(* a forest after every edit, whatever the number of entities.             *)
(*                                                                         *)
(* An edit is proved in two halves that mirror the code.  Cut describes    *)
(* what Hierarchy::onDestroy leaves, Appended what Hierarchy::onConstruct  *)
(* adds; each half keeps Tree, and so does the removal of a whole family.  *)
(* That no walk along a link turns in a circle is stated without counting: *)
(* every non-empty set of entities has a member whose link leaves the set. *)
(***************************************************************************)
EXTENDS Hierarchy, TLAPS

Nodes == [Entities -> [parent : Handles, first : Handles, next : Handles, prev : Handles]]

-----------------------------------------------------------------------------
(* The inductive invariant.                                                *)

Grounded(g) == \A T \in SUBSET Entities : T # {} => \E x \in T : g[x] \notin T

ParentsEnd(n) == Grounded([x \in Entities |-> n[x].parent])
NextsEnd(n)   == Grounded([x \in Entities |-> n[x].next])
PrevsEnd(n)   == Grounded([x \in Entities |-> n[x].prev])

(* The registry's components and nothing else are in use.                  *)
Shape(n, h) ==
    /\ n \in Nodes /\ h \subseteq Entities
    /\ \A e \in Entities \ h : n[e] = Blank

(* LinksAgree, of any components.                                          *)
Links(n, h) ==
    \A e \in h :
        /\ n[e].parent = Null => n[e].next = Null /\ n[e].prev = Null
        /\ n[e].parent # Null => /\ n[e].parent \in h
                                 /\ n[e].prev = Null => n[n[e].parent].first = e
        /\ n[e].prev # Null => n[e].prev \in h /\ n[n[e].prev].next = e
        /\ n[e].next # Null => /\ n[e].next \in h /\ n[n[e].next].prev = e
                               /\ n[n[e].next].parent = n[e].parent
        /\ n[e].first # Null => /\ n[e].first \in h /\ n[n[e].first].parent = e
                                /\ n[n[e].first].prev = Null

Tree(n, h) == Shape(n, h) /\ Links(n, h) /\ ParentsEnd(n) /\ NextsEnd(n) /\ PrevsEnd(n)

TreeInv ==
    /\ has \subseteq valid /\ valid \subseteq used /\ used \subseteq Entities
    /\ Tree(node, has)

-----------------------------------------------------------------------------
(* What a walk visits: its start, whatever a step leads to, nothing else.  *)

LEMMA ReachLeast ==
    ASSUME NEW step, NEW from, NEW S \in SUBSET Entities,
           from \subseteq S, \A y \in S : step[y] \subseteq S
    PROVE  Reach(step, from) \subseteq S
  BY DEF Reach

LEMMA ReachClosed ==
    ASSUME NEW step, NEW from \in SUBSET Entities,
           \A y \in Entities : step[y] \subseteq Entities
    PROVE  /\ Reach(step, from) \subseteq Entities
           /\ from \subseteq Reach(step, from)
           /\ \A y \in Reach(step, from) : step[y] \subseteq Reach(step, from)
  BY DEF Reach

LEMMA NodeType ==
    ASSUME NEW n \in Nodes, NEW x \in Entities
    PROVE  /\ n[x].parent \in Handles /\ n[x].first \in Handles
           /\ n[x].next \in Handles /\ n[x].prev \in Handles
  BY DEF Nodes

(* The fields of a component that changes its place.                       *)
LEMMA NodeUpdate ==
    ASSUME NEW r \in [parent : Handles, first : Handles, next : Handles, prev : Handles],
           NEW a, NEW b, NEW c
    PROVE  [r EXCEPT !.first = a, !.next = b, !.prev = c]
             = [parent |-> r.parent, first |-> a, next |-> b, prev |-> c]
<1>1. [r EXCEPT !.first = a, !.next = b, !.prev = c]
        = [[[r EXCEPT !.first = a] EXCEPT !.next = b] EXCEPT !.prev = c]
  OBVIOUS
<1>2. [r EXCEPT !.first = a] = [parent |-> r.parent, first |-> a, next |-> r.next, prev |-> r.prev]
  OBVIOUS
<1>3. ASSUME NEW q, q = [parent |-> r.parent, first |-> a, next |-> r.next, prev |-> r.prev]
      PROVE  [q EXCEPT !.next = b] = [parent |-> r.parent, first |-> a, next |-> b, prev |-> r.prev]
  BY <1>3
<1>4. ASSUME NEW q, q = [parent |-> r.parent, first |-> a, next |-> b, prev |-> r.prev]
      PROVE  [q EXCEPT !.prev = c] = [parent |-> r.parent, first |-> a, next |-> b, prev |-> c]
  BY <1>4
<1> QED BY <1>1, <1>2, <1>3, <1>4, Zenon

(* The loop of getChildren.                                                *)
LEMMA SiblingsClosed ==
    ASSUME NEW n \in Nodes, NEW a \in Handles
    PROVE  /\ Siblings(n, a) \subseteq Entities
           /\ a # Null => a \in Siblings(n, a)
           /\ \A y \in Siblings(n, a) : n[y].next # Null => n[y].next \in Siblings(n, a)
<1> DEFINE step == [x \in Entities |-> {n[x].next} \ {Null}]
           from == {a} \ {Null}
<1>1. from \in SUBSET Entities
  BY DEF Handles
<1>2. \A y \in Entities : step[y] = {n[y].next} \ {Null} /\ step[y] \subseteq Entities
  BY NodeType DEF Handles
<1>3. Siblings(n, a) = Reach(step, from)
  BY DEF Siblings
<1> HIDE DEF step
<1> QED BY <1>1, <1>2, <1>3, ReachClosed

LEMMA SiblingsLeast ==
    ASSUME NEW n, NEW a, NEW S \in SUBSET Entities, a # Null => a \in S,
           \A y \in S : n[y].next # Null => n[y].next \in S
    PROVE  Siblings(n, a) \subseteq S
<1> DEFINE step == [x \in Entities |-> {n[x].next} \ {Null}]
           from == {a} \ {Null}
<1>1. from \subseteq S /\ \A y \in S : step[y] \subseteq S
  OBVIOUS
<1>2. Siblings(n, a) = Reach(step, from)
  BY DEF Siblings
<1> HIDE DEF step, from
<1> QED BY <1>1, <1>2, ReachLeast

(* The loop of isParent.                                                   *)
LEMMA AncestorsClosed ==
    ASSUME NEW n \in Nodes, NEW e \in Entities
    PROVE  /\ Ancestors(n, e) \subseteq Entities
           /\ n[e].parent # Null => n[e].parent \in Ancestors(n, e)
           /\ \A y \in Ancestors(n, e) : n[y].parent # Null => n[y].parent \in Ancestors(n, e)
<1> DEFINE step == [x \in Entities |-> {n[x].parent} \ {Null}]
           from == {n[e].parent} \ {Null}
<1>1. from \in SUBSET Entities
  BY NodeType DEF Handles
<1>2. \A y \in Entities : step[y] = {n[y].parent} \ {Null} /\ step[y] \subseteq Entities
  BY NodeType DEF Handles
<1>3. Ancestors(n, e) = Reach(step, from)
  BY DEF Ancestors
<1> HIDE DEF step
<1> QED BY <1>1, <1>2, <1>3, ReachClosed

LEMMA AncestorsLeast ==
    ASSUME NEW n, NEW e, NEW S \in SUBSET Entities, n[e].parent # Null => n[e].parent \in S,
           \A y \in S : n[y].parent # Null => n[y].parent \in S
    PROVE  Ancestors(n, e) \subseteq S
<1> DEFINE step == [x \in Entities |-> {n[x].parent} \ {Null}]
           from == {n[e].parent} \ {Null}
<1>1. from \subseteq S /\ \A y \in S : step[y] \subseteq S
  OBVIOUS
<1>2. Ancestors(n, e) = Reach(step, from)
  BY DEF Ancestors
<1> HIDE DEF step, from
<1> QED BY <1>1, <1>2, ReachLeast

(* The recursion over the children of e.                                   *)
LEMMA SubtreeWalk ==
    ASSUME NEW n \in Nodes, NEW e \in Entities
    PROVE  \E D \in SUBSET Entities :
              /\ Subtree(n, e) = {e} \union D
              /\ n[e].first # Null => n[e].first \in D
              /\ \A y \in D : /\ n[y].first # Null => n[y].first \in D
                              /\ n[y].next # Null => n[y].next \in D
              /\ \A S \in SUBSET Entities :
                    /\ n[e].first # Null => n[e].first \in S
                    /\ \A y \in S : /\ n[y].first # Null => n[y].first \in S
                                    /\ n[y].next # Null => n[y].next \in S
                    => D \subseteq S
<1> DEFINE step == [x \in Entities |-> {n[x].first, n[x].next} \ {Null}]
           from == {n[e].first} \ {Null}
           D == Reach(step, from)
<1>1. from \in SUBSET Entities
  BY NodeType DEF Handles
<1>2. \A y \in Entities : step[y] = {n[y].first, n[y].next} \ {Null} /\ step[y] \subseteq Entities
  BY NodeType DEF Handles
<1>3. Subtree(n, e) = {e} \union D
  BY DEF Subtree
<1> HIDE DEF step
<1>4. /\ D \subseteq Entities
      /\ from \subseteq D
      /\ \A y \in D : step[y] \subseteq D
  BY <1>1, <1>2, ReachClosed
<1>5. ASSUME NEW S \in SUBSET Entities,
             n[e].first # Null => n[e].first \in S,
             \A y \in S : /\ n[y].first # Null => n[y].first \in S
                          /\ n[y].next # Null => n[y].next \in S
      PROVE  D \subseteq S
  <2>1. from \subseteq S /\ \A y \in S : step[y] \subseteq S
    BY <1>2, <1>5
  <2> HIDE DEF from
  <2> QED BY <2>1, ReachLeast
<1>6. \A y \in D : /\ n[y].first # Null => n[y].first \in D
                   /\ n[y].next # Null => n[y].next \in D
  BY <1>2, <1>4
<1> HIDE DEF D
<1>7. n[e].first # Null => n[e].first \in D
  BY <1>4
<1> HIDE DEF from
<1>8. D \in SUBSET Entities
  BY <1>4
<1> QED BY <1>3, <1>5, <1>6, <1>7, <1>8

-----------------------------------------------------------------------------
(* Grounded links: what the edits of a list or of a parent keep.           *)

LEMMA GroundedNot ==
    ASSUME NEW g, Grounded(g), NEW x \in Entities
    PROVE  g[x] # x
<1>1. {x} \in SUBSET Entities /\ {x} # {}
  OBVIOUS
<1> QED BY <1>1 DEF Grounded

(* Some links are set to null, the others stay.                            *)
LEMMA GroundedFewer ==
    ASSUME NEW g, NEW f, Grounded(g), \A x \in Entities : f[x] \in {g[x], Null}
    PROVE  Grounded(f)
<1> SUFFICES ASSUME NEW T \in SUBSET Entities, T # {}
             PROVE  \E x \in T : f[x] \notin T
  BY DEF Grounded
<1>1. PICK x \in T : g[x] \notin T
  BY DEF Grounded
<1>2. Null \notin T
  BY HierarchyAssumption
<1> QED BY <1>1, <1>2

(* e is taken out: who led to e now leads to where e led.                  *)
LEMMA GroundedBypass ==
    ASSUME NEW g, NEW f, NEW e \in Entities, Grounded(g), f[e] = Null,
           \A x \in Entities \ {e} : f[x] = IF g[x] = e THEN g[e] ELSE g[x]
    PROVE  Grounded(f)
<1> SUFFICES ASSUME NEW T \in SUBSET Entities, T # {}
             PROVE  \E x \in T : f[x] \notin T
  BY DEF Grounded
<1>1. CASE e \in T
  BY <1>1, HierarchyAssumption
<1>2. CASE e \notin T
  <2>1. PICK x \in T : g[x] \notin T
    BY DEF Grounded
  <2>2. CASE g[x] # e \/ g[e] \notin T
    BY <1>2, <2>1, <2>2
  <2>3. CASE g[x] = e /\ g[e] \in T
    <3>1. T \union {e} \in SUBSET Entities /\ T \union {e} # {}
      OBVIOUS
    <3>2. PICK z \in T \union {e} : g[z] \notin T \union {e}
      BY <3>1 DEF Grounded
    <3> QED BY <1>2, <2>3, <3>2
  <2> QED BY <2>2, <2>3
<1> QED BY <1>1, <1>2

(* e gets the link v, and no walk from v comes back to e.                  *)
LEMMA GroundedUpdate ==
    ASSUME NEW g, NEW f, NEW e \in Entities, Grounded(g),
           \A x \in Entities \ {e} : f[x] = g[x],
           NEW A \in SUBSET Entities, e \notin A, f[e] \in A,
           \A x \in A : g[x] # Null => g[x] \in A
    PROVE  Grounded(f)
<1> SUFFICES ASSUME NEW T \in SUBSET Entities, T # {}, \A x \in T : f[x] \in T
             PROVE  FALSE
  BY DEF Grounded
<1>1. PICK x \in T : g[x] \notin T
  BY DEF Grounded
<1>2. e \in T
  BY <1>1
<1>3. T \intersect A \in SUBSET Entities /\ T \intersect A # {}
  BY <1>2
<1>4. PICK y \in T \intersect A : g[y] \notin T \intersect A
  BY <1>3 DEF Grounded
<1>5. g[y] = f[y] /\ f[y] \in T
  BY <1>4
<1>6. Null \notin T
  BY HierarchyAssumption
<1> QED BY <1>4, <1>5, <1>6

(* No entity is linked to itself.                                          *)
LEMMA NoSelfLink ==
    ASSUME NEW n, ParentsEnd(n), NextsEnd(n), PrevsEnd(n), NEW x \in Entities
    PROVE  n[x].parent # x /\ n[x].next # x /\ n[x].prev # x
<1> DEFINE a == [y \in Entities |-> n[y].parent]
           b == [y \in Entities |-> n[y].next]
           c == [y \in Entities |-> n[y].prev]
<1>1. a[x] = n[x].parent /\ b[x] = n[x].next /\ c[x] = n[x].prev
  OBVIOUS
<1>2. Grounded(a) /\ Grounded(b) /\ Grounded(c)
  BY DEF ParentsEnd, NextsEnd, PrevsEnd
<1> HIDE DEF a, b, c
<1> QED BY <1>1, <1>2, GroundedNot

-----------------------------------------------------------------------------
(* The children that the list of p holds are those that name p as parent.  *)

LEMMA ListHolds ==
    ASSUME NEW n, NEW h, Tree(n, h), NEW p \in Entities
    PROVE  getChildren(n, p) = {y \in h : n[y].parent = p}
<1> DEFINE C == getChildren(n, p)
           S == {y \in h : n[y].parent = p}
<1>1. n \in Nodes /\ h \subseteq Entities /\ \A e \in Entities \ h : n[e] = Blank
  BY DEF Tree, Shape
<1>2. Links(n, h)
  BY DEF Tree
<1>3. n[p].first \in Handles /\ p # Null
  BY <1>1, NodeType, HierarchyAssumption
<1>4. n[p].first # Null => n[p].first \in S
  BY <1>1, <1>2 DEF Links, Blank
<1>5. \A y \in S : n[y].next # Null => n[y].next \in S
  BY <1>2 DEF Links
<1>6. C \subseteq S
  <2>1. S \in SUBSET Entities
    BY <1>1
  <2> HIDE DEF S
  <2> QED BY <2>1, <1>4, <1>5, SiblingsLeast DEF getChildren
<1>7. /\ n[p].first # Null => n[p].first \in C
      /\ \A y \in C : n[y].next # Null => n[y].next \in C
  BY <1>1, <1>3, SiblingsClosed DEF getChildren
<1> HIDE DEF C
<1>8. S \subseteq C
  <2> SUFFICES ASSUME S \ C # {} PROVE FALSE
    OBVIOUS
  <2> DEFINE g == [x \in Entities |-> n[x].prev]
  <2>1. Grounded(g)
    BY DEF Tree, PrevsEnd
  <2>2. \A x \in Entities : g[x] = n[x].prev
    OBVIOUS
  <2> HIDE DEF g
  <2>3. S \ C \in SUBSET Entities
    BY <1>1
  <2>4. PICK x \in S \ C : n[x].prev \notin S \ C
    BY <2>1, <2>2, <2>3 DEF Grounded
  <2>5. n[x].parent = p /\ x \in h /\ x \notin C
    BY <2>4
  <2>6. CASE n[x].prev = Null
    BY <1>1, <1>2, <1>3, <1>7, <2>5, <2>6, HierarchyAssumption DEF Links
  <2>7. CASE n[x].prev # Null
    <3>1. n[x].prev \in h /\ n[n[x].prev].next = x
      BY <1>2, <2>5, <2>7 DEF Links
    <3>2. n[n[x].prev].parent = p
      BY <1>2, <2>5, <3>1, <1>1, HierarchyAssumption DEF Links
    <3>3. n[x].prev \in C
      BY <2>4, <3>1, <3>2
    <3> QED BY <1>7, <3>3, <3>1, <2>5, <1>1, HierarchyAssumption
  <2> QED BY <2>6, <2>7
<1> QED BY <1>6, <1>8 DEF C

(* Nothing refers to an entity without a component.                        *)
LEMMA NoStrayLink ==
    ASSUME NEW n, NEW h, Tree(n, h), NEW e \in Entities \ h, NEW x \in Entities
    PROVE  n[x].parent # e /\ n[x].first # e /\ n[x].next # e /\ n[x].prev # e
<1>1. Links(n, h) /\ Shape(n, h) /\ e # Null
  BY HierarchyAssumption DEF Tree
<1>2. CASE x \in h
  BY <1>1, <1>2 DEF Links
<1>3. CASE x \notin h
  BY <1>1, <1>3 DEF Shape, Blank
<1> QED BY <1>2, <1>3

-----------------------------------------------------------------------------
(* The first half of an edit: e has left its list, which closes behind it. *)

Cut(n, m, e) ==
    /\ m \in Nodes
    /\ m[e].parent = Null /\ m[e].next = Null /\ m[e].prev = Null
    /\ m[e].first = n[e].first
    /\ \A x \in Entities \ {e} :
          /\ m[x].parent = n[x].parent
          /\ m[x].first = IF n[x].first = e THEN n[e].next ELSE n[x].first
          /\ m[x].next = IF n[x].next = e THEN n[e].next ELSE n[x].next
          /\ m[x].prev = IF n[x].prev = e THEN n[e].prev ELSE n[x].prev

LEMMA CutNothing ==
    ASSUME NEW n, NEW h, Tree(n, h), NEW e \in Entities \ h
    PROVE  Cut(n, n, e)
<1>1. n \in Nodes /\ n[e] = Blank
  BY DEF Tree, Shape
<1>2. \A x \in Entities : n[x].first # e /\ n[x].next # e /\ n[x].prev # e
  BY NoStrayLink
<1> QED BY <1>1, <1>2 DEF Cut, Blank

(* Hierarchy::onDestroy.                                                   *)
LEMMA OnDestroyLinks ==
    ASSUME TreeInv, NEW e \in Entities, NEW m, m = onDestroy(node, e)
    PROVE  /\ m \in Nodes
           /\ m[e].first = node[e].first
           /\ \A x \in Entities \ {e} :
                 /\ m[x].parent = node[x].parent
                 /\ m[x].first = IF node[x].first = e THEN node[e].next ELSE node[x].first
                 /\ m[x].next = IF node[x].next = e THEN node[e].next ELSE node[x].next
                 /\ m[x].prev = IF node[x].prev = e THEN node[e].prev ELSE node[x].prev
<1> DEFINE front == node[e].prev \notin valid
<1>1. /\ has \subseteq valid /\ valid \subseteq Entities /\ Null \notin valid
      /\ node \in Nodes /\ Links(node, has)
      /\ \A x \in Entities \ has : node[x] = Blank
  BY HierarchyAssumption DEF TreeInv, Tree, Shape
<1>2. \A x \in Entities : node[x].parent # x /\ node[x].next # x /\ node[x].prev # x
  BY NoSelfLink DEF TreeInv, Tree
<1>3. /\ node[e].parent \in Handles /\ node[e].first \in Handles
      /\ node[e].next \in Handles /\ node[e].prev \in Handles
  BY <1>1, NodeType
<1>4. front <=> node[e].prev = Null
  BY <1>1 DEF Links, Blank
<1> HIDE DEF front
<1> DEFINE first(x) == IF front /\ x = node[e].parent THEN node[e].next ELSE node[x].first
           next(x)  == IF ~front /\ x = node[e].prev THEN node[e].next ELSE node[x].next
           prev(x)  == IF x = node[e].next /\ (front => node[e].parent \in has)
                       THEN IF front THEN Null ELSE node[e].prev
                       ELSE node[x].prev
           rec(x)   == IF x \notin has THEN node[x]
                       ELSE [parent |-> node[x].parent, first |-> first(x),
                             next |-> next(x), prev |-> prev(x)]
<1>5. m = [x \in Entities |-> rec(x)]
  <2>1. \A x \in Entities : node[x] \in [parent : Handles, first : Handles, next : Handles, prev : Handles]
    BY <1>1 DEF Nodes
  <2>2. \A x \in Entities :
           [node[x] EXCEPT !.first = first(x), !.next = next(x), !.prev = prev(x)]
             = [parent |-> node[x].parent, first |-> first(x), next |-> next(x), prev |-> prev(x)]
    <3> HIDE DEF first, next, prev
    <3> QED BY <2>1, NodeUpdate
  <2>3. m = [x \in Entities |-> IF x \notin has THEN node[x]
                ELSE [node[x] EXCEPT !.first = first(x), !.next = next(x), !.prev = prev(x)]]
    BY DEF onDestroy, front
  <2> HIDE DEF first, next, prev
  <2> QED BY <2>2, <2>3
<1>6. ASSUME NEW x \in Entities, x \notin has
      PROVE  /\ m[x] = Blank
             /\ node[x] = Blank
  BY <1>1, <1>5, <1>6
<1>7. ASSUME NEW x \in has
      PROVE  /\ m[x].parent = node[x].parent /\ m[x].first = first(x)
             /\ m[x].next = next(x) /\ m[x].prev = prev(x)
             /\ m[x] = [parent |-> node[x].parent, first |-> first(x),
                        next |-> next(x), prev |-> prev(x)]
  BY <1>1, <1>5, <1>7
<1>8. ASSUME NEW x \in has
      PROVE  /\ first(x) = IF node[x].first = e THEN node[e].next ELSE node[x].first
             /\ next(x) = IF node[x].next = e THEN node[e].next ELSE node[x].next
             /\ prev(x) = IF node[x].prev = e THEN node[e].prev ELSE node[x].prev
  <2>1. node[x].first = e <=> node[e].prev = Null /\ x = node[e].parent
    BY <1>1, <1>8, HierarchyAssumption DEF Links, Blank
  <2>2. node[x].next = e <=> node[e].prev # Null /\ x = node[e].prev
    BY <1>1, <1>8, HierarchyAssumption DEF Links, Blank
  <2>3. node[x].prev = e <=> x = node[e].next
    BY <1>1, <1>8, HierarchyAssumption DEF Links, Blank
  <2>4. x = node[e].next => node[e].parent \in has
    BY <1>1, <1>8, HierarchyAssumption DEF Links, Blank
  <2>5. first(x) = IF node[x].first = e THEN node[e].next ELSE node[x].first
    BY <2>1, <1>4
  <2>6. next(x) = IF node[x].next = e THEN node[e].next ELSE node[x].next
    BY <2>2, <1>4
  <2>7. prev(x) = IF node[x].prev = e THEN node[e].prev ELSE node[x].prev
    BY <2>3, <2>4, <1>4
  <2> QED BY <2>5, <2>6, <2>7
<1>9. ASSUME NEW x \in Entities
      PROVE  m[x] \in [parent : Handles, first : Handles, next : Handles, prev : Handles]
  <2>1. CASE x \notin has
    BY <1>6, <2>1 DEF Blank, Handles
  <2>2. CASE x \in has
    <3>1. /\ node[x].parent \in Handles /\ node[x].first \in Handles
          /\ node[x].next \in Handles /\ node[x].prev \in Handles
      BY <1>1, NodeType
    <3>2. first(x) \in Handles /\ next(x) \in Handles /\ prev(x) \in Handles
      BY <1>3, <3>1, <1>8, <2>2
    <3> HIDE DEF first, next, prev
    <3>3. m[x] = [parent |-> node[x].parent, first |-> first(x), next |-> next(x), prev |-> prev(x)]
      BY <1>7, <2>2
    <3> QED BY <3>1, <3>2, <3>3
  <2> QED BY <2>1, <2>2
<1>10. m \in Nodes
  BY <1>5, <1>9 DEF Nodes
<1>11. m[e].first = node[e].first
  <2>1. CASE e \in has
    BY <1>7, <1>2, <2>1
  <2>2. CASE e \notin has
    BY <1>6, <2>2
  <2> QED BY <2>1, <2>2
<1> HIDE DEF first, next, prev, rec
<1>12. ASSUME NEW x \in Entities \ {e}
       PROVE  /\ m[x].parent = node[x].parent
              /\ m[x].first = IF node[x].first = e THEN node[e].next ELSE node[x].first
              /\ m[x].next = IF node[x].next = e THEN node[e].next ELSE node[x].next
              /\ m[x].prev = IF node[x].prev = e THEN node[e].prev ELSE node[x].prev
  <2>1. CASE x \in has
    BY <1>7, <1>8, <2>1
  <2>2. CASE x \notin has
    BY <1>6, <2>2, HierarchyAssumption DEF Blank
  <2> QED BY <2>1, <2>2
<1> QED BY <1>10, <1>11, <1>12

LEMMA UnplacedNode ==
    ASSUME NEW n \in Nodes, NEW e \in Entities, NEW p \in Handles, NEW d, d = Unplaced(n, e, p)
    PROVE  /\ d \in Nodes /\ \A x \in Entities \ {e} : d[x] = n[x]
           /\ d[e].parent = p /\ d[e].next = Null /\ d[e].prev = Null
           /\ d[e].first = n[e].first
<1> DEFINE R == [parent : Handles, first : Handles, next : Handles, prev : Handles]
           u == [parent |-> p, first |-> n[e].first, next |-> Null, prev |-> Null]
<1>1. n[e] \in R
  BY DEF Nodes
<1>2. [n[e] EXCEPT !.parent = p, !.next = Null, !.prev = Null] = u
  <2> PICK r : r = n[e]
    OBVIOUS
  <2>1. [r EXCEPT !.parent = p, !.next = Null, !.prev = Null]
          = [[[r EXCEPT !.parent = p] EXCEPT !.next = Null] EXCEPT !.prev = Null]
    OBVIOUS
  <2>2. [r EXCEPT !.parent = p] = [parent |-> p, first |-> r.first, next |-> r.next, prev |-> r.prev]
    BY <1>1
  <2>3. ASSUME NEW q, q = [parent |-> p, first |-> r.first, next |-> r.next, prev |-> r.prev]
        PROVE  [q EXCEPT !.next = Null] = [parent |-> p, first |-> r.first, next |-> Null, prev |-> r.prev]
    BY <2>3
  <2>4. ASSUME NEW q, q = [parent |-> p, first |-> r.first, next |-> Null, prev |-> r.prev]
        PROVE  [q EXCEPT !.prev = Null] = [parent |-> p, first |-> r.first, next |-> Null, prev |-> Null]
    BY <2>4
  <2> QED BY <2>1, <2>2, <2>3, <2>4, Zenon
<1>3. d = [n EXCEPT ![e] = u]
  BY <1>2 DEF Unplaced
<1>4. u \in R
  BY <1>1 DEF Handles
<1> HIDE DEF u
<1>5. d \in Nodes /\ d[e] = u /\ \A x \in Entities \ {e} : d[x] = n[x]
  BY <1>3, <1>4 DEF Nodes
<1> QED BY <1>5 DEF u

(* Hierarchy::reparent to null.                                            *)
LEMMA DetachCuts ==
    ASSUME TreeInv, NEW e \in Entities
    PROVE  Cut(node, Detach(node, e), e)
<1> PICK m : m = onDestroy(node, e)
  OBVIOUS
<1>1. /\ m \in Nodes
      /\ m[e].first = node[e].first
      /\ \A x \in Entities \ {e} :
            /\ m[x].parent = node[x].parent
            /\ m[x].first = IF node[x].first = e THEN node[e].next ELSE node[x].first
            /\ m[x].next = IF node[x].next = e THEN node[e].next ELSE node[x].next
            /\ m[x].prev = IF node[x].prev = e THEN node[e].prev ELSE node[x].prev
  BY OnDestroyLinks
<1> PICK d : d = Detach(node, e)
  OBVIOUS
<1>2. d = Unplaced(m, e, Null)
  BY DEF Detach
<1>3. /\ d \in Nodes /\ \A x \in Entities \ {e} : d[x] = m[x]
      /\ d[e].parent = Null /\ d[e].next = Null /\ d[e].prev = Null
      /\ d[e].first = m[e].first
  BY <1>1, <1>2, UnplacedNode DEF Handles
<1> QED BY <1>1, <1>3 DEF Cut

LEMMA CutKeepsTree ==
    ASSUME NEW n, NEW m, NEW h, Tree(n, h), NEW e \in Entities, Cut(n, m, e)
    PROVE  Tree(m, h)
<1>1. /\ n \in Nodes /\ h \subseteq Entities /\ Links(n, h) /\ Null \notin Entities
      /\ \A x \in Entities \ h : n[x] = Blank
  BY HierarchyAssumption DEF Tree, Shape
<1>2. \A x \in Entities : n[x].parent # x /\ n[x].next # x /\ n[x].prev # x
  BY NoSelfLink DEF Tree
<1>3. /\ m \in Nodes
      /\ m[e].parent = Null /\ m[e].next = Null /\ m[e].prev = Null
      /\ m[e].first = n[e].first
  BY DEF Cut
<1>4. ASSUME NEW x \in Entities \ {e}
      PROVE  /\ m[x].parent = n[x].parent
             /\ m[x].first = IF n[x].first = e THEN n[e].next ELSE n[x].first
             /\ m[x].next = IF n[x].next = e THEN n[e].next ELSE n[x].next
             /\ m[x].prev = IF n[x].prev = e THEN n[e].prev ELSE n[x].prev
  BY DEF Cut
<1>5. Shape(m, h)
  <2>1. ASSUME NEW x \in Entities \ h
        PROVE  m[x] = Blank
    <3>1. n[x] = Blank
      BY <1>1
    <3>2. m[x].parent = Null /\ m[x].first = Null /\ m[x].next = Null /\ m[x].prev = Null
      <4>1. CASE x = e
        BY <4>1, <3>1, <1>3 DEF Blank
      <4>2. CASE x # e
        BY <4>2, <3>1, <1>1, <1>4 DEF Blank
      <4> QED BY <4>1, <4>2
    <3>3. m[x] \in [parent : Handles, first : Handles, next : Handles, prev : Handles]
      BY <1>3 DEF Nodes
    <3> QED BY <3>2, <3>3 DEF Blank
  <2> QED BY <1>1, <1>3, <2>1 DEF Shape
<1>6. Links(m, h)
  <2> SUFFICES ASSUME NEW x \in h
               PROVE  /\ m[x].parent = Null => m[x].next = Null /\ m[x].prev = Null
                      /\ m[x].parent # Null => /\ m[x].parent \in h
                                               /\ m[x].prev = Null => m[m[x].parent].first = x
                      /\ m[x].prev # Null => m[x].prev \in h /\ m[m[x].prev].next = x
                      /\ m[x].next # Null => /\ m[x].next \in h /\ m[m[x].next].prev = x
                                             /\ m[m[x].next].parent = m[x].parent
                      /\ m[x].first # Null => /\ m[x].first \in h /\ m[m[x].first].parent = x
                                              /\ m[m[x].first].prev = Null
    BY DEF Links
  <2>1. /\ n[x].parent = Null => n[x].next = Null /\ n[x].prev = Null
        /\ n[x].parent # Null => /\ n[x].parent \in h
                                 /\ n[x].prev = Null => n[n[x].parent].first = x
        /\ n[x].prev # Null => n[x].prev \in h /\ n[n[x].prev].next = x
        /\ n[x].next # Null => /\ n[x].next \in h /\ n[n[x].next].prev = x
                               /\ n[n[x].next].parent = n[x].parent
        /\ n[x].first # Null => /\ n[x].first \in h /\ n[n[x].first].parent = x
                                /\ n[n[x].first].prev = Null
    BY <1>1 DEF Links
  <2>2. x \in Entities
    BY <1>1
  <2>3. CASE e \notin h
    <3>1. \A y \in Entities : n[y].first # e /\ n[y].next # e /\ n[y].prev # e /\ n[y].parent # e
      BY <2>3, NoStrayLink
    <3> QED BY <1>1, <1>4, <2>1, <2>2, <2>3, <3>1
  <2>4. CASE e \in h
    <3>1. /\ n[e].parent = Null => n[e].next = Null /\ n[e].prev = Null
          /\ n[e].parent # Null => /\ n[e].parent \in h
                                   /\ n[e].prev = Null => n[n[e].parent].first = e
          /\ n[e].prev # Null => n[e].prev \in h /\ n[n[e].prev].next = e
          /\ n[e].next # Null => /\ n[e].next \in h /\ n[n[e].next].prev = e
                                 /\ n[n[e].next].parent = n[e].parent
          /\ n[e].first # Null => /\ n[e].first \in h /\ n[n[e].first].parent = e
                                  /\ n[n[e].first].prev = Null
      BY <1>1, <2>4 DEF Links
    <3>2. m[x].parent = Null => m[x].next = Null /\ m[x].prev = Null
      BY <1>1, <1>3, <1>4, <2>1, <2>2
    <3>3. m[x].parent # Null => /\ m[x].parent \in h
                                /\ m[x].prev = Null => m[m[x].parent].first = x
      BY <1>1, <1>2, <1>3, <1>4, <2>1, <2>2, <3>1
    <3>4. m[x].prev # Null => m[x].prev \in h /\ m[m[x].prev].next = x
      BY <1>1, <1>2, <1>3, <1>4, <2>1, <2>2, <3>1
    <3>5. m[x].next # Null => /\ m[x].next \in h /\ m[m[x].next].prev = x
                              /\ m[m[x].next].parent = m[x].parent
      BY <1>1, <1>2, <1>3, <1>4, <2>1, <2>2, <3>1
    <3>6. m[x].first # Null => /\ m[x].first \in h /\ m[m[x].first].parent = x
                               /\ m[m[x].first].prev = Null
      BY <1>1, <1>2, <1>3, <1>4, <2>1, <2>2, <3>1
    <3> QED BY <3>2, <3>3, <3>4, <3>5, <3>6
  <2> QED BY <2>3, <2>4
<1> DEFINE pn == [x \in Entities |-> n[x].parent]
           pm == [x \in Entities |-> m[x].parent]
           nn == [x \in Entities |-> n[x].next]
           nm == [x \in Entities |-> m[x].next]
           vn == [x \in Entities |-> n[x].prev]
           vm == [x \in Entities |-> m[x].prev]
<1>7. Grounded(pn) /\ Grounded(nn) /\ Grounded(vn)
  BY DEF Tree, ParentsEnd, NextsEnd, PrevsEnd
<1>8. \A x \in Entities : /\ pn[x] = n[x].parent /\ pm[x] = m[x].parent
                          /\ nn[x] = n[x].next /\ nm[x] = m[x].next
                          /\ vn[x] = n[x].prev /\ vm[x] = m[x].prev
  OBVIOUS
<1>9. /\ ParentsEnd(m) <=> Grounded(pm)
      /\ NextsEnd(m) <=> Grounded(nm)
      /\ PrevsEnd(m) <=> Grounded(vm)
  BY DEF ParentsEnd, NextsEnd, PrevsEnd
<1> HIDE DEF pn, pm, nn, nm, vn, vm
<1>10. Grounded(pm)
  <2>1. \A x \in Entities : pm[x] \in {pn[x], Null}
    BY <1>3, <1>4, <1>8
  <2> QED BY <1>7, <2>1, GroundedFewer
<1>11. Grounded(nm)
  <2>1. nm[e] = Null /\ \A x \in Entities \ {e} : nm[x] = IF nn[x] = e THEN nn[e] ELSE nn[x]
    BY <1>3, <1>4, <1>8
  <2> QED BY <1>7, <2>1, GroundedBypass
<1>12. Grounded(vm)
  <2>1. vm[e] = Null /\ \A x \in Entities \ {e} : vm[x] = IF vn[x] = e THEN vn[e] ELSE vn[x]
    BY <1>3, <1>4, <1>8
  <2> QED BY <1>7, <2>1, GroundedBypass
<1> QED BY <1>5, <1>6, <1>9, <1>10, <1>11, <1>12 DEF Tree

(* A whole family goes: an entity other than a root goes with its parent   *)
(* and only with it.                                                       *)
Family(n, h, G) == \A x \in h : n[x].parent # Null => (n[x].parent \in G <=> x \in G)

Pruned(n, m, G) == m \in Nodes /\ \A x \in Entities : m[x] = IF x \in G THEN Blank ELSE n[x]

LEMMA PruneKeepsTree ==
    ASSUME NEW n, NEW h, Tree(n, h), NEW G \in SUBSET Entities, Family(n, h, G),
           NEW m, Pruned(n, m, G)
    PROVE  Tree(m, h \ G)
<1>1. /\ n \in Nodes /\ h \subseteq Entities /\ Links(n, h) /\ Null \notin Entities
      /\ \A x \in Entities \ h : n[x] = Blank
  BY HierarchyAssumption DEF Tree, Shape
<1>2. m \in Nodes /\ \A x \in Entities : m[x] = IF x \in G THEN Blank ELSE n[x]
  BY DEF Pruned
<1>3. \A x \in h : n[x].parent # Null => (n[x].parent \in G <=> x \in G)
  BY DEF Family
<1>4. Shape(m, h \ G)
  BY <1>1, <1>2 DEF Shape
<1>5. Links(m, h \ G)
  <2> SUFFICES ASSUME NEW x \in h \ G
               PROVE  /\ m[x].parent = Null => m[x].next = Null /\ m[x].prev = Null
                      /\ m[x].parent # Null => /\ m[x].parent \in h \ G
                                               /\ m[x].prev = Null => m[m[x].parent].first = x
                      /\ m[x].prev # Null => m[x].prev \in h \ G /\ m[m[x].prev].next = x
                      /\ m[x].next # Null => /\ m[x].next \in h \ G /\ m[m[x].next].prev = x
                                             /\ m[m[x].next].parent = m[x].parent
                      /\ m[x].first # Null => /\ m[x].first \in h \ G /\ m[m[x].first].parent = x
                                              /\ m[m[x].first].prev = Null
    BY DEF Links
  <2>1. /\ n[x].parent = Null => n[x].next = Null /\ n[x].prev = Null
        /\ n[x].parent # Null => /\ n[x].parent \in h
                                 /\ n[x].prev = Null => n[n[x].parent].first = x
        /\ n[x].prev # Null => n[x].prev \in h /\ n[n[x].prev].next = x
        /\ n[x].next # Null => /\ n[x].next \in h /\ n[n[x].next].prev = x
                               /\ n[n[x].next].parent = n[x].parent
        /\ n[x].first # Null => /\ n[x].first \in h /\ n[n[x].first].parent = x
                                /\ n[n[x].first].prev = Null
    BY <1>1 DEF Links
  <2>2. m[x] = n[x] /\ x \in Entities /\ x \notin G
    BY <1>1, <1>2
  <2>3. n[x].parent # Null => n[x].parent \in h \ G
    BY <1>3, <2>1
  <2>4. n[x].prev # Null => n[x].prev \in h \ G
    <3>1. n[x].prev # Null => n[n[x].prev].parent = n[x].parent
      BY <1>1, <2>1, <2>2 DEF Links
    <3> QED BY <1>3, <2>1, <2>3, <3>1
  <2>5. n[x].next # Null => n[x].next \in h \ G
    BY <1>3, <2>1, <2>3
  <2>6. n[x].first # Null => n[x].first \in h \ G
    BY <1>1, <1>3, <2>1, <2>2
  <2> QED BY <1>1, <1>2, <2>1, <2>2, <2>3, <2>4, <2>5, <2>6
<1> DEFINE pn == [x \in Entities |-> n[x].parent]
           pm == [x \in Entities |-> m[x].parent]
           nn == [x \in Entities |-> n[x].next]
           nm == [x \in Entities |-> m[x].next]
           vn == [x \in Entities |-> n[x].prev]
           vm == [x \in Entities |-> m[x].prev]
<1>6. Grounded(pn) /\ Grounded(nn) /\ Grounded(vn)
  BY DEF Tree, ParentsEnd, NextsEnd, PrevsEnd
<1>7. /\ \A x \in Entities : pm[x] \in {pn[x], Null}
      /\ \A x \in Entities : nm[x] \in {nn[x], Null}
      /\ \A x \in Entities : vm[x] \in {vn[x], Null}
  BY <1>2 DEF Blank
<1>8. /\ ParentsEnd(m) <=> Grounded(pm)
      /\ NextsEnd(m) <=> Grounded(nm)
      /\ PrevsEnd(m) <=> Grounded(vm)
  BY DEF ParentsEnd, NextsEnd, PrevsEnd
<1> HIDE DEF pn, pm, nn, nm, vn, vm
<1>9. Grounded(pm) /\ Grounded(nm) /\ Grounded(vm)
  BY <1>6, <1>7, GroundedFewer
<1> QED BY <1>4, <1>5, <1>8, <1>9 DEF Tree

-----------------------------------------------------------------------------
(* The second half of an edit: e, which has no place, becomes the last     *)
(* child of p, either the only one or behind y.                            *)

AppendedFirst(n, m, e, p) ==
    /\ n[p].first = Null
    /\ \A x \in Entities : /\ m[x].first = IF x = p THEN e ELSE n[x].first
                           /\ m[x].next = n[x].next
                           /\ m[x].prev = n[x].prev

AppendedBehind(n, m, e, p, y) ==
    /\ y # e /\ n[y].parent = p /\ n[y].next = Null
    /\ \A x \in Entities : /\ m[x].first = n[x].first
                           /\ m[x].next = IF x = y THEN e ELSE n[x].next
                           /\ m[x].prev = IF x = e THEN y ELSE n[x].prev

Appended(n, m, e, p) ==
    /\ m \in Nodes
    /\ \A x \in Entities : m[x].parent = IF x = e THEN p ELSE n[x].parent
    /\ AppendedFirst(n, m, e, p) \/ \E y \in Entities : AppendedBehind(n, m, e, p, y)

(* Hierarchy::onConstruct.                                                 *)
LEMMA OnConstructAppends ==
    ASSUME NEW n, NEW h, Tree(n, h), NEW e \in Entities, NEW p \in Entities \ {e},
           n[e].parent = Null, NEW u \in Nodes,
           \A x \in Entities : /\ u[x].parent = IF x = e THEN p ELSE n[x].parent
                               /\ u[x].first = n[x].first
                               /\ u[x].next = n[x].next
                               /\ u[x].prev = n[x].prev
    PROVE  Appended(n, onConstruct(u, e), e, p)
<1> DEFINE R == [parent : Handles, first : Handles, next : Handles, prev : Handles]
           list == getChildren(u, u[e].parent)
           last == CHOOSE y \in list : u[y].next = Null
           S == {y \in h : n[y].parent = p}
<1>1. /\ n \in Nodes /\ h \subseteq Entities /\ Links(n, h) /\ Null \notin Entities
      /\ \A x \in Entities \ h : n[x] = Blank
  BY HierarchyAssumption DEF Tree, Shape
<1>4. u \in Nodes
  OBVIOUS
<1>5. \A x \in Entities : /\ u[x].parent = IF x = e THEN p ELSE n[x].parent
                          /\ u[x].first = n[x].first
                          /\ u[x].next = n[x].next
                          /\ u[x].prev = n[x].prev
  OBVIOUS
<1>p. u[e].parent = p
  BY <1>5
<1>c. list = Siblings(u, u[p].first)
  BY <1>p DEF getChildren
<1> HIDE DEF list
<1>6. n[p].first # Null => n[p].first \in S
  BY <1>1 DEF Links, Blank
<1>7. \A y \in S : n[y].next # Null => n[y].next \in S
  BY <1>1 DEF Links
<1>8. list \subseteq S
  <2>1. S \in SUBSET Entities
    BY <1>1
  <2>2. u[p].first # Null => u[p].first \in S
    BY <1>5, <1>6
  <2>3. \A y \in S : u[y].next # Null => u[y].next \in S
    BY <1>5, <1>7, <2>1
  <2> HIDE DEF S
  <2> QED BY <1>c, <2>1, <2>2, <2>3, SiblingsLeast
<1>9. /\ n[p].first # Null => n[p].first \in list
      /\ \A y \in list : n[y].next # Null => n[y].next \in list
  <2>1. u[p].first \in Handles
    BY <1>4, NodeType
  <2>2. /\ u[p].first # Null => u[p].first \in list
        /\ \A y \in list : u[y].next # Null => u[y].next \in list
    BY <1>4, <1>c, <2>1, SiblingsClosed
  <2> QED BY <2>2, <1>5, <1>8, <1>1
<1>10. n[p].first = Null => list = {}
  <2>1. ASSUME n[p].first = Null PROVE list \subseteq {}
    <3>1. u[p].first = Null
      BY <2>1, <1>5
    <3> PICK Z : Z = {}
      OBVIOUS
    <3>2. Z \in SUBSET Entities /\ \A y \in Z : u[y].next # Null => u[y].next \in Z
      OBVIOUS
    <3>3. Siblings(u, u[p].first) \subseteq Z
      BY <3>1, <3>2, SiblingsLeast
    <3> QED BY <1>c, <3>3
  <2> QED BY <2>1
<1>11. list # {} => last \in list /\ u[last].next = Null
  <2> SUFFICES ASSUME list # {} PROVE \E y \in list : u[y].next = Null
    OBVIOUS
  <2> DEFINE g == [x \in Entities |-> n[x].next]
  <2>1. Grounded(g) /\ \A x \in Entities : g[x] = n[x].next
    BY DEF Tree, NextsEnd
  <2> HIDE DEF g
  <2>2. list \in SUBSET Entities
    BY <1>8, <1>1
  <2>3. PICK y \in list : g[y] \notin list
    BY <2>1, <2>2 DEF Grounded
  <2> QED BY <2>1, <2>2, <2>3, <1>9, <1>5
<1> HIDE DEF last
<1> PICK m : m = onConstruct(u, e)
  OBVIOUS
<1> DEFINE first(x) == IF x = u[e].parent /\ list = {} THEN e ELSE u[x].first
           next(x)  == IF list # {} /\ x = last THEN e ELSE u[x].next
           prev(x)  == IF list # {} /\ x = e THEN last ELSE u[x].prev
<1>12. m = [x \in Entities |-> [u[x] EXCEPT !.first = first(x), !.next = next(x), !.prev = prev(x)]]
  BY DEF onConstruct, last, list
<1>13. ASSUME NEW x \in Entities
       PROVE  /\ m[x].parent = u[x].parent /\ m[x].first = first(x)
              /\ m[x].next = next(x) /\ m[x].prev = prev(x)
              /\ m[x] \in R
  <2>1. u[x] \in R
    BY <1>4 DEF Nodes
  <2>2. first(x) \in Handles /\ next(x) \in Handles /\ prev(x) \in Handles
    BY <1>1, <1>8, <1>11, <2>1 DEF Handles
  <2>3. u[x].parent \in Handles
    BY <2>1
  <2>4. m[x] = [u[x] EXCEPT !.first = first(x), !.next = next(x), !.prev = prev(x)]
    BY <1>12
  <2> HIDE DEF first, next, prev
  <2>5. m[x] = [parent |-> u[x].parent, first |-> first(x), next |-> next(x), prev |-> prev(x)]
    BY <2>1, <2>4, NodeUpdate
  <2> QED BY <2>2, <2>3, <2>5
<1>14. m \in Nodes
  BY <1>12, <1>13 DEF Nodes
<1>15. \A x \in Entities : m[x].parent = IF x = e THEN p ELSE n[x].parent
  BY <1>5, <1>13
<1>16. CASE list = {}
  <2>1. AppendedFirst(n, m, e, p)
    <3>1. n[p].first = Null
      BY <1>9, <1>16
    <3>2. ASSUME NEW x \in Entities
          PROVE  /\ m[x].first = IF x = p THEN e ELSE n[x].first
                 /\ m[x].next = n[x].next /\ m[x].prev = n[x].prev
      <4>1. first(x) = IF x = p THEN e ELSE u[x].first
        BY <1>p, <1>16
      <4>2. next(x) = u[x].next /\ prev(x) = u[x].prev
        BY <1>16
      <4> HIDE DEF first, next, prev
      <4> QED BY <1>5, <1>13, <4>1, <4>2
    <3> QED BY <3>1, <3>2 DEF AppendedFirst
  <2> QED BY <1>14, <1>15, <2>1 DEF Appended
<1>17. CASE list # {}
  <2>1. last \in S /\ last \in Entities /\ n[last].next = Null
    BY <1>1, <1>5, <1>8, <1>11, <1>17
  <2>2. last # e /\ n[last].parent = p
    BY <1>1, <2>1
  <2>3. AppendedBehind(n, m, e, p, last)
    <3>1. ASSUME NEW x \in Entities
          PROVE  /\ m[x].first = n[x].first
                 /\ m[x].next = IF x = last THEN e ELSE n[x].next
                 /\ m[x].prev = IF x = e THEN last ELSE n[x].prev
      <4>1. first(x) = u[x].first /\ next(x) = IF x = last THEN e ELSE u[x].next
        BY <1>17
      <4>2. prev(x) = IF x = e THEN last ELSE u[x].prev
        BY <1>17
      <4> HIDE DEF first, next, prev
      <4> QED BY <1>5, <1>13, <4>1, <4>2
    <3> QED BY <2>1, <2>2, <3>1 DEF AppendedBehind
  <2> QED BY <1>14, <1>15, <2>1, <2>3 DEF Appended
<1> QED BY <1>16, <1>17

LEMMA AppendKeepsTree ==
    ASSUME NEW n, NEW m, NEW h, Tree(n, h), NEW e \in Entities, NEW p \in Entities \ {e},
           n[e].parent = Null, Appended(n, m, e, p),
           NEW A \in SUBSET Entities, p \in A, e \notin A,
           \A x \in A : n[x].parent # Null => n[x].parent \in A
    PROVE  Tree(m, h \union {e, p})
<1>1. /\ n \in Nodes /\ h \subseteq Entities /\ Links(n, h) /\ Null \notin Entities
      /\ \A x \in Entities \ h : n[x] = Blank
  BY HierarchyAssumption DEF Tree, Shape
<1>2. \A x \in Entities : n[x].parent # x /\ n[x].next # x /\ n[x].prev # x
  BY NoSelfLink DEF Tree
<1>3. m \in Nodes /\ \A x \in Entities : m[x].parent = IF x = e THEN p ELSE n[x].parent
  BY DEF Appended
<1>4. n[e].next = Null /\ n[e].prev = Null
  BY <1>1 DEF Links, Blank
<1>5. /\ \A x \in Entities : n[x].next # e /\ n[x].prev # e /\ n[x].first # e
      /\ p \notin h => n[p].first = Null
  BY <1>1, <1>4 DEF Links, Blank
<1> DEFINE H == h \union {e, p}
<1>6. H \subseteq Entities
  BY <1>1
<1>7. ASSUME NEW x \in h
      PROVE  /\ n[x].parent = Null => n[x].next = Null /\ n[x].prev = Null
             /\ n[x].parent # Null => /\ n[x].parent \in h
                                      /\ n[x].prev = Null => n[n[x].parent].first = x
             /\ n[x].prev # Null => n[x].prev \in h /\ n[n[x].prev].next = x
             /\ n[x].next # Null => /\ n[x].next \in h /\ n[n[x].next].prev = x
                                    /\ n[n[x].next].parent = n[x].parent
             /\ n[x].first # Null => /\ n[x].first \in h /\ n[n[x].first].parent = x
                                     /\ n[n[x].first].prev = Null
  BY <1>1 DEF Links
<1>8. ASSUME NEW x \in Entities \ h
      PROVE  n[x].parent = Null /\ n[x].first = Null /\ n[x].next = Null /\ n[x].prev = Null
  BY <1>1 DEF Blank
<1> DEFINE pn == [x \in Entities |-> n[x].parent]
           pm == [x \in Entities |-> m[x].parent]
           nn == [x \in Entities |-> n[x].next]
           nm == [x \in Entities |-> m[x].next]
           vn == [x \in Entities |-> n[x].prev]
           vm == [x \in Entities |-> m[x].prev]
<1>9. Grounded(pn) /\ Grounded(nn) /\ Grounded(vn)
  BY DEF Tree, ParentsEnd, NextsEnd, PrevsEnd
<1>10. \A x \in Entities : /\ pn[x] = n[x].parent /\ pm[x] = m[x].parent
                           /\ nn[x] = n[x].next /\ nm[x] = m[x].next
                           /\ vn[x] = n[x].prev /\ vm[x] = m[x].prev
  OBVIOUS
<1>11. /\ ParentsEnd(m) <=> Grounded(pm)
       /\ NextsEnd(m) <=> Grounded(nm)
       /\ PrevsEnd(m) <=> Grounded(vm)
  BY DEF ParentsEnd, NextsEnd, PrevsEnd
<1> HIDE DEF pn, pm, nn, nm, vn, vm
<1>12. ParentsEnd(m)
  <2>1. \A x \in Entities \ {e} : pm[x] = pn[x]
    BY <1>3, <1>10
  <2>2. pm[e] \in A /\ \A x \in A : pn[x] # Null => pn[x] \in A
    BY <1>3, <1>10
  <2>3. Grounded(pm)
    BY <1>9, <2>1, <2>2, GroundedUpdate
  <2> QED BY <2>3, <1>11
<1>13. ASSUME Links(m, H), \A x \in Entities \ H : m[x] = Blank, Grounded(nm), Grounded(vm)
       PROVE  Tree(m, H)
  BY <1>3, <1>6, <1>11, <1>12, <1>13 DEF Tree, Shape
<1>14. ASSUME NEW x \in Entities, m[x].parent = Null, m[x].first = Null,
              m[x].next = Null, m[x].prev = Null
       PROVE  m[x] = Blank
  <2>1. m[x] \in [parent : Handles, first : Handles, next : Handles, prev : Handles]
    BY <1>3 DEF Nodes
  <2> QED BY <2>1, <1>14 DEF Blank
<1>15. CASE AppendedFirst(n, m, e, p)
  <2>1. n[p].first = Null
    BY <1>15 DEF AppendedFirst
  <2>2. \A x \in Entities : /\ m[x].first = IF x = p THEN e ELSE n[x].first
                            /\ m[x].next = n[x].next
                            /\ m[x].prev = n[x].prev
    BY <1>15 DEF AppendedFirst
  <2>3. \A x \in Entities \ H : m[x] = Blank
    BY <1>3, <1>8, <1>14, <2>2
  <2>4. Grounded(nm) /\ Grounded(vm)
    <3>1. /\ \A x \in Entities : nm[x] \in {nn[x], Null}
          /\ \A x \in Entities : vm[x] \in {vn[x], Null}
      BY <1>10, <2>2
    <3> QED BY <1>9, <3>1, GroundedFewer
  <2>5. Links(m, H)
    <3> SUFFICES ASSUME NEW x \in H
                 PROVE  /\ m[x].parent = Null => m[x].next = Null /\ m[x].prev = Null
                        /\ m[x].parent # Null => /\ m[x].parent \in H
                                                 /\ m[x].prev = Null => m[m[x].parent].first = x
                        /\ m[x].prev # Null => m[x].prev \in H /\ m[m[x].prev].next = x
                        /\ m[x].next # Null => /\ m[x].next \in H /\ m[m[x].next].prev = x
                                               /\ m[m[x].next].parent = m[x].parent
                        /\ m[x].first # Null => /\ m[x].first \in H /\ m[m[x].first].parent = x
                                                /\ m[m[x].first].prev = Null
      BY DEF Links
    <3>1. CASE x = e
      BY <1>1, <1>3, <1>4, <1>5, <1>7, <1>8, <2>2, <3>1
    <3>2. CASE x = p
      BY <1>1, <1>3, <1>4, <1>5, <1>7, <1>8, <2>1, <2>2, <3>2
    <3>3. CASE x \in h \ {e, p}
      BY <1>1, <1>3, <1>4, <1>5, <1>7, <2>1, <2>2, <3>3
    <3> QED BY <3>1, <3>2, <3>3
  <2> QED BY <1>13, <2>3, <2>4, <2>5
<1>16. ASSUME NEW y \in Entities, AppendedBehind(n, m, e, p, y)
       PROVE  Tree(m, H)
  <2>1. y # e /\ n[y].parent = p /\ n[y].next = Null /\ y \in h
    BY <1>1, <1>8, <1>16 DEF AppendedBehind
  <2>2. \A x \in Entities : /\ m[x].first = n[x].first
                            /\ m[x].next = IF x = y THEN e ELSE n[x].next
                            /\ m[x].prev = IF x = e THEN y ELSE n[x].prev
    BY <1>16 DEF AppendedBehind
  <2>3. \A x \in Entities \ H : m[x] = Blank
    BY <1>3, <1>8, <1>14, <2>1, <2>2
  <2>4. Grounded(nm)
    <3>1. \A x \in Entities \ {y} : nm[x] = nn[x]
      BY <1>10, <2>2
    <3>2. {e} \in SUBSET Entities /\ y \notin {e} /\ nm[y] \in {e}
      BY <1>10, <2>1, <2>2
    <3>3. \A x \in {e} : nn[x] # Null => nn[x] \in {e}
      BY <1>4, <1>10
    <3> QED BY <1>9, <3>1, <3>2, <3>3, GroundedUpdate
  <2>5. Grounded(vm)
    <3>1. \A x \in Entities \ {e} : vm[x] = vn[x]
      BY <1>10, <2>2
    <3>2. Entities \ {e} \in SUBSET Entities /\ vm[e] \in Entities \ {e}
      BY <1>10, <2>1, <2>2
    <3>3. \A x \in Entities \ {e} : vn[x] # Null => vn[x] \in Entities \ {e}
      BY <1>1, <1>5, <1>10, NodeType DEF Handles
    <3> QED BY <1>9, <3>1, <3>2, <3>3, GroundedUpdate
  <2>6. Links(m, H)
    <3> SUFFICES ASSUME NEW x \in H
                 PROVE  /\ m[x].parent = Null => m[x].next = Null /\ m[x].prev = Null
                        /\ m[x].parent # Null => /\ m[x].parent \in H
                                                 /\ m[x].prev = Null => m[m[x].parent].first = x
                        /\ m[x].prev # Null => m[x].prev \in H /\ m[m[x].prev].next = x
                        /\ m[x].next # Null => /\ m[x].next \in H /\ m[m[x].next].prev = x
                                               /\ m[m[x].next].parent = m[x].parent
                        /\ m[x].first # Null => /\ m[x].first \in H /\ m[m[x].first].parent = x
                                                /\ m[m[x].first].prev = Null
      BY DEF Links
    <3>1. CASE x = e
      BY <1>1, <1>3, <1>4, <1>5, <1>7, <1>8, <2>1, <2>2, <3>1
    <3>2. CASE x = p
      BY <1>1, <1>2, <1>3, <1>4, <1>5, <1>7, <1>8, <2>1, <2>2, <3>2
    <3>3. CASE x \in h \ {e, p}
      BY <1>1, <1>3, <1>4, <1>5, <1>7, <2>1, <2>2, <3>3
    <3> QED BY <3>1, <3>2, <3>3
  <2> QED BY <1>13, <2>3, <2>4, <2>5, <2>6
<1> QED BY <1>15, <1>16 DEF Appended

-----------------------------------------------------------------------------
(* The edits.                                                              *)

(* registry.emplace<Hierarchy>(e, p).                                      *)
LEMMA EmplaceAppends ==
    ASSUME NEW n, NEW h, Tree(n, h), NEW e \in Entities \ h, NEW p \in Entities \ {e}
    PROVE  Appended(n, emplace(n, e, p), e, p)
<1>1. n[e] = Blank
  BY DEF Tree, Shape
<1> DEFINE b == [parent |-> p, first |-> Null, next |-> Null, prev |-> Null]
<1> PICK u : u = [n EXCEPT ![e] = [Blank EXCEPT !.parent = p]]
  OBVIOUS
<1>2. [Blank EXCEPT !.parent = p] = b
  BY DEF Blank
<1>3. n \in Nodes /\ u = [n EXCEPT ![e] = b] /\ emplace(n, e, p) = onConstruct(u, e)
  BY <1>2 DEF emplace, Tree, Shape
<1>4. b \in [parent : Handles, first : Handles, next : Handles, prev : Handles]
  BY DEF Handles
<1> HIDE DEF b
<1>5. u \in Nodes /\ u[e] = b /\ \A x \in Entities \ {e} : u[x] = n[x]
  BY <1>3, <1>4 DEF Nodes
<1>6. \A x \in Entities : /\ u[x].parent = IF x = e THEN p ELSE n[x].parent
                          /\ u[x].first = n[x].first
                          /\ u[x].next = n[x].next
                          /\ u[x].prev = n[x].prev
  BY <1>1, <1>5 DEF b, Blank
<1>7. n[e].parent = Null
  BY <1>1 DEF Blank
<1>8. Appended(n, onConstruct(u, e), e, p)
  BY <1>5, <1>6, <1>7, OnConstructAppends
<1> QED BY <1>3, <1>8

LEMMA EmplaceKeepsTree ==
    ASSUME NEW n, NEW h, Tree(n, h), NEW e \in Entities \ h, NEW p \in Entities \ {e}
    PROVE  Tree(emplace(n, e, p), h \union {e, p})
<1> DEFINE A == Entities \ {e}
<1>1. n \in Nodes /\ n[e].parent = Null
  BY DEF Tree, Shape, Blank
<1>2. \A x \in A : n[x].parent # Null => n[x].parent \in A
  BY <1>1, NoStrayLink, NodeType DEF Handles
<1>3. A \in SUBSET Entities /\ p \in A /\ e \notin A
  OBVIOUS
<1>4. Appended(n, emplace(n, e, p), e, p)
  BY EmplaceAppends
<1> HIDE DEF A
<1> QED BY <1>1, <1>2, <1>3, <1>4, AppendKeepsTree

(* Hierarchy::reparent.                                                    *)
LEMMA ReparentAppends ==
    ASSUME TreeInv, NEW e \in Entities, NEW p \in Entities \ {e}
    PROVE  /\ Tree(Detach(node, e), has)
           /\ Detach(node, e)[e].parent = Null
           /\ Appended(Detach(node, e), reparent(node, e, p), e, p)
<1> PICK d : d = Detach(node, e)
  OBVIOUS
<1> PICK k : k = onDestroy(node, e)
  OBVIOUS
<1>1. Cut(node, d, e) /\ Tree(node, has)
  BY DetachCuts DEF TreeInv
<1>2. Tree(d, has) /\ d[e].parent = Null
  BY <1>1, CutKeepsTree DEF Cut
<1>3. k \in Nodes
  BY OnDestroyLinks
<1>4. d = Unplaced(k, e, Null) /\ Null \in Handles
  BY DEF Detach, Handles
<1>5. /\ d \in Nodes /\ \A x \in Entities \ {e} : d[x] = k[x]
      /\ d[e].parent = Null /\ d[e].next = Null /\ d[e].prev = Null
      /\ d[e].first = k[e].first
  BY <1>3, <1>4, UnplacedNode
<1> PICK u : u = Unplaced(k, e, p)
  OBVIOUS
<1>6. /\ u \in Nodes /\ \A x \in Entities \ {e} : u[x] = k[x]
      /\ u[e].parent = p /\ u[e].next = Null /\ u[e].prev = Null
      /\ u[e].first = k[e].first
  <2>1. p \in Handles
    BY DEF Handles
  <2> QED BY <1>3, <2>1, UnplacedNode
<1>7. \A x \in Entities : /\ u[x].parent = IF x = e THEN p ELSE d[x].parent
                          /\ u[x].first = d[x].first
                          /\ u[x].next = d[x].next
                          /\ u[x].prev = d[x].prev
  BY <1>5, <1>6
<1>8. reparent(node, e, p) = onConstruct(u, e)
  BY DEF reparent
<1>9. Appended(d, onConstruct(u, e), e, p)
  BY <1>2, <1>6, <1>7, OnConstructAppends
<1> QED BY <1>2, <1>8, <1>9

(* Place: e goes below p, where e is not above p.                          *)
LEMMA PlaceKeepsTree ==
    ASSUME TreeInv, NEW e \in Entities, NEW p \in Entities \ {e},
           e \in has => ~isParent(p, e)
    PROVE  Tree(IF e \in has THEN reparent(node, e, p) ELSE emplace(node, e, p), has \union {e, p})
<1>1. Tree(node, has) /\ node \in Nodes /\ Null \notin Entities
  BY HierarchyAssumption DEF TreeInv, Tree, Shape
<1>2. CASE e \notin has
  BY <1>1, <1>2, EmplaceKeepsTree
<1>3. CASE e \in has
  <2> DEFINE A == {p} \union Ancestors(node, p)
  <2> PICK d : d = Detach(node, e)
    OBVIOUS
  <2>1. e \notin Ancestors(node, p)
    BY <1>3 DEF isParent
  <2>2. A \in SUBSET Entities /\ p \in A /\ e \notin A
    BY <1>1, <2>1, AncestorsClosed
  <2>3. \A x \in A : node[x].parent # Null => node[x].parent \in A
    BY <1>1, AncestorsClosed
  <2>4. \A x \in Entities \ {e} : d[x].parent = node[x].parent
    BY DetachCuts DEF Cut
  <2>5. /\ Tree(d, has) /\ d[e].parent = Null
        /\ Appended(d, reparent(node, e, p), e, p)
    BY ReparentAppends
  <2> HIDE DEF A
  <2>6. \A x \in A : d[x].parent # Null => d[x].parent \in A
    BY <2>2, <2>3, <2>4
  <2>7. Tree(reparent(node, e, p), has \union {e, p})
    BY <2>2, <2>5, <2>6, AppendKeepsTree
  <2> QED BY <1>3, <2>7
<1> QED BY <1>2, <1>3

(* The recursion of destroyEntity takes a whole family.                    *)
LEMMA SubtreeIsFamily ==
    ASSUME NEW n, NEW h, Tree(n, h), NEW e \in Entities
    PROVE  /\ Subtree(n, e) \subseteq Entities /\ e \in Subtree(n, e)
           /\ n[e].parent \notin Subtree(n, e)
           /\ \A x \in h \ {e} : n[x].parent # Null =>
                 (n[x].parent \in Subtree(n, e) <=> x \in Subtree(n, e))
<1> PICK G : G = Subtree(n, e)
  OBVIOUS
<1>1. /\ n \in Nodes /\ h \subseteq Entities /\ Links(n, h) /\ Null \notin Entities
      /\ \A x \in Entities \ h : n[x] = Blank
  BY HierarchyAssumption DEF Tree, Shape
<1>2. PICK D \in SUBSET Entities :
              /\ G = {e} \union D
              /\ n[e].first # Null => n[e].first \in D
              /\ \A y \in D : /\ n[y].first # Null => n[y].first \in D
                              /\ n[y].next # Null => n[y].next \in D
              /\ \A S \in SUBSET Entities :
                    /\ n[e].first # Null => n[e].first \in S
                    /\ \A y \in S : /\ n[y].first # Null => n[y].first \in S
                                    /\ n[y].next # Null => n[y].next \in S
                    => D \subseteq S
  BY <1>1, SubtreeWalk
<1>3. D \subseteq {w \in D : w \in h /\ n[w].parent \in G}
  <2> DEFINE S == {w \in D : w \in h /\ n[w].parent \in G}
  <2>1. n[e].first # Null => n[e].first \in S
    BY <1>1, <1>2 DEF Links, Blank
  <2>2. \A y \in S : n[y].first # Null => n[y].first \in S
    BY <1>1, <1>2 DEF Links
  <2>3. \A y \in S : n[y].next # Null => n[y].next \in S
    BY <1>1, <1>2 DEF Links
  <2>4. S \in SUBSET Entities
    OBVIOUS
  <2> HIDE DEF S
  <2>5. D \subseteq S
    BY <1>2, <2>1, <2>2, <2>3, <2>4
  <2> QED BY <2>5 DEF S
<1>4. n[e].parent \notin G
  <2> DEFINE g == [x \in Entities |-> n[x].parent]
  <2>1. Grounded(g) /\ \A x \in Entities : g[x] = n[x].parent
    BY DEF Tree, ParentsEnd
  <2> HIDE DEF g
  <2>2. G \in SUBSET Entities /\ G # {}
    BY <1>2
  <2>3. PICK x \in G : g[x] \notin G
    BY <2>1, <2>2 DEF Grounded
  <2> QED BY <1>2, <1>3, <2>1, <2>3
<1>5. ASSUME NEW x \in h \ {e}, n[x].parent # Null
      PROVE  n[x].parent \in G <=> x \in G
  <2>1. x \in G => n[x].parent \in G
    BY <1>2, <1>3, <1>5
  <2>2. ASSUME n[x].parent \in G PROVE x \in G
    <3> PICK q : q = n[x].parent
      OBVIOUS
    <3>1. q \in Entities /\ q \in G
      BY <1>2, <2>2
    <3>2. x \in getChildren(n, q)
      BY <3>1, ListHolds
    <3>3. n[q].first # Null => n[q].first \in D
      BY <1>2, <3>1
    <3>n. \A y \in D : n[y].next # Null => n[y].next \in D
      BY <1>2
    <3>4. Siblings(n, n[q].first) \subseteq D
      BY <3>n, <3>3, SiblingsLeast
    <3> QED BY <1>2, <3>2, <3>4 DEF getChildren
  <2> QED BY <2>1, <2>2
<1> QED BY <1>2, <1>4, <1>5

(* An entity without children is a family of its own.                      *)
LEMMA LeafSubtree ==
    ASSUME NEW n \in Nodes, NEW e \in Entities, n[e].first = Null
    PROVE  Subtree(n, e) = {e}
<1>1. PICK D \in SUBSET Entities :
              /\ Subtree(n, e) = {e} \union D
              /\ \A S \in SUBSET Entities :
                    /\ n[e].first # Null => n[e].first \in S
                    /\ \A y \in S : /\ n[y].first # Null => n[y].first \in S
                                    /\ n[y].next # Null => n[y].next \in S
                    => D \subseteq S
  BY SubtreeWalk
<1> PICK Z : Z = {}
  OBVIOUS
<1>2. Z \in SUBSET Entities /\ \A y \in Z : /\ n[y].first # Null => n[y].first \in Z
                                            /\ n[y].next # Null => n[y].next \in Z
  OBVIOUS
<1>3. D \subseteq Z
  BY <1>1, <1>2
<1> QED BY <1>1, <1>3

(* What a deletion leaves.                                                 *)
LEMMA RemoveKeepsTree ==
    ASSUME TreeInv, NEW e \in Entities, NEW G, G = Subtree(node, e)
    PROVE  Tree([x \in Entities |-> IF x \in G THEN Blank ELSE onDestroy(node, e)[x]], has \ G)
<1> PICK d : d = Detach(node, e)
  OBVIOUS
<1> PICK k : k = onDestroy(node, e)
  OBVIOUS
<1>1. Cut(node, d, e) /\ Tree(node, has)
  BY DetachCuts DEF TreeInv
<1>2. Tree(d, has) /\ d[e].parent = Null /\ has \subseteq Entities
  BY <1>1, CutKeepsTree DEF Cut, Tree, Shape
<1>3. k \in Nodes
  BY OnDestroyLinks
<1>4. \A x \in Entities \ {e} : d[x] = k[x] /\ d[x].parent = node[x].parent
  <2>1. d = Unplaced(k, e, Null) /\ Null \in Handles
    BY DEF Detach, Handles
  <2>2. \A x \in Entities \ {e} : d[x] = k[x]
    BY <1>3, <2>1, UnplacedNode
  <2> QED BY <1>1, <2>2 DEF Cut
<1>5. /\ G \in SUBSET Entities /\ e \in G
      /\ \A x \in has \ {e} : node[x].parent # Null => (node[x].parent \in G <=> x \in G)
  BY <1>1, SubtreeIsFamily
<1>6. Family(d, has, G)
  BY <1>2, <1>4, <1>5 DEF Family
<1>m. PICK m : m = [x \in Entities |-> IF x \in G THEN Blank ELSE k[x]]
  OBVIOUS
<1>7. m \in Nodes
  BY <1>m, <1>3 DEF Nodes, Blank, Handles
<1>8. Pruned(d, m, G)
  BY <1>m, <1>4, <1>5, <1>7 DEF Pruned
<1>9. Tree(m, has \ G)
  BY <1>2, <1>5, <1>6, <1>8, PruneKeepsTree
<1> QED BY <1>m, <1>9

-----------------------------------------------------------------------------
(* Every step keeps the invariant.  Entities that have children are        *)
(* deleted by the window alone: what Entity::destroy and a drop on the     *)
(* free area do to them is the subject of another run.                     *)

(* A registry without components.                                          *)
LEMMA BlankTree ==
    ASSUME NEW n, n = [e \in Entities |-> Blank]
    PROVE  Tree(n, {})
<1>1. n \in Nodes
  BY DEF Nodes, Blank, Handles
<1>2. Shape(n, {}) /\ Links(n, {})
  BY <1>1 DEF Shape, Links
<1>3. ASSUME NEW g, \A x \in Entities : g[x] = Null PROVE Grounded(g)
  BY <1>3, HierarchyAssumption DEF Grounded
<1>4. ParentsEnd(n) /\ NextsEnd(n) /\ PrevsEnd(n)
  <2> DEFINE a == [x \in Entities |-> n[x].parent]
             b == [x \in Entities |-> n[x].next]
             c == [x \in Entities |-> n[x].prev]
  <2>1. \A x \in Entities : a[x] = Null /\ b[x] = Null /\ c[x] = Null
    BY DEF Blank
  <2>2. /\ ParentsEnd(n) <=> Grounded(a)
        /\ NextsEnd(n) <=> Grounded(b)
        /\ PrevsEnd(n) <=> Grounded(c)
    BY DEF ParentsEnd, NextsEnd, PrevsEnd
  <2> HIDE DEF a, b, c
  <2> QED BY <1>3, <2>1, <2>2
<1> QED BY <1>2, <1>4 DEF Tree

LEMMA InitTree == Init => TreeInv
  BY BlankTree DEF Init, TreeInv

LEMMA PlaceStep ==
    ASSUME TreeInv, NEW e \in valid, NEW p \in valid, p # e,
           e \in has => ~isParent(p, e), Place(e, p)
    PROVE  TreeInv'
<1>1. /\ has \subseteq valid /\ valid \subseteq used /\ used \subseteq Entities
  BY DEF TreeInv
<1>2. /\ node' = IF e \in has THEN reparent(node, e, p) ELSE emplace(node, e, p)
      /\ has' = has \union {e, p} /\ valid' = valid /\ used' = used
  BY DEF Place
<1>3. Tree(node', has')
  BY <1>1, <1>2, PlaceKeepsTree
<1> QED BY <1>1, <1>2, <1>3 DEF TreeInv

(* A component is taken from e, which is a leaf, and from no other.        *)
LEMMA LeafRemoval ==
    ASSUME TreeInv, NEW e \in Entities, node[e].first = Null,
           NEW m, m \in {[onDestroy(node, e) EXCEPT ![e] = Blank], [Detach(node, e) EXCEPT ![e] = Blank]}
    PROVE  /\ m = [x \in Entities |-> IF x \in Subtree(node, e) THEN Blank ELSE onDestroy(node, e)[x]]
           /\ Subtree(node, e) = {e}
<1> PICK k : k = onDestroy(node, e)
  OBVIOUS
<1> PICK d : d = Detach(node, e)
  OBVIOUS
<1>1. Subtree(node, e) = {e}
  BY LeafSubtree DEF TreeInv, Tree, Shape
<1>2. k \in Nodes
  BY OnDestroyLinks
<1>3. d = Unplaced(k, e, Null) /\ Null \in Handles
  BY DEF Detach, Handles
<1>4. d \in Nodes /\ \A x \in Entities \ {e} : d[x] = k[x]
  BY <1>2, <1>3, UnplacedNode
<1>5. m = [x \in Entities |-> IF x \in {e} THEN Blank ELSE k[x]]
  <2>1. CASE m = [k EXCEPT ![e] = Blank]
    BY <1>2, <2>1 DEF Nodes
  <2>2. CASE m = [d EXCEPT ![e] = Blank]
    BY <1>2, <1>4, <2>2 DEF Nodes
  <2> QED BY <2>1, <2>2
<1> QED BY <1>1, <1>5

LEMMA NextKeepsTree ==
    ASSUME LeafDrops, LeafDestroys, TreeInv, Next
    PROVE  TreeInv'
<1>1. /\ has \subseteq valid /\ valid \subseteq used /\ used \subseteq Entities
      /\ Tree(node, has) /\ node \in Nodes
  BY DEF TreeInv, Tree, Shape
<1>2. ASSUME NEW e \in Entities, Create(e) PROVE TreeInv'
  BY <1>1, <1>2 DEF Create, TreeInv
<1>3. ASSUME NEW e \in Entities, NEW p \in Entities, AddChild(e, p) PROVE TreeInv'
  <2>1. e \notin used /\ p \in valid /\ node' = emplace(node, e, p) /\ has' = has \union {e, p}
    BY <1>3 DEF AddChild
  <2>2. Tree(node', has')
    BY <1>1, <2>1, EmplaceKeepsTree
  <2> QED BY <1>1, <1>3, <2>2 DEF AddChild, TreeInv
<1>4. ASSUME NEW e \in Entities, NEW p \in Entities, setParent(e, p) \/ DropOnNode(e, p)
      PROVE  TreeInv'
  <2>1. e \in valid /\ p \in valid /\ p # e /\ (e \in has => ~isParent(p, e)) /\ Place(e, p)
    BY <1>4 DEF setParent, DropOnNode
  <2> QED BY <2>1, PlaceStep
<1>5. ASSUME NEW e \in Entities, DropOnPanel(e) PROVE TreeInv'
  <2>1. node' = Detach(node, e) /\ UNCHANGED <<valid, used, has>>
    BY <1>5 DEF DropOnPanel
  <2>2. Tree(node', has')
    BY <1>1, <2>1, DetachCuts, CutKeepsTree
  <2> QED BY <1>1, <2>1, <2>2 DEF TreeInv
<1>6. ASSUME NEW e \in Entities, DropOnFreeArea(e) PROVE TreeInv'
  <2>1. /\ node' = [Detach(node, e) EXCEPT ![e] = Blank] /\ node[e].first = Null
        /\ has' = has \ {e} /\ UNCHANGED <<valid, used>>
    BY <1>6 DEF DropOnFreeArea
  <2>2. /\ node' = [x \in Entities |-> IF x \in Subtree(node, e) THEN Blank ELSE onDestroy(node, e)[x]]
        /\ Subtree(node, e) = {e}
    BY <2>1, LeafRemoval
  <2>3. Tree(node', has')
    BY <2>1, <2>2, RemoveKeepsTree
  <2> QED BY <1>1, <2>1, <2>3 DEF TreeInv
<1>7. ASSUME NEW e \in Entities, destroyEntity(e) PROVE TreeInv'
  <2> PICK G : G = Subtree(node, e)
    OBVIOUS
  <2>1. /\ node' = [x \in Entities |-> IF x \in G THEN Blank ELSE onDestroy(node, e)[x]]
        /\ valid' = valid \ G /\ has' = has \ G /\ used' = used
    BY <1>7 DEF destroyEntity
  <2>2. Tree(node', has')
    BY <2>1, RemoveKeepsTree
  <2> QED BY <1>1, <2>1, <2>2 DEF TreeInv
<1>8. ASSUME NEW e \in Entities, DestroyAlone(e) PROVE TreeInv'
  <2>1. /\ node' = [onDestroy(node, e) EXCEPT ![e] = Blank] /\ node[e].first = Null
        /\ has' = has \ {e} /\ valid' = valid \ {e} /\ used' = used
    BY <1>8 DEF DestroyAlone
  <2>2. /\ node' = [x \in Entities |-> IF x \in Subtree(node, e) THEN Blank ELSE onDestroy(node, e)[x]]
        /\ Subtree(node, e) = {e}
    BY <2>1, LeafRemoval
  <2>3. Tree(node', has')
    BY <2>1, <2>2, RemoveKeepsTree
  <2> QED BY <1>1, <2>1, <2>3 DEF TreeInv
<1> QED BY <1>2, <1>3, <1>4, <1>5, <1>6, <1>7, <1>8 DEF Next

LEMMA StutterKeepsTree ==
    ASSUME TreeInv, UNCHANGED vars
    PROVE  TreeInv'
  BY DEF TreeInv, vars

-----------------------------------------------------------------------------
(* What a tree gives.                                                      *)

LEMMA TreeLinks ==
    ASSUME TreeInv
    PROVE  TypeOK /\ LinksAgree
<1>1. /\ has \subseteq valid /\ valid \subseteq used /\ used \subseteq Entities
      /\ node \in Nodes /\ Links(node, has)
      /\ \A x \in Entities \ has : node[x] = Blank
  BY DEF TreeInv, Tree, Shape
<1>2. TypeOK
  BY <1>1 DEF TypeOK, Nodes
<1>3. LinksAgree
  BY <1>1 DEF Links, LinksAgree
<1> QED BY <1>2, <1>3

(* Every component is below a root.                                        *)
LEMMA TreeReached ==
    ASSUME NEW n, NEW h, Tree(n, h)
    PROVE  h = UNION {Subtree(n, r) : r \in {e \in h : n[e].parent = Null}}
<1> DEFINE Roots == {e \in h : n[e].parent = Null}
           U == UNION {Subtree(n, r) : r \in Roots}
<1>1. /\ n \in Nodes /\ h \subseteq Entities /\ Links(n, h) /\ Null \notin Entities
  BY HierarchyAssumption DEF Tree, Shape
<1>2. ASSUME NEW r \in Roots, NEW x \in Subtree(n, r) PROVE x \in h
  <2>0. r \in Entities /\ r \in h
    BY <1>1
  <2>1. PICK D \in SUBSET Entities :
              /\ Subtree(n, r) = {r} \union D
              /\ \A S \in SUBSET Entities :
                    /\ n[r].first # Null => n[r].first \in S
                    /\ \A y \in S : /\ n[y].first # Null => n[y].first \in S
                                    /\ n[y].next # Null => n[y].next \in S
                    => D \subseteq S
    BY <1>1, <2>0, SubtreeWalk
  <2>2. n[r].first # Null => n[r].first \in h
    BY <1>1, <2>0 DEF Links
  <2>3. \A y \in h : /\ n[y].first # Null => n[y].first \in h
                     /\ n[y].next # Null => n[y].next \in h
    BY <1>1 DEF Links
  <2>4. D \subseteq h
    BY <1>1, <2>1, <2>2, <2>3
  <2> QED BY <2>0, <2>1, <2>4, <1>2
<1>3. U \subseteq h
  BY <1>2
<1>4. ASSUME NEW x \in h, n[x].parent # Null, n[x].parent \in U PROVE x \in U
  <2>1. PICK r \in Roots : n[x].parent \in Subtree(n, r)
    BY <1>4
  <2>2. r \in Entities /\ r # x
    BY <1>1, <1>4, <2>1
  <2>3. x \in Subtree(n, r)
    BY <1>4, <2>1, <2>2, SubtreeIsFamily
  <2> QED BY <2>1, <2>3
<1>5. ASSUME NEW x \in Roots PROVE x \in U
  <2>1. x \in Entities
    BY <1>1
  <2>2. x \in Subtree(n, x)
    BY <2>1, SubtreeIsFamily
  <2> QED BY <2>2
<1> HIDE DEF U
<1>6. h \subseteq U
  <2> SUFFICES ASSUME h \ U # {} PROVE FALSE
    OBVIOUS
  <2> DEFINE g == [x \in Entities |-> n[x].parent]
  <2>1. Grounded(g) /\ \A x \in Entities : g[x] = n[x].parent
    BY DEF Tree, ParentsEnd
  <2> HIDE DEF g
  <2>2. h \ U \in SUBSET Entities
    BY <1>1
  <2>3. PICK x \in h \ U : g[x] \notin h \ U
    BY <2>1, <2>2 DEF Grounded
  <2>4. x \in h /\ x \notin U /\ n[x].parent \notin h \ U
    BY <1>1, <2>1, <2>3
  <2>5. n[x].parent # Null
    BY <1>5, <2>4
  <2>6. n[x].parent \in h
    BY <1>1, <2>4, <2>5 DEF Links
  <2> QED BY <1>4, <2>4, <2>5, <2>6
<1> QED BY <1>3, <1>6 DEF U

(* No entity is above itself.                                              *)
LEMMA TreeHasNoCycle ==
    ASSUME NEW n, NEW h, Tree(n, h), NEW e \in Entities
    PROVE  e \notin Ancestors(n, e)
<1> SUFFICES ASSUME e \in Ancestors(n, e) PROVE FALSE
  OBVIOUS
<1> DEFINE T == {x \in Ancestors(n, e) : e \in Ancestors(n, x)}
           g == [x \in Entities |-> n[x].parent]
<1>1. n \in Nodes
  BY DEF Tree, Shape
<1>2. Ancestors(n, e) \subseteq Entities
  BY <1>1, AncestorsClosed
<1>3. Grounded(g) /\ \A x \in Entities : g[x] = n[x].parent
  BY DEF Tree, ParentsEnd
<1> HIDE DEF g
<1>4. T \in SUBSET Entities /\ T # {}
  BY <1>2
<1>5. PICK x \in T : g[x] \notin T
  BY <1>3, <1>4 DEF Grounded
<1>6. x \in Entities /\ x \in Ancestors(n, e) /\ e \in Ancestors(n, x) /\ n[x].parent \notin T
  BY <1>2, <1>3, <1>5
<1> PICK q : q = n[x].parent
  OBVIOUS
<1>7. q # Null
  <2> SUFFICES ASSUME q = Null PROVE FALSE
    OBVIOUS
  <2> PICK Z : Z = {}
    OBVIOUS
  <2>1. Z \in SUBSET Entities /\ \A y \in Z : n[y].parent # Null => n[y].parent \in Z
    OBVIOUS
  <2>2. Ancestors(n, x) \subseteq Z
    BY <2>1, AncestorsLeast
  <2> QED BY <1>6, <2>2
<1>8. q \in Ancestors(n, e) /\ q \in Entities
  BY <1>1, <1>2, <1>6, <1>7, AncestorsClosed
<1>9. Ancestors(n, x) \subseteq {q} \union Ancestors(n, q)
  <2> DEFINE S == {q} \union Ancestors(n, q)
  <2>1. S \in SUBSET Entities /\ \A y \in S : n[y].parent # Null => n[y].parent \in S
    BY <1>1, <1>8, AncestorsClosed
  <2>2. n[x].parent \in S
    OBVIOUS
  <2> HIDE DEF S
  <2>3. Ancestors(n, x) \subseteq S
    BY <2>1, <2>2, AncestorsLeast
  <2> QED BY <2>3 DEF S
<1>10. e = q \/ e \in Ancestors(n, q)
  BY <1>6, <1>9
<1> QED BY <1>6, <1>8, <1>10

(* Whoever is below e has e above it.                                      *)
LEMMA SubtreeBelow ==
    ASSUME NEW n, NEW h, Tree(n, h), NEW e \in Entities, NEW x \in Subtree(n, e) \ {e}
    PROVE  e \in Ancestors(n, x)
<1>1. /\ n \in Nodes /\ h \subseteq Entities /\ Links(n, h) /\ Null \notin Entities
      /\ \A y \in Entities \ h : n[y] = Blank
  BY HierarchyAssumption DEF Tree, Shape
<1>2. PICK D \in SUBSET Entities :
              /\ Subtree(n, e) = {e} \union D
              /\ \A S \in SUBSET Entities :
                    /\ n[e].first # Null => n[e].first \in S
                    /\ \A y \in S : /\ n[y].first # Null => n[y].first \in S
                                    /\ n[y].next # Null => n[y].next \in S
                    => D \subseteq S
  BY <1>1, SubtreeWalk
<1> DEFINE S == {w \in h : e \in Ancestors(n, w)}
<1>3. ASSUME NEW w \in Entities, n[w].parent # Null
      PROVE  /\ n[w].parent \in Ancestors(n, w)
             /\ \A y \in Ancestors(n, w) : n[y].parent # Null => n[y].parent \in Ancestors(n, w)
             /\ Ancestors(n, w) \in SUBSET Entities
  BY <1>1, <1>3, AncestorsClosed
<1>4. n[e].first # Null => n[e].first \in S
  BY <1>1, <1>3 DEF Links, Blank
<1>5. ASSUME NEW y \in S, n[y].first # Null PROVE n[y].first \in S
  <2> PICK w : w = n[y].first
    OBVIOUS
  <2>1. w \in h /\ n[w].parent = y /\ w \in Entities /\ y \in Entities
    BY <1>1, <1>5 DEF Links
  <2>2. y \in Ancestors(n, w) /\ Ancestors(n, w) \in SUBSET Entities
    BY <1>1, <1>3, <2>1
  <2>3. \A z \in Ancestors(n, w) : n[z].parent # Null => n[z].parent \in Ancestors(n, w)
    BY <1>1, <1>3, <2>1
  <2>4. n[y].parent # Null => n[y].parent \in Ancestors(n, w)
    BY <2>2, <2>3
  <2>5. Ancestors(n, y) \subseteq Ancestors(n, w)
    BY <2>2, <2>3, <2>4, AncestorsLeast
  <2> QED BY <1>5, <2>1, <2>5
<1>6. ASSUME NEW y \in S, n[y].next # Null PROVE n[y].next \in S
  <2> PICK w : w = n[y].next
    OBVIOUS
  <2>1. w \in h /\ n[w].parent = n[y].parent /\ w \in Entities /\ y \in Entities
        /\ n[w].parent # Null
    BY <1>1, <1>6 DEF Links
  <2>2. n[y].parent \in Ancestors(n, w) /\ Ancestors(n, w) \in SUBSET Entities
    BY <1>3, <2>1
  <2>3. \A z \in Ancestors(n, w) : n[z].parent # Null => n[z].parent \in Ancestors(n, w)
    BY <1>3, <2>1
  <2>4. Ancestors(n, y) \subseteq Ancestors(n, w)
    BY <2>2, <2>3, AncestorsLeast
  <2> QED BY <1>6, <2>1, <2>4
<1>7. S \in SUBSET Entities
  BY <1>1
<1> HIDE DEF S
<1>8. D \subseteq S
  BY <1>2, <1>4, <1>5, <1>6, <1>7
<1> QED BY <1>2, <1>8 DEF S

(* The root whose recursion reaches e is the only root above e.            *)
LEMMA OneRoot ==
    ASSUME NEW n, NEW h, Tree(n, h), NEW e \in h, n[e].parent # Null,
           NEW r \in h, n[r].parent = Null, e \in Subtree(n, r),
           NEW a \in Ancestors(n, e), n[a].parent = Null
    PROVE  a = r
<1>1. n \in Nodes /\ h \subseteq Entities /\ Null \notin Entities
      /\ \A y \in Entities \ h : n[y] = Blank
  BY HierarchyAssumption DEF Tree, Shape
<1> PICK S : S = Subtree(n, r)
  OBVIOUS
<1>2. /\ S \in SUBSET Entities
      /\ \A x \in h \ {r} : n[x].parent # Null => (n[x].parent \in S <=> x \in S)
  BY <1>1, SubtreeIsFamily
<1>3. n[e].parent \in S
  BY <1>2
<1>4. \A y \in S : n[y].parent # Null => n[y].parent \in S
  BY <1>1, <1>2 DEF Blank
<1>5. a \in S
  BY <1>2, <1>3, <1>4, AncestorsLeast
<1>6. Ancestors(n, a) = {}
  <2> PICK none : none = {}
    OBVIOUS
  <2>1. Ancestors(n, a) \subseteq none
    BY AncestorsLeast
  <2> QED BY <2>1
<1>7. a # r => r \in Ancestors(n, a)
  BY <1>1, <1>5, SubtreeBelow
<1> QED BY <1>6, <1>7

-----------------------------------------------------------------------------
(* The order of the children.                                              *)

(* The list closes behind e; the order of the others stays.                *)
LEMMA CutSiblings ==
    ASSUME NEW n, NEW m, NEW h, Tree(n, h), NEW e \in Entities, Cut(n, m, e),
           NEW a \in Entities \ {e}
    PROVE  Siblings(m, a) \ {e} = Siblings(n, a) \ {e}
<1> DEFINE A == Siblings(n, a)
           B == Siblings(m, a)
<1>1. n \in Nodes /\ m \in Nodes /\ Null \notin Entities /\ a \in Handles /\ a # Null
  BY HierarchyAssumption DEF Tree, Shape, Cut, Handles
<1>2. n[e].next # e /\ m[e].next = Null
  BY NoSelfLink DEF Tree, Cut
<1>3. \A x \in Entities \ {e} : m[x].next = IF n[x].next = e THEN n[e].next ELSE n[x].next
  BY DEF Cut
<1>4. /\ A \subseteq Entities /\ a \in A
      /\ \A y \in A : n[y].next # Null => n[y].next \in A
  BY <1>1, SiblingsClosed
<1>5. /\ B \subseteq Entities /\ a \in B
      /\ \A y \in B : m[y].next # Null => m[y].next \in B
  BY <1>1, SiblingsClosed
<1>6. B \subseteq A
  <2> HIDE DEF A
  <2>1. A \in SUBSET Entities /\ \A y \in A : m[y].next # Null => m[y].next \in A
    BY <1>1, <1>2, <1>3, <1>4
  <2> QED BY <1>4, <2>1, SiblingsLeast
<1>7. e \notin B
  <2> DEFINE S == Entities \ {e}
  <2>1. S \in SUBSET Entities /\ \A y \in S : m[y].next # Null => m[y].next \in S
    BY <1>1, <1>2, <1>3, NodeType DEF Handles
  <2>2. a \in S
    OBVIOUS
  <2> HIDE DEF S
  <2>3. B \subseteq S
    BY <2>1, <2>2, SiblingsLeast
  <2> QED BY <2>3 DEF S
<1>8. A \subseteq B \union {e}
  <2> DEFINE S == {x \in Entities : x \in B \/ (x = e /\ (n[e].next = Null \/ n[e].next \in B))}
  <2> HIDE DEF A, B
  <2>1. \A y \in S : n[y].next # Null => n[y].next \in S
    BY <1>2, <1>3, <1>5, <1>7
  <2>2. S \in SUBSET Entities /\ a \in S
    BY <1>5
  <2>3. S \subseteq B \union {e}
    OBVIOUS
  <2> HIDE DEF S
  <2>4. A \subseteq S
    BY <2>1, <2>2, SiblingsLeast DEF A
  <2> QED BY <2>3, <2>4
<1> QED BY <1>6, <1>8

LEMMA AppendSiblings ==
    ASSUME NEW n, NEW m, NEW h, Tree(n, h), NEW e \in Entities, NEW p \in Entities \ {e},
           n[e].parent = Null, Appended(n, m, e, p), NEW a \in Entities \ {e}
    PROVE  Siblings(m, a) \ {e} = Siblings(n, a) \ {e}
<1> DEFINE A == Siblings(n, a)
           B == Siblings(m, a)
<1>1. n \in Nodes /\ m \in Nodes /\ Null \notin Entities /\ a \in Handles /\ a # Null
  BY HierarchyAssumption DEF Tree, Shape, Appended, Handles
<1>2. /\ \A x \in Entities : m[x].next = n[x].next \/ (m[x].next = e /\ n[x].next = Null)
      /\ m[e].next = Null
  <2>1. n[e].next = Null
    BY DEF Tree, Shape, Links, Blank
  <2>2. CASE AppendedFirst(n, m, e, p)
    BY <2>1, <2>2 DEF AppendedFirst
  <2>3. ASSUME NEW y \in Entities, AppendedBehind(n, m, e, p, y)
        PROVE  /\ \A x \in Entities : m[x].next = n[x].next \/ (m[x].next = e /\ n[x].next = Null)
               /\ m[e].next = Null
    BY <2>1, <2>3 DEF AppendedBehind
  <2> QED BY <2>2, <2>3 DEF Appended
<1>3. /\ A \subseteq Entities /\ a \in A
      /\ \A y \in A : n[y].next # Null => n[y].next \in A
  BY <1>1, SiblingsClosed
<1>4. /\ B \subseteq Entities /\ a \in B
      /\ \A y \in B : m[y].next # Null => m[y].next \in B
  BY <1>1, SiblingsClosed
<1>5. A \subseteq B
  <2>1. B \in SUBSET Entities /\ \A y \in B : n[y].next # Null => n[y].next \in B
    BY <1>2, <1>4
  <2> HIDE DEF B
  <2> QED BY <1>4, <2>1, SiblingsLeast
<1>6. B \subseteq A \union {e}
  <2> DEFINE S == A \union {e}
  <2>1. S \in SUBSET Entities /\ a \in S
    BY <1>3
  <2>2. \A y \in S : m[y].next # Null => m[y].next \in S
    BY <1>2, <1>3
  <2> HIDE DEF S
  <2>3. B \subseteq S
    BY <2>1, <2>2, SiblingsLeast
  <2> QED BY <2>3 DEF S
<1> QED BY <1>5, <1>6

(* Only e has moved, and it is last.                                       *)
OnlyMoves(n, m, e) ==
    /\ \A q \in Entities \ {e} : m[q].parent = n[q].parent
    /\ \A a \in Entities \ {e} : Siblings(m, a) \ {e} = Siblings(n, a) \ {e}
    /\ m[e].next = Null

LEMMA OnlyMovesChildren ==
    ASSUME NEW n, NEW h, Tree(n, h), NEW m, NEW H, Tree(m, H), NEW e \in Entities,
           OnlyMoves(n, m, e), NEW p \in Entities
    PROVE  /\ getChildren(m, p) \ {e} = getChildren(n, p) \ {e}
           /\ e \in getChildren(m, p) => Siblings(m, e) = {e}
           /\ \A x \in getChildren(n, p) \ {e} : Siblings(m, x) \ {e} = Siblings(n, x) \ {e}
<1>1. /\ h \subseteq Entities /\ H \subseteq Entities /\ Null \notin Entities
      /\ \A x \in Entities \ h : n[x].parent = Null
      /\ \A x \in Entities \ H : m[x].parent = Null
      /\ m \in Nodes
  BY HierarchyAssumption DEF Tree, Shape, Blank
<1>2. /\ getChildren(m, p) = {y \in H : m[y].parent = p}
      /\ getChildren(n, p) = {y \in h : n[y].parent = p}
  BY ListHolds
<1>3. getChildren(m, p) \ {e} = getChildren(n, p) \ {e}
  BY <1>1, <1>2 DEF OnlyMoves
<1>4. Siblings(m, e) = {e}
  <2> PICK S : S = {e}
    OBVIOUS
  <2>1. S \in SUBSET Entities /\ \A y \in S : m[y].next # Null => m[y].next \in S
    BY DEF OnlyMoves
  <2>2. Siblings(m, e) \subseteq S
    BY <2>1, SiblingsLeast
  <2>3. e \in Siblings(m, e)
    BY <1>1, SiblingsClosed DEF Handles
  <2> QED BY <2>2, <2>3
<1>5. \A x \in getChildren(n, p) \ {e} : Siblings(m, x) \ {e} = Siblings(n, x) \ {e}
  BY <1>1, <1>2 DEF OnlyMoves
<1> QED BY <1>3, <1>4, <1>5

(* The two halves of an edit.                                              *)
LEMMA CutOnlyMoves ==
    ASSUME NEW n, NEW m, NEW h, Tree(n, h), NEW e \in Entities, Cut(n, m, e)
    PROVE  OnlyMoves(n, m, e)
<1>1. \A a \in Entities \ {e} : Siblings(m, a) \ {e} = Siblings(n, a) \ {e}
  BY CutSiblings
<1> QED BY <1>1 DEF OnlyMoves, Cut

LEMMA AppendOnlyMoves ==
    ASSUME NEW n, NEW k, NEW m, NEW h, Tree(n, h), NEW e \in Entities, NEW p \in Entities \ {e},
           Cut(n, k, e), Appended(k, m, e, p)
    PROVE  OnlyMoves(n, m, e)
<1>1. Tree(k, h) /\ k[e].parent = Null /\ k[e].next = Null
  BY CutKeepsTree DEF Cut
<1>2. \A a \in Entities \ {e} : Siblings(m, a) \ {e} = Siblings(k, a) \ {e}
  BY <1>1, AppendSiblings
<1>3. \A a \in Entities \ {e} : Siblings(k, a) \ {e} = Siblings(n, a) \ {e}
  BY CutSiblings
<1>4. \A q \in Entities \ {e} : m[q].parent = n[q].parent
  BY DEF Cut, Appended
<1>5. m[e].next = Null
  <2>1. CASE AppendedFirst(k, m, e, p)
    BY <1>1, <2>1 DEF AppendedFirst
  <2>2. ASSUME NEW y \in Entities, AppendedBehind(k, m, e, p, y)
        PROVE  m[e].next = Null
    BY <1>1, <2>2 DEF AppendedBehind
  <2> QED BY <2>1, <2>2 DEF Appended
<1>6. \A a \in Entities \ {e} : Siblings(m, a) \ {e} = Siblings(n, a) \ {e}
  BY <1>2, <1>3
<1> QED BY <1>4, <1>5, <1>6 DEF OnlyMoves

(* An edit that deletes nothing moves one entity.                          *)
LEMMA EditOnlyMoves ==
    ASSUME LeafDrops, LeafDestroys, TreeInv, Next, valid \subseteq valid'
    PROVE  \E e \in Entities : OnlyMoves(node, node', e)
<1>1. /\ has \subseteq valid /\ valid \subseteq used /\ used \subseteq Entities
      /\ Tree(node, has) /\ node \in Nodes
      /\ \A x \in Entities \ has : node[x] = Blank
  BY DEF TreeInv, Tree, Shape
<1>2. ASSUME NEW e \in Entities, Create(e) PROVE OnlyMoves(node, node', e)
  <2>1. node' = node /\ e \notin has
    BY <1>1, <1>2 DEF Create
  <2>2. Cut(node, node', e)
    BY <1>1, <2>1, CutNothing
  <2> QED BY <1>1, <2>2, CutOnlyMoves
<1>3. ASSUME NEW e \in Entities, NEW p \in Entities, AddChild(e, p)
      PROVE  OnlyMoves(node, node', e)
  <2>1. e \notin has /\ p # e /\ node' = emplace(node, e, p)
    BY <1>1, <1>3 DEF AddChild
  <2>2. Cut(node, node, e)
    BY <1>1, <2>1, CutNothing
  <2>3. Appended(node, node', e, p)
    BY <1>1, <2>1, EmplaceAppends
  <2> QED BY <1>1, <2>1, <2>2, <2>3, AppendOnlyMoves
<1>4. ASSUME NEW e \in Entities, NEW p \in Entities, setParent(e, p) \/ DropOnNode(e, p)
      PROVE  OnlyMoves(node, node', e)
  <2>1. p # e /\ node' = IF e \in has THEN reparent(node, e, p) ELSE emplace(node, e, p)
    BY <1>4 DEF setParent, DropOnNode, Place
  <2>2. CASE e \in has
    <3>1. Cut(node, Detach(node, e), e)
      BY DetachCuts
    <3>2. Appended(Detach(node, e), node', e, p)
      BY <2>1, <2>2, ReparentAppends
    <3> QED BY <1>1, <2>1, <3>1, <3>2, AppendOnlyMoves
  <2>3. CASE e \notin has
    <3>1. Cut(node, node, e)
      BY <1>1, <2>3, CutNothing
    <3>2. Appended(node, node', e, p)
      BY <1>1, <2>1, <2>3, EmplaceAppends
    <3> QED BY <1>1, <2>1, <3>1, <3>2, AppendOnlyMoves
  <2> QED BY <2>2, <2>3
<1>5. ASSUME NEW e \in Entities, DropOnPanel(e) PROVE OnlyMoves(node, node', e)
  <2>1. Cut(node, node', e)
    BY <1>5, DetachCuts DEF DropOnPanel
  <2> QED BY <1>1, <2>1, CutOnlyMoves
<1>6. ASSUME NEW e \in Entities, DropOnFreeArea(e) PROVE OnlyMoves(node, node', e)
  <2> PICK d : d = Detach(node, e)
    OBVIOUS
  <2>1. node' = [d EXCEPT ![e] = Blank] /\ node[e].first = Null
    BY <1>6 DEF DropOnFreeArea
  <2>2. Cut(node, d, e) /\ d \in Nodes
    BY DetachCuts DEF Cut
  <2>3. node' \in Nodes /\ node'[e] = Blank /\ \A x \in Entities \ {e} : node'[x] = d[x]
    BY <2>1, <2>2 DEF Nodes, Blank, Handles
  <2>4. Cut(node, node', e)
    <3>1. /\ node'[e].parent = Null /\ node'[e].next = Null /\ node'[e].prev = Null
          /\ node'[e].first = node[e].first
      BY <2>1, <2>3 DEF Blank
    <3> QED BY <2>2, <2>3, <3>1 DEF Cut
  <2> QED BY <1>1, <2>4, CutOnlyMoves
<1>7. ASSUME NEW e \in Entities, destroyEntity(e) \/ DestroyAlone(e) PROVE FALSE
  <2>1. e \in Subtree(node, e)
    BY <1>1, SubtreeIsFamily
  <2>2. e \in valid /\ e \notin valid'
    BY <1>7, <2>1 DEF destroyEntity, DestroyAlone
  <2> QED BY <2>2
<1> QED BY <1>2, <1>3, <1>4, <1>5, <1>6, <1>7 DEF Next

(* A deletion takes a whole family and leaves the parents of the others.   *)
LEMMA DeletionStep ==
    ASSUME LeafDrops, LeafDestroys, TreeInv, Next, valid' \subseteq valid, valid' # valid,
           NEW q \in valid'
    PROVE  /\ node'[q].parent = node[q].parent
           /\ node[q].parent # Null => node[q].parent \in valid'
<1>1. /\ has \subseteq valid /\ valid \subseteq used /\ used \subseteq Entities
      /\ Tree(node, has) /\ node \in Nodes /\ Links(node, has)
      /\ \A x \in Entities \ has : node[x] = Blank
  BY DEF TreeInv, Tree, Shape
<1>2. PICK e \in Entities : destroyEntity(e) \/ DestroyAlone(e)
  BY <1>1 DEF Next, Create, AddChild, setParent, DropOnNode, Place, DropOnPanel, DropOnFreeArea
<1> PICK G : G = Subtree(node, e)
  OBVIOUS
<1> PICK k : k = onDestroy(node, e)
  OBVIOUS
<1>3. /\ valid' = valid \ G
      /\ node' = [x \in Entities |-> IF x \in G THEN Blank ELSE k[x]]
  <2>1. CASE destroyEntity(e)
    BY <2>1 DEF destroyEntity
  <2>2. CASE DestroyAlone(e)
    <3>1. /\ node' = [onDestroy(node, e) EXCEPT ![e] = Blank] /\ node[e].first = Null
          /\ valid' = valid \ {e}
      BY <2>2 DEF DestroyAlone
    <3> QED BY <3>1, LeafRemoval
  <2> QED BY <1>2, <2>1, <2>2
<1>4. /\ G \subseteq Entities /\ e \in G
      /\ \A x \in has \ {e} : node[x].parent # Null => (node[x].parent \in G <=> x \in G)
  BY <1>1, SubtreeIsFamily
<1>5. q \in valid /\ q \notin G /\ q # e /\ q \in Entities
  BY <1>1, <1>3, <1>4
<1>6. k[q].parent = node[q].parent
  BY <1>5, OnDestroyLinks
<1>7. node'[q].parent = node[q].parent
  BY <1>3, <1>5, <1>6
<1>8. ASSUME node[q].parent # Null PROVE node[q].parent \in valid'
  <2>1. q \in has
    BY <1>1, <1>5, <1>8 DEF Blank
  <2>2. node[q].parent \in has
    BY <1>1, <1>8, <2>1 DEF Links
  <2> QED BY <1>1, <1>3, <1>4, <1>5, <1>8, <2>1, <2>2
<1> QED BY <1>7, <1>8

-----------------------------------------------------------------------------
(* Theorems.                                                               *)

LEMMA TreeAlways == LeafDrops /\ LeafDestroys /\ Spec => []TreeInv
<1> SUFFICES ASSUME LeafDrops, LeafDestroys PROVE Spec => []TreeInv
  OBVIOUS
<1>1. Init => TreeInv
  BY InitTree
<1>2. TreeInv /\ [Next]_vars => TreeInv'
  BY NextKeepsTree, StutterKeepsTree
<1> QED BY <1>1, <1>2, PTL DEF Spec

(* The registry and the components have their types, and an entity without *)
(* a component is linked to nothing, whatever the number of entities.      *)
THEOREM HierarchyTypes == LeafDrops /\ LeafDestroys /\ Spec => []TypeOK
<1>1. TreeInv => TypeOK
  BY TreeLinks
<1> QED BY <1>1, TreeAlways, PTL

(* Both directions of every link of the tree agree after any sequence of   *)
(* creations, moves, drops and deletions.                                  *)
THEOREM LinksAlwaysAgree == LeafDrops /\ LeafDestroys /\ Spec => []LinksAgree
<1>1. TreeInv => LinksAgree
  BY TreeLinks
<1> QED BY <1>1, TreeAlways, PTL

(* SceneGraph::update, whatever entities have a Transform: it sets the     *)
(* matrix of those whose parent and root have one, and of no others.       *)
THEOREM UpdateReachesAll == LeafDrops /\ LeafDestroys /\ Spec => []EveryChildUpdated
<1>1. ASSUME TreeInv, NEW transform \in SUBSET valid, NEW e \in transform
      PROVE  e \in update(transform) <=>
                \A a \in Ancestors(node, e) :
                    node[a].parent = Null \/ a = node[e].parent => a \in transform
  <2> PICK T : T = transform
    OBVIOUS
  <2>0. e \in Entities /\ e \in T /\ T \subseteq Entities /\ Tree(node, has)
    BY <1>1 DEF TreeInv
  <2>1. node \in Nodes /\ has \subseteq Entities /\ \A x \in Entities \ has : node[x] = Blank
    BY <2>0 DEF Tree, Shape
  <2>2. CASE node[e].parent = Null
    <3>1. Ancestors(node, e) = {}
      <4> PICK none : none = {}
        OBVIOUS
      <4>1. Ancestors(node, e) \subseteq none
        BY <2>2, AncestorsLeast
      <4> QED BY <4>1
    <3>2. e \in has => e \in Subtree(node, e)
      BY <2>0, SubtreeIsFamily
    <3> QED BY <2>0, <2>2, <3>1, <3>2 DEF update
  <2>3. CASE node[e].parent # Null
    <3>1. e \in has
      BY <2>0, <2>1, <2>3 DEF Blank
    <3>2. node[e].parent \in Ancestors(node, e)
      BY <2>0, <2>1, <2>3, AncestorsClosed
    <3>3. PICK r \in has : /\ node[r].parent = Null
                           /\ e \in Subtree(node, r)
      BY <2>0, <3>1, TreeReached
    <3>4. r \in Ancestors(node, e)
      BY <2>0, <2>1, <2>3, <3>3, SubtreeBelow
    <3>5. \A q \in has : node[q].parent = Null /\ e \in Subtree(node, q) =>
              \A a \in Ancestors(node, e) : node[a].parent = Null => a = q
      BY <2>0, <2>1, <2>3, <3>1, OneRoot
    <3>6. \A q \in has : node[q].parent = Null /\ e \in Subtree(node, q) => q = r
      BY <3>3, <3>4, <3>5
    <3>7. e \in update(T) <=> r \in T /\ node[e].parent \in T
      BY <2>0, <2>3, <3>1, <3>3, <3>6 DEF update
    <3>8. (\A a \in Ancestors(node, e) : node[a].parent = Null \/ a = node[e].parent => a \in T)
            <=> r \in T /\ node[e].parent \in T
      BY <3>2, <3>3, <3>4, <3>5
    <3> QED BY <3>7, <3>8
  <2> QED BY <2>2, <2>3
<1>2. TreeInv => EveryChildUpdated
  BY <1>1 DEF EveryChildUpdated
<1> QED BY <1>2, TreeAlways, PTL

(* An edit other than a deletion leaves every child but one where it was,  *)
(* in its order, and puts the moved one last: Hierarchy::reparent and      *)
(* onConstruct of any entity, below any other.                             *)
THEOREM MovesAppend == LeafDrops /\ LeafDestroys /\ Spec => MoveAppends
<1> SUFFICES ASSUME LeafDrops, LeafDestroys PROVE Spec => MoveAppends
  OBVIOUS
<1>1. TreeInv /\ TreeInv' /\ [Next]_vars =>
        [valid \subseteq valid' =>
           \E e \in Entities :
              /\ \A q \in valid \ {e} : node'[q].parent = node[q].parent
              /\ \A p \in valid :
                    LET old == getChildren(node, p)
                        new == getChildren(node', p)
                    IN  /\ new \ {e} = old \ {e}
                        /\ e \in new => Siblings(node', e) = {e}
                        /\ \A x \in old \ {e} :
                              Siblings(node', x) \ {e} = Siblings(node, x) \ {e}]_vars
  <2> SUFFICES ASSUME TreeInv, TreeInv', Next, valid \subseteq valid'
               PROVE  \E e \in Entities :
                        /\ \A q \in valid \ {e} : node'[q].parent = node[q].parent
                        /\ \A p \in valid :
                              LET old == getChildren(node, p)
                                  new == getChildren(node', p)
                              IN  /\ new \ {e} = old \ {e}
                                  /\ e \in new => Siblings(node', e) = {e}
                                  /\ \A x \in old \ {e} :
                                        Siblings(node', x) \ {e} = Siblings(node, x) \ {e}
    OBVIOUS
  <2>1. PICK e \in Entities : OnlyMoves(node, node', e)
    BY EditOnlyMoves
  <2>2. valid \subseteq Entities /\ Tree(node, has) /\ Tree(node', has')
    BY DEF TreeInv
  <2>3. \A q \in valid \ {e} : node'[q].parent = node[q].parent
    BY <2>1, <2>2 DEF OnlyMoves
  <2>4. \A p \in valid :
           /\ getChildren(node', p) \ {e} = getChildren(node, p) \ {e}
           /\ e \in getChildren(node', p) => Siblings(node', e) = {e}
           /\ \A x \in getChildren(node, p) \ {e} :
                 Siblings(node', x) \ {e} = Siblings(node, x) \ {e}
    BY <2>1, <2>2, OnlyMovesChildren
  <2> QED BY <2>3, <2>4
<1> QED BY <1>1, TreeAlways, PTL DEF Spec, MoveAppends

(* What a deletion leaves has its parent left, and keeps it: the window's  *)
(* recursion over the children and Entity::destroy of a leaf.              *)
THEOREM DeletionsAreAlwaysWhole == LeafDrops /\ LeafDestroys /\ Spec => DeletionsAreWhole
<1> SUFFICES ASSUME LeafDrops, LeafDestroys PROVE Spec => DeletionsAreWhole
  OBVIOUS
<1>1. TreeInv /\ [Next]_vars =>
        [\A e \in valid' : valid' \subseteq valid /\ valid' # valid =>
            /\ node'[e].parent = node[e].parent
            /\ node[e].parent # Null => node[e].parent \in valid']_vars
  BY DeletionStep
<1> QED BY <1>1, TreeAlways, PTL DEF Spec, DeletionsAreWhole
=============================================================================
