--------------------------- MODULE SpritesProofs ----------------------------
(***************************************************************************)
(* Images in an atlas never overlap and the search tree loses no leftover, *)
(* for atlases of any size and images that are not larger.                 *)
(***************************************************************************)
EXTENDS Sprites, SequenceFacts

-----------------------------------------------------------------------------
(* The tree, as far as the packing depends on it: which rectangles it      *)
(* holds.  Where in the tree a rectangle hangs does not matter to this.    *)

IsNode(n) == n = [value |-> n.value, parent |-> n.parent, kid |-> n.kid]

IsTree(t) ==
    /\ t = [root |-> t.root, nodes |-> t.nodes]
    /\ t.nodes = [k \in DOMAIN t.nodes |-> t.nodes[k]]
    /\ \A k \in DOMAIN t.nodes : IsNode(t.nodes[k])

Keys(t)     == DOMAIN t.nodes
Value(t, k) == t.nodes[k].value

SameRects(s, t) == Keys(s) = Keys(t) /\ \A k \in Keys(t) : Value(s, k) = Value(t, k)

LEMMA HangFacts ==
    ASSUME NEW nodes, nodes = [k \in DOMAIN nodes |-> nodes[k]],
           \A k \in DOMAIN nodes : IsNode(nodes[k]), NEW start, NEW key
    PROVE  LET c == Hang(nodes, start, key)
           IN  /\ DOMAIN c = DOMAIN nodes /\ c = [k \in DOMAIN c |-> c[k]]
               /\ \A k \in DOMAIN nodes : IsNode(c[k]) /\ c[k].value = nodes[k].value
<1> DEFINE v == nodes[key].value
           p == Room(nodes, start, v)
           d == Compare(v, nodes[p].value)
           b == [nodes EXCEPT ![p].kid[d] = key]
           c == [b EXCEPT ![key].parent = p]
<1>1. Hang(nodes, start, key) = [nodes EXCEPT ![p].kid[d] = key, ![key].parent = p]
  BY DEF Hang
<1> HIDE DEF p, d, v
<1>2. Hang(nodes, start, key) = c
  BY <1>1
<1>3. /\ DOMAIN b = DOMAIN nodes /\ b = [k \in DOMAIN b |-> b[k]]
      /\ \A k \in DOMAIN nodes : IsNode(b[k]) /\ b[k].value = nodes[k].value
  <2>1. b = [k \in DOMAIN nodes |-> IF k = p THEN [nodes[p] EXCEPT !.kid[d] = key] ELSE nodes[k]]
    OBVIOUS
  <2>2. QED
    BY <2>1 DEF IsNode
<1> HIDE DEF b
<1>4. /\ DOMAIN c = DOMAIN b /\ c = [k \in DOMAIN c |-> c[k]]
      /\ \A k \in DOMAIN b : IsNode(c[k]) /\ c[k].value = b[k].value
  <2>1. c = [k \in DOMAIN b |-> IF k = key THEN [b[key] EXCEPT !.parent = p] ELSE b[k]]
    BY <1>3
  <2>2. QED
    BY <1>3, <2>1 DEF IsNode
<1> HIDE DEF c
<1>5. QED
  BY <1>2, <1>3, <1>4

(* Hanging a node elsewhere keeps the rectangles.                          *)
LEMMA ReaddFacts ==
    ASSUME NEW t, IsTree(t), NEW start, NEW key
    PROVE  LET s == readd(t, start, key)
           IN  IsTree(s) /\ SameRects(s, t)
<1> DEFINE from == IF start = 0 THEN t.root ELSE start
           c == [t.nodes EXCEPT ![key].parent = 0]
           h == Hang(t.nodes, from, key)
<1>1. CASE start = 0 /\ t.root = 0
  <2>1. readd(t, start, key) = [root |-> key, nodes |-> c]
    BY <1>1 DEF readd
  <2>2. /\ DOMAIN c = DOMAIN t.nodes /\ c = [k \in DOMAIN c |-> c[k]]
        /\ \A k \in DOMAIN c : IsNode(c[k]) /\ c[k].value = t.nodes[k].value
    BY DEF IsTree, IsNode
  <2> HIDE DEF c
  <2>3. QED
    BY <2>1, <2>2 DEF IsTree, Keys, Value, SameRects
<1>2. CASE ~(start = 0 /\ t.root = 0)
  <2>1. readd(t, start, key) = [t EXCEPT !.nodes = h]
    BY <1>2 DEF readd
  <2>2. /\ DOMAIN h = DOMAIN t.nodes /\ h = [k \in DOMAIN h |-> h[k]]
        /\ \A k \in DOMAIN t.nodes : IsNode(h[k]) /\ h[k].value = t.nodes[k].value
    BY HangFacts DEF IsTree
  <2> HIDE DEF h
  <2>3. readd(t, start, key) = [root |-> t.root, nodes |-> h]
    BY <2>1 DEF IsTree
  <2>4. QED
    BY <2>2, <2>3 DEF IsTree, Keys, Value, SameRects
<1>3. QED
  BY <1>1, <1>2

LEMMA AddFacts ==
    ASSUME NEW t, IsTree(t), NEW key, key \notin Keys(t), NEW v
    PROVE  LET s == add(t, key, v)
           IN  /\ IsTree(s)
               /\ Keys(s) = Keys(t) \union {key}
               /\ Value(s, key) = v
               /\ \A k \in Keys(t) : Value(s, k) = Value(t, k)
<1> DEFINE n == [value |-> v, parent |-> 0, kid |-> [d \in Dirs |-> 0]]
           m == [k \in DOMAIN t.nodes \union {key} |-> IF k = key THEN n ELSE t.nodes[k]]
           h == Hang(m, t.root, key)
<1>1. IsNode(n) /\ n.value = v
  BY DEF IsNode
<1> HIDE DEF n
<1>2. m = [k \in DOMAIN m |-> m[k]]
  OBVIOUS
<1>3. /\ DOMAIN m = DOMAIN t.nodes \union {key}
      /\ \A k \in DOMAIN m : IsNode(m[k])
      /\ \A k \in DOMAIN m : m[k].value = IF k = key THEN v ELSE t.nodes[k].value
  BY <1>1 DEF IsTree
<1> HIDE DEF m
<1>4. CASE t.root = 0
  <2>1. add(t, key, v) = [root |-> key, nodes |-> m]
    BY <1>4 DEF add, m, n
  <2>2. QED
    BY <1>2, <1>3, <2>1 DEF IsTree, Keys, Value, SameRects
<1>5. CASE t.root # 0
  <2>1. add(t, key, v) = [t EXCEPT !.nodes = h]
    BY <1>5 DEF add, m, n
  <2>2. /\ DOMAIN h = DOMAIN m /\ h = [k \in DOMAIN h |-> h[k]]
        /\ \A k \in DOMAIN m : IsNode(h[k]) /\ h[k].value = m[k].value
    BY <1>2, <1>3, HangFacts
  <2> HIDE DEF h
  <2>3. add(t, key, v) = [root |-> t.root, nodes |-> h]
    BY <2>1 DEF IsTree
  <2>4. QED
    BY <1>3, <2>2, <2>3 DEF IsTree, Keys, Value, SameRects
<1>6. QED
  BY <1>4, <1>5

LEMMA CutFacts ==
    ASSUME NEW t, IsTree(t), NEW key
    PROVE  /\ IsTree(Cut(t, key))
           /\ Keys(Cut(t, key)) = Keys(t) \ {key}
           /\ \A k \in Keys(t) \ {key} : Value(Cut(t, key), k) = Value(t, k)
<1> DEFINE kids(n) == [d \in DOMAIN n.kid |-> IF n.kid[d] = key THEN 0 ELSE n.kid[d]]
           m == [k \in DOMAIN t.nodes \ {key} |-> [t.nodes[k] EXCEPT !.kid = kids(t.nodes[k])]]
           r == IF t.root = key THEN 0 ELSE t.root
<1>1. Cut(t, key) = [root |-> r, nodes |-> m]
  BY DEF Cut
<1> HIDE DEF kids
<1>2. /\ DOMAIN m = DOMAIN t.nodes \ {key}
      /\ \A k \in DOMAIN m : IsNode(m[k]) /\ m[k].value = t.nodes[k].value
  BY DEF IsTree, IsNode
<1>3. m = [k \in DOMAIN m |-> m[k]]
  OBVIOUS
<1> HIDE DEF m, r
<1>4. QED
  BY <1>1, <1>2, <1>3 DEF IsTree, Keys, Value, SameRects

(* QuadTree::erase loses the one rectangle and no other.                   *)
LEMMA EraseFacts ==
    ASSUME NEW t, IsTree(t), NEW key
    PROVE  /\ IsTree(erase(t, key))
           /\ Keys(erase(t, key)) = Keys(t) \ {key}
           /\ \A k \in Keys(t) \ {key} : Value(erase(t, key), k) = Value(t, k)
<1> DEFINE n == t.nodes[key]
           rehang(s, leaf) == IF leaf = 0 THEN s ELSE readd(s, n.parent, leaf)
           cut   == Cut(t, key)
           left  == rehang(cut, n.kid["left"])
           right == rehang(left, n.kid["right"])
           up    == rehang(right, n.kid["up"])
           down  == rehang(up, n.kid["down"])
           Has(s) == Keys(s) = Keys(t) \ {key} /\ \A k \in Keys(t) \ {key} : Value(s, k) = Value(t, k)
<1>1. erase(t, key) = down
  BY DEF erase
<1>2. IsTree(cut) /\ Has(cut)
  BY CutFacts
<1>3. ASSUME NEW s, IsTree(s), Has(s), NEW leaf
      PROVE  IsTree(rehang(s, leaf)) /\ Has(rehang(s, leaf))
  <2>1. CASE leaf = 0
    BY <1>3, <2>1
  <2>2. CASE leaf # 0
    <3>1. rehang(s, leaf) = readd(s, n.parent, leaf)
      BY <2>2
    <3>2. QED
      BY <1>3, <3>1, ReaddFacts DEF SameRects
  <2>3. QED
    BY <2>1, <2>2
<1> HIDE DEF rehang, cut, Has
<1>4. IsTree(left) /\ Has(left)
  BY <1>2, <1>3
<1>5. IsTree(right) /\ Has(right)
  BY <1>3, <1>4
<1>6. IsTree(up) /\ Has(up)
  BY <1>3, <1>5
<1>7. IsTree(down) /\ Has(down)
  BY <1>3, <1>6
<1>8. QED
  BY <1>1, <1>7 DEF Has

-----------------------------------------------------------------------------
(* Rectangles.                                                             *)

IsRect(r) == r.x \in Nat /\ r.y \in Nat /\ r.w \in Nat /\ r.h \in Nat

Within(r, s) ==
    /\ s.x <= r.x /\ r.x + r.w <= s.x + s.w
    /\ s.y <= r.y /\ r.y + r.h <= s.y + s.h

LEMMA ApartSymmetric ==
    ASSUME NEW r, NEW q, Apart(r, q)
    PROVE  Apart(q, r)
  BY DEF Apart

LEMMA ApartWithin ==
    ASSUME NEW r, NEW s, NEW q, IsRect(r), IsRect(s), IsRect(q), Within(r, s), Apart(s, q)
    PROVE  Apart(r, q)
  BY DEF IsRect, Within, Apart

-----------------------------------------------------------------------------
(* An atlas with the images Q.                                             *)

IsAtlas(a) ==
    /\ a = [leftovers |-> a.leftovers, rlid |-> a.rlid, border |-> a.border, yRange |-> a.yRange]
    /\ IsTree(a.leftovers)
    /\ a.rlid \in Nat \ {0} /\ Keys(a.leftovers) \subseteq 1 .. a.rlid - 1

(* The shelf ends in the atlas, and yRange holds its lower edge once it    *)
(* has an image.                                                           *)
ShelfOK(a) ==
    /\ a.border[1] \in Nat /\ a.border[2] \in Nat /\ a.yRange[1] \in Nat /\ a.yRange[2] \in Nat
    /\ a.border[1] <= Width /\ a.border[2] + a.yRange[2] <= Height
    /\ IF a.yRange[2] = 0 THEN a.border[1] = 0 ELSE a.yRange[1] = a.border[2] + a.yRange[2]

(* r is a rectangle above the free part of the atlas: above the shelf, or  *)
(* in it and left of its end.                                              *)
Inside(a, r) ==
    /\ IsRect(r)
    /\ r.x + r.w <= Width /\ r.y + r.h <= a.border[2] + a.yRange[2]
    /\ r.y + r.h <= a.border[2] \/ r.x + r.w <= a.border[1]

(* r overlaps no image and no leftover.                                    *)
Clear(a, Q, r) ==
    /\ \A q \in Q : Apart(r, q)
    /\ \A k \in Keys(a.leftovers) : Apart(r, Value(a.leftovers, k))

(* Everything is inside and apart, the leftovers also from each other.     *)
AtlasOK(a, Q) ==
    /\ IsAtlas(a) /\ ShelfOK(a)
    /\ \A q \in Q : Inside(a, q)
    /\ LET t == a.leftovers
       IN  /\ \A k \in Keys(t) : Inside(a, Value(t, k))
           /\ \A k \in Keys(t), q \in Q : Apart(Value(t, k), q)
           /\ \A k, l \in Keys(t) : k # l => Apart(Value(t, k), Value(t, l))

(* An added leftover.                                                      *)
LEMMA KeepFacts ==
    ASSUME NEW a, IsAtlas(a), NEW worth, NEW r
    PROVE  LET b == KeepIf(a, worth, r)
           IN  /\ IsAtlas(b) /\ b.border = a.border /\ b.yRange = a.yRange
               /\ ~worth => b = a
               /\ worth => /\ a.rlid \notin Keys(a.leftovers)
                           /\ Keys(b.leftovers) = Keys(a.leftovers) \union {a.rlid}
                           /\ Value(b.leftovers, a.rlid) = r
                           /\ \A k \in Keys(a.leftovers) :
                                 Value(b.leftovers, k) = Value(a.leftovers, k)
<1> DEFINE t == add(a.leftovers, a.rlid, r)
           b == [a EXCEPT !.leftovers = t, !.rlid = a.rlid + 1]
<1>1. CASE ~worth
  <2>1. KeepIf(a, worth, r) = a
    BY <1>1 DEF KeepIf
  <2>2. QED
    BY <1>1, <2>1
<1>2. CASE worth
  <2>1. KeepIf(a, worth, r) = b
    BY <1>2 DEF KeepIf
  <2>2. a.rlid \notin Keys(a.leftovers)
    BY DEF IsAtlas
  <2>3. /\ IsTree(t)
        /\ Keys(t) = Keys(a.leftovers) \union {a.rlid}
        /\ Value(t, a.rlid) = r
        /\ \A k \in Keys(a.leftovers) : Value(t, k) = Value(a.leftovers, k)
    <3>1. IsTree(a.leftovers)
      BY DEF IsAtlas
    <3> DEFINE u == a.leftovers
               i == a.rlid
    <3>2. IsTree(u) /\ i \notin Keys(u)
      BY <2>2, <3>1
    <3> HIDE DEF u, i
    <3>3. LET v == add(u, i, r)
          IN  /\ IsTree(v) /\ Keys(v) = Keys(u) \union {i} /\ Value(v, i) = r
              /\ \A k \in Keys(u) : Value(v, k) = Value(u, k)
      BY <3>2, AddFacts
    <3>4. QED
      BY <3>3 DEF u, i
  <2> HIDE DEF t
  <2>4. b = [leftovers |-> t, rlid |-> a.rlid + 1, border |-> a.border, yRange |-> a.yRange]
    <3> DEFINE c == [a EXCEPT !.leftovers = t]
    <3>1. b = [c EXCEPT !.rlid = a.rlid + 1]
      OBVIOUS
    <3>2. a = [leftovers |-> a.leftovers, rlid |-> a.rlid, border |-> a.border, yRange |-> a.yRange]
      BY DEF IsAtlas
    <3>3. c = [leftovers |-> t, rlid |-> a.rlid, border |-> a.border, yRange |-> a.yRange]
      BY <3>2
    <3> HIDE DEF c
    <3>4. QED
      BY <3>1, <3>3
  <2> HIDE DEF b
  <2>5. /\ b.leftovers = t /\ b.rlid = a.rlid + 1 /\ b.border = a.border /\ b.yRange = a.yRange
        /\ b = [leftovers |-> b.leftovers, rlid |-> b.rlid, border |-> b.border,
                yRange |-> b.yRange]
    BY <2>4
  <2>6. IsAtlas(b)
    <3>1. b.rlid \in Nat \ {0} /\ Keys(b.leftovers) \subseteq 1 .. b.rlid - 1
      BY <2>3, <2>5 DEF IsAtlas
    <3>2. QED
      BY <2>3, <2>5, <3>1 DEF IsAtlas
  <2>7. QED
    BY <1>2, <2>1, <2>2, <2>3, <2>5, <2>6
<1>3. QED
  BY <1>1, <1>2

LEMMA KeepInside ==
    ASSUME NEW a, NEW Q, AtlasOK(a, Q), NEW worth, NEW r,
           worth => Inside(a, r) /\ Clear(a, Q, r)
    PROVE  AtlasOK(KeepIf(a, worth, r), Q)
<1> DEFINE b == KeepIf(a, worth, r)
           t == a.leftovers
           u == b.leftovers
<1>1. /\ IsAtlas(b) /\ b.border = a.border /\ b.yRange = a.yRange
      /\ ~worth => b = a
      /\ worth => /\ a.rlid \notin Keys(t) /\ Keys(u) = Keys(t) \union {a.rlid}
                  /\ Value(u, a.rlid) = r /\ \A k \in Keys(t) : Value(u, k) = Value(t, k)
  <2>1. IsAtlas(a)
    BY DEF AtlasOK
  <2>2. QED
    BY <2>1, KeepFacts
<1>2. CASE ~worth
  BY <1>1, <1>2
<1>3. CASE worth
  <2>1. /\ \A k \in Keys(t) : Inside(a, Value(t, k))
        /\ \A k \in Keys(t), q \in Q : Apart(Value(t, k), q)
        /\ \A k, l \in Keys(t) : k # l => Apart(Value(t, k), Value(t, l))
        /\ \A q \in Q : Inside(a, q)
    BY DEF AtlasOK
  <2>2. /\ Inside(a, r) /\ \A q \in Q : Apart(r, q)
        /\ \A k \in Keys(t) : Apart(r, Value(t, k)) /\ Apart(Value(t, k), r)
    BY <1>3, ApartSymmetric DEF Clear
  <2>3. /\ \A s : Inside(b, s) <=> Inside(a, s)
        /\ ShelfOK(b)
    BY <1>1 DEF Inside, ShelfOK, AtlasOK
  <2> HIDE DEF b, t, u
  <2>4. /\ \A k \in Keys(u) : Inside(a, Value(u, k))
        /\ \A k \in Keys(u), q \in Q : Apart(Value(u, k), q)
        /\ \A k, l \in Keys(u) : k # l => Apart(Value(u, k), Value(u, l))
    BY <1>1, <1>3, <2>1, <2>2
  <2>5. AtlasOK(b, Q)
    BY <1>1, <2>1, <2>3, <2>4 DEF AtlasOK, u
  <2>6. QED
    BY <2>5 DEF b
<1>4. QED
  BY <1>2, <1>3

LEMMA KeepClear ==
    ASSUME NEW a, NEW Q, IsAtlas(a), NEW worth, NEW r, NEW s,
           Clear(a, Q, s), worth => Apart(s, r)
    PROVE  Clear(KeepIf(a, worth, r), Q, s)
<1> DEFINE b == KeepIf(a, worth, r)
           t == a.leftovers
           u == b.leftovers
<1>1. /\ ~worth => b = a
      /\ worth => /\ Keys(u) = Keys(t) \union {a.rlid}
                  /\ Value(u, a.rlid) = r /\ \A k \in Keys(t) : Value(u, k) = Value(t, k)
  BY KeepFacts
<1>2. CASE ~worth
  BY <1>1, <1>2
<1>3. CASE worth
  <2>1. (\A q \in Q : Apart(s, q)) /\ \A k \in Keys(t) : Apart(s, Value(t, k))
    BY DEF Clear
  <2> HIDE DEF t, u, b
  <2>2. \A k \in Keys(u) : Apart(s, Value(u, k))
    BY <1>1, <1>3, <2>1
  <2>3. QED
    BY <2>1, <2>2 DEF Clear, u, b
<1>4. QED
  BY <1>2, <1>3

-----------------------------------------------------------------------------
(* A new shelf, and an image at the end of the shelf.                      *)

LEMMA RectFields ==
    ASSUME NEW x, NEW y, NEW w, NEW h
    PROVE  LET r == Rect(x, y, w, h)
           IN  r.x = x /\ r.y = y /\ r.w = w /\ r.h = h
  BY DEF Rect

(* An atlas with its shelf changed.                                        *)
LEMMA BorderMoved ==
    ASSUME NEW a, IsAtlas(a), NEW b, NEW c, c = [a EXCEPT !.border = b]
    PROVE  IsAtlas(c) /\ c.leftovers = a.leftovers /\ c.border = b /\ c.yRange = a.yRange
<1>1. a = [leftovers |-> a.leftovers, rlid |-> a.rlid, border |-> a.border, yRange |-> a.yRange]
  BY DEF IsAtlas
<1>2. c = [leftovers |-> a.leftovers, rlid |-> a.rlid, border |-> b, yRange |-> a.yRange]
  BY <1>1
<1>3. /\ c.leftovers = a.leftovers /\ c.rlid = a.rlid /\ c.border = b /\ c.yRange = a.yRange
      /\ c = [leftovers |-> c.leftovers, rlid |-> c.rlid, border |-> c.border, yRange |-> c.yRange]
  BY <1>2
<1>4. QED
  BY <1>3 DEF IsAtlas

LEMMA RangeMoved ==
    ASSUME NEW a, IsAtlas(a), NEW y, NEW c, c = [a EXCEPT !.yRange = y]
    PROVE  IsAtlas(c) /\ c.leftovers = a.leftovers /\ c.border = a.border /\ c.yRange = y
<1>1. a = [leftovers |-> a.leftovers, rlid |-> a.rlid, border |-> a.border, yRange |-> a.yRange]
  BY DEF IsAtlas
<1>2. c = [leftovers |-> a.leftovers, rlid |-> a.rlid, border |-> a.border, yRange |-> y]
  BY <1>1
<1>3. /\ c.leftovers = a.leftovers /\ c.rlid = a.rlid /\ c.border = a.border /\ c.yRange = y
      /\ c = [leftovers |-> c.leftovers, rlid |-> c.rlid, border |-> c.border, yRange |-> c.yRange]
  BY <1>2
<1>4. QED
  BY <1>3 DEF IsAtlas

(* The shelf above keeps everything the atlas has.                         *)
LEMMA NewShelfOK ==
    ASSUME NEW a, NEW Q, AtlasOK(a, Q)
    PROVE  /\ AtlasOK(NewShelf(a), Q)
           /\ NewShelf(a).border[1] = 0
<1> DEFINE b == <<0, a.border[2] + a.yRange[2]>>
           z == <<0, 0>>
           c == [a EXCEPT !.border = b]
           n == [c EXCEPT !.yRange = z]
<1>1. NewShelf(a) = n
  BY DEF NewShelf
<1>2. IsAtlas(a)
  BY DEF AtlasOK
<1>3. IsAtlas(n) /\ n.leftovers = a.leftovers /\ n.border = b /\ n.yRange = <<0, 0>>
  <2> HIDE DEF b, z
  <2>1. IsAtlas(c) /\ c.leftovers = a.leftovers /\ c.border = b
    BY <1>2, BorderMoved, SMTT(30)
  <2> HIDE DEF c
  <2>2. IsAtlas(n) /\ n.leftovers = c.leftovers /\ n.border = c.border /\ n.yRange = z
    BY <2>1, RangeMoved
  <2> HIDE DEF n
  <2>3. QED
    BY <2>1, <2>2 DEF z
<1> HIDE DEF n
<1>4. ShelfOK(n) /\ n.border[1] = 0
  BY <1>3, SpritesAssumption DEF AtlasOK, ShelfOK
<1>5. ASSUME NEW s, Inside(a, s)
      PROVE  Inside(n, s)
  BY <1>3, <1>5 DEF Inside, AtlasOK, ShelfOK, IsRect
<1>6. AtlasOK(n, Q)
  BY <1>3, <1>4, <1>5 DEF AtlasOK
<1>7. QED
  BY <1>1, <1>4, <1>6

(* c is a with an image at the end of the shelf, before what it leaves is  *)
(* kept.                                                                   *)
LEMMA ShelfExtended ==
    ASSUME NEW a, NEW Q, AtlasOK(a, Q), NEW w \in Nat \ {0}, NEW h \in Nat \ {0},
           a.border[1] + w <= Width, a.border[2] + h <= Height,
           NEW c, IsAtlas(c), c.leftovers = a.leftovers,
           c.border = <<a.border[1] + w, a.border[2]>>,
           c.yRange = IF h > a.yRange[2] THEN <<a.border[2] + h, h>> ELSE a.yRange
    PROVE  LET at == Rect(a.border[1], a.border[2], w, h)
           IN  /\ AtlasOK(c, Q \union {at}) /\ IsRect(at)
               /\ \A s : Inside(a, s) => Apart(at, s)
<1> DEFINE x == a.border[1]
           y == a.border[2]
           low == a.yRange[1]
           tall == a.yRange[2]
           at == Rect(x, y, w, h)
           T == a.leftovers
<1>1. /\ x \in Nat /\ y \in Nat /\ low \in Nat /\ tall \in Nat /\ x + w <= Width
      /\ y + tall <= Height /\ y + h <= Height
      /\ tall = 0 => x = 0
      /\ tall # 0 => low = y + tall
  BY DEF AtlasOK, ShelfOK
<1>2. at.x = x /\ at.y = y /\ at.w = w /\ at.h = h
  BY RectFields
<1>3. /\ c.border[1] = x + w /\ c.border[2] = y
      /\ h > tall => c.yRange[1] = y + h /\ c.yRange[2] = h
      /\ ~(h > tall) => c.yRange[1] = low /\ c.yRange[2] = tall
  OBVIOUS
<1>4. \A s : Inside(a, s) =>
         IsRect(s) /\ s.x + s.w <= Width /\ s.y + s.h <= y + tall /\ (s.y + s.h <= y \/ s.x + s.w <= x)
  BY DEF Inside
<1>5. Width \in Nat /\ Height \in Nat
  BY SpritesAssumption
<1>6. /\ \A q \in Q : Inside(a, q)
      /\ \A k \in Keys(T) : Inside(a, Value(T, k))
      /\ \A k \in Keys(T), q \in Q : Apart(Value(T, k), q)
      /\ \A k, l \in Keys(T) : k # l => Apart(Value(T, k), Value(T, l))
  BY DEF AtlasOK
<1> HIDE DEF x, y, low, tall, at, T
<1>7. ShelfOK(c)
  <2>1. CASE h > tall
    BY <1>1, <1>3, <1>5, <2>1 DEF ShelfOK
  <2>2. CASE ~(h > tall)
    BY <1>1, <1>3, <1>5, <2>2 DEF ShelfOK
  <2>3. QED
    BY <2>1, <2>2
<1>8. c.yRange[2] \in Nat /\ c.yRange[2] >= tall /\ c.yRange[2] >= h
  BY <1>1, <1>3
<1>9. IsRect(at) /\ Inside(c, at)
  BY <1>1, <1>2, <1>3, <1>8 DEF IsRect, Inside
<1>10. ASSUME NEW s, Inside(a, s)
       PROVE  Inside(c, s) /\ Apart(at, s) /\ Apart(s, at)
  <2>1. /\ s.x \in Nat /\ s.y \in Nat /\ s.w \in Nat /\ s.h \in Nat
        /\ s.x + s.w <= Width /\ s.y + s.h <= y + tall /\ (s.y + s.h <= y \/ s.x + s.w <= x)
    BY <1>4, <1>10 DEF IsRect
  <2>2. Inside(c, s)
    BY <1>1, <1>3, <1>8, <2>1 DEF Inside, IsRect
  <2>3. Apart(at, s) /\ Apart(s, at)
    BY <1>1, <1>2, <2>1 DEF Apart
  <2>4. QED
    BY <2>2, <2>3
<1>11. AtlasOK(c, Q \union {at})
  <2>1. c.leftovers = T
    BY DEF T
  <2>2. \A q \in Q \union {at} : Inside(c, q)
    BY <1>6, <1>9, <1>10
  <2>3. \A k \in Keys(T), q \in Q \union {at} : Apart(Value(T, k), q)
    BY <1>6, <1>10
  <2>4. \A k \in Keys(T) : Inside(c, Value(T, k))
    BY <1>6, <1>10
  <2>5. QED
    BY <1>6, <1>7, <2>1, <2>2, <2>3, <2>4 DEF AtlasOK
<1>12. QED
  BY <1>9, <1>10, <1>11 DEF at, x, y

(* TextureAtlas::update at the end of a shelf.                             *)
LEMMA AppendOK ==
    ASSUME NEW a, NEW Q, AtlasOK(a, Q), NEW w \in Nat \ {0}, NEW h \in Nat \ {0},
           a.border[1] + w <= Width, a.border[2] + h <= Height
    PROVE  LET r == AppendToShelf(a, w, h)
           IN  /\ AtlasOK(r.atlas, Q \union {r.at}) /\ IsRect(r.at)
               /\ \A q \in Q : Apart(r.at, q)
<1> DEFINE x == a.border[1]
           y == a.border[2]
           low == a.yRange[1]
           tall == a.yRange[2]
           at == Rect(x, y, w, h)
           P == Q \union {at}
           b == <<x + w, y>>
           z == <<y + h, h>>
           moved == [a EXCEPT !.border = b]
           high == [moved EXCEPT !.yRange = z]
           above == Rect(0, low, x, h - tall)
           below == Rect(x, y + h, w, low - y - h)
           worthA == x >= MINLOSIZE /\ h - tall >= MINLOSIZE
           worthB == w >= MINLOSIZE /\ low - y - h >= MINLOSIZE
           new == CASE h > tall -> KeepIf(high, worthA, above)
                    [] h <= tall /\ y + h < low -> KeepIf(moved, worthB, below)
                    [] OTHER -> moved
<1>1. AppendToShelf(a, w, h) = [at |-> at, atlas |-> new]
  BY DEF AppendToShelf
<1>2. /\ IsAtlas(moved) /\ moved.leftovers = a.leftovers /\ moved.border = b
      /\ moved.yRange = a.yRange
      /\ IsAtlas(high) /\ high.leftovers = a.leftovers /\ high.border = b /\ high.yRange = z
  <2>0. IsAtlas(a)
    BY DEF AtlasOK
  <2> HIDE DEF b, z
  <2>1. IsAtlas(moved) /\ moved.leftovers = a.leftovers /\ moved.border = b /\ moved.yRange = a.yRange
    BY <2>0, BorderMoved
  <2> HIDE DEF moved
  <2>2. IsAtlas(high) /\ high.leftovers = moved.leftovers /\ high.border = moved.border /\ high.yRange = z
    BY <2>1, RangeMoved
  <2>3. QED
    BY <2>1, <2>2
<1>3. /\ x \in Nat /\ y \in Nat /\ low \in Nat /\ tall \in Nat /\ x + w <= Width
      /\ tall = 0 => x = 0
      /\ tall # 0 => low = y + tall
      /\ MINLOSIZE \in Nat \ {0} /\ Width \in Nat
  BY SpritesAssumption DEF AtlasOK, ShelfOK
<1>4. at.x = x /\ at.y = y /\ at.w = w /\ at.h = h
  BY RectFields
<1>5. /\ above.x = 0 /\ above.y = low /\ above.w = x /\ above.h = h - tall
      /\ below.x = x /\ below.y = y + h /\ below.w = w /\ below.h = low - y - h
  BY RectFields
<1> HIDE DEF moved, high, above, below, at
<1>6. /\ h > tall => AtlasOK(high, P)
      /\ ~(h > tall) => AtlasOK(moved, P)
      /\ IsRect(at) /\ \A s : Inside(a, s) => Apart(at, s)
  <2>1. CASE h > tall
    BY <1>2, <2>1, ShelfExtended DEF at
  <2>2. CASE ~(h > tall)
    BY <1>2, <2>2, ShelfExtended DEF at
  <2>3. QED
    BY <2>1, <2>2
<1>7. \A s : Inside(a, s) => /\ s.x \in Nat /\ s.y \in Nat /\ s.w \in Nat /\ s.h \in Nat
                             /\ s.x + s.w <= Width /\ s.y + s.h <= y + tall
                             /\ s.y + s.h <= y \/ s.x + s.w <= x
  BY DEF Inside, IsRect
<1>8. /\ \A q \in Q : Inside(a, q)
      /\ \A k \in Keys(a.leftovers) : Inside(a, Value(a.leftovers, k))
  BY DEF AtlasOK
<1>9. /\ high.border[1] = x + w /\ high.border[2] = y /\ high.yRange[2] = h
      /\ moved.border[1] = x + w /\ moved.border[2] = y /\ moved.yRange[2] = tall
  BY <1>2
<1>10. high.leftovers = a.leftovers /\ moved.leftovers = a.leftovers
  BY <1>2
<1> HIDE DEF x, y, low, tall, b, z, worthA, worthB
<1>11. ASSUME h > tall
       PROVE  AtlasOK(KeepIf(high, worthA, above), P)
  <2>1. ASSUME worthA
        PROVE  Inside(high, above) /\ Clear(high, P, above)
    <3>1. x >= 1 /\ tall # 0 /\ low = y + tall
      BY <1>3, <2>1 DEF worthA
    <3>2. Inside(high, above)
      BY <1>3, <1>5, <1>9, <1>11, <3>1 DEF Inside, IsRect
    <3>3. \A s : Inside(a, s) => Apart(above, s)
      BY <1>3, <1>5, <1>7, <3>1 DEF Apart
    <3>4. Apart(above, at)
      BY <1>3, <1>4, <1>5 DEF Apart
    <3>5. QED
      BY <1>8, <1>10, <3>2, <3>3, <3>4 DEF Clear
  <2>2. QED
    BY <1>6, <1>11, <2>1, KeepInside
<1>12. ASSUME h <= tall, y + h < low
       PROVE  AtlasOK(KeepIf(moved, worthB, below), P)
  <2>1. Inside(moved, below) /\ Clear(moved, P, below)
    <3>1. tall # 0 /\ low = y + tall
      BY <1>3, <1>12
    <3>2. Inside(moved, below)
      BY <1>3, <1>5, <1>9, <1>12, <3>1 DEF Inside, IsRect
    <3>3. \A s : Inside(a, s) => Apart(below, s)
      BY <1>3, <1>5, <1>7 DEF Apart
    <3>4. Apart(below, at)
      BY <1>3, <1>4, <1>5 DEF Apart
    <3>5. QED
      BY <1>8, <1>10, <3>2, <3>3, <3>4 DEF Clear
  <2>2. AtlasOK(moved, P)
    BY <1>3, <1>6, <1>12
  <2>3. QED
    BY <2>1, <2>2, KeepInside
<1>13. AtlasOK(new, P)
  <2>1. CASE h > tall
    <3>1. new = KeepIf(high, worthA, above)
      BY <1>3, <2>1
    <3>2. QED
      BY <1>11, <2>1, <3>1
  <2>2. CASE h <= tall /\ y + h < low
    <3>1. new = KeepIf(moved, worthB, below)
      BY <1>3, <2>2
    <3>2. QED
      BY <1>12, <2>2, <3>1
  <2>3. CASE ~(h > tall) /\ ~(h <= tall /\ y + h < low)
    BY <1>6, <2>3
  <2>4. QED
    BY <2>1, <2>2, <2>3
<1> HIDE DEF new
<1>14. QED
  BY <1>1, <1>6, <1>8, <1>13

-----------------------------------------------------------------------------
(* An image in a leftover.                                                 *)

(* What is kept of r, whose top left corner the image at has taken.        *)
LEMMA SplitOK ==
    ASSUME NEW a, NEW Q, NEW r, IsRect(r), NEW w \in Nat \ {0}, NEW h \in Nat \ {0},
           w <= r.w, h <= r.h, NEW at, at = Rect(r.x, r.y, w, h),
           AtlasOK(a, Q \union {at}), Inside(a, r), Clear(a, Q, r)
    PROVE  AtlasOK(Split(a, r, w, h), Q \union {at})
<1> DEFINE P == Q \union {at}
           wd == r.w - w
           hd == r.h - h
           A == Rect(r.x + w, r.y + h, wd, hd)
           B == Rect(r.x, r.y + h, w, hd)
           C == Rect(r.x + w, r.y, wd, h)
           D == Rect(r.x + w, r.y, wd, r.h)
           E == Rect(r.x, r.y + h, r.w, hd)
           corner == KeepIf(a, TRUE, A)
           below == KeepIf(corner, w >= MINLOSIZE, B)
           right == KeepIf(below, h >= MINLOSIZE, C)
<1>1. Split(a, r, w, h) = CASE wd >= MINLOSIZE /\ hd >= MINLOSIZE -> right
                            [] wd >= MINLOSIZE /\ hd < MINLOSIZE -> KeepIf(a, TRUE, D)
                            [] wd < MINLOSIZE /\ hd >= MINLOSIZE -> KeepIf(a, TRUE, E)
                            [] OTHER -> a
  BY DEF Split
<1>2. /\ r.x \in Nat /\ r.y \in Nat /\ r.w \in Nat /\ r.h \in Nat
      /\ wd \in Nat /\ hd \in Nat /\ wd + w = r.w /\ hd + h = r.h
      /\ MINLOSIZE \in Nat
  BY SpritesAssumption DEF IsRect
<1>3. /\ A.x = r.x + w /\ A.y = r.y + h /\ A.w = wd /\ A.h = hd
      /\ B.x = r.x /\ B.y = r.y + h /\ B.w = w /\ B.h = hd
      /\ C.x = r.x + w /\ C.y = r.y /\ C.w = wd /\ C.h = h
      /\ D.x = r.x + w /\ D.y = r.y /\ D.w = wd /\ D.h = r.h
      /\ E.x = r.x /\ E.y = r.y + h /\ E.w = r.w /\ E.h = hd
      /\ at.x = r.x /\ at.y = r.y /\ at.w = w /\ at.h = h
  BY RectFields
<1> HIDE DEF wd, hd, A, B, C, D, E
<1>4. /\ IsRect(A) /\ IsRect(B) /\ IsRect(C) /\ IsRect(D) /\ IsRect(E)
      /\ Within(A, r) /\ Within(B, r) /\ Within(C, r) /\ Within(D, r) /\ Within(E, r)
  BY <1>2, <1>3 DEF IsRect, Within
<1>5. /\ Apart(A, at) /\ Apart(B, at) /\ Apart(C, at) /\ Apart(D, at) /\ Apart(E, at)
      /\ Apart(B, A) /\ Apart(C, A) /\ Apart(C, B)
  BY <1>2, <1>3 DEF Apart
<1>6. ASSUME NEW s, IsRect(s), Within(s, r), Apart(s, at)
      PROVE  Inside(a, s) /\ Clear(a, P, s)
  <2>1. Inside(a, s)
    BY <1>6, SpritesAssumption DEF Inside, Within, IsRect, AtlasOK, ShelfOK
  <2>2. /\ \A q \in Q : IsRect(q) /\ Apart(r, q)
        /\ \A k \in Keys(a.leftovers) : IsRect(Value(a.leftovers, k)) /\ Apart(r, Value(a.leftovers, k))
    BY DEF AtlasOK, Inside, Clear
  <2>3. /\ \A q \in Q : Apart(s, q)
        /\ \A k \in Keys(a.leftovers) : Apart(s, Value(a.leftovers, k))
    BY <1>6, <2>2, ApartWithin
  <2>4. QED
    BY <1>6, <2>1, <2>3 DEF Clear
<1>7. /\ Inside(a, A) /\ Inside(a, B) /\ Inside(a, C) /\ Inside(a, D) /\ Inside(a, E)
      /\ Clear(a, P, A) /\ Clear(a, P, B) /\ Clear(a, P, C) /\ Clear(a, P, D) /\ Clear(a, P, E)
  BY <1>4, <1>5, <1>6
<1> HIDE DEF P
<1>8. AtlasOK(a, P) /\ IsAtlas(a)
  BY DEF AtlasOK, P
<1>9. AtlasOK(KeepIf(a, TRUE, D), P) /\ AtlasOK(KeepIf(a, TRUE, E), P) /\ AtlasOK(corner, P)
  BY <1>7, <1>8, KeepInside
<1>10. /\ corner.border = a.border /\ corner.yRange = a.yRange /\ IsAtlas(corner)
       /\ Clear(corner, P, B) /\ Clear(corner, P, C)
  BY <1>5, <1>7, <1>8, KeepFacts, KeepClear
<1> HIDE DEF corner
<1>11. Inside(corner, B) /\ Inside(corner, C)
  BY <1>7, <1>10 DEF Inside
<1>12. AtlasOK(below, P)
  BY <1>9, <1>10, <1>11, KeepInside
<1>13. /\ below.border = corner.border /\ below.yRange = corner.yRange
       /\ Clear(below, P, C)
  BY <1>5, <1>10, KeepFacts, KeepClear
<1> HIDE DEF below
<1>14. Inside(below, C)
  BY <1>11, <1>13 DEF Inside
<1>15. AtlasOK(right, P)
  BY <1>12, <1>13, <1>14, KeepInside
<1> HIDE DEF right
<1>16. Split(a, r, w, h) \in {right, KeepIf(a, TRUE, D), KeepIf(a, TRUE, E), a}
  <2>1. CASE wd >= MINLOSIZE /\ hd >= MINLOSIZE
    BY <1>1, <1>2, <2>1
  <2>2. CASE wd >= MINLOSIZE /\ hd < MINLOSIZE
    BY <1>1, <1>2, <2>2
  <2>3. CASE wd < MINLOSIZE /\ hd >= MINLOSIZE
    BY <1>1, <1>2, <2>3
  <2>4. CASE wd < MINLOSIZE /\ hd < MINLOSIZE
    BY <1>1, <1>2, <2>4
  <2>5. (wd >= MINLOSIZE \/ wd < MINLOSIZE) /\ (hd >= MINLOSIZE \/ hd < MINLOSIZE)
    BY <1>2
  <2>6. QED
    BY <2>1, <2>2, <2>3, <2>4, <2>5, Zenon
<1>17. QED
  BY <1>8, <1>9, <1>15, <1>16 DEF P

LEMMA LeftoverErased ==
    ASSUME NEW a, IsAtlas(a), NEW t, NEW c, c = [a EXCEPT !.leftovers = t],
           IsTree(t), Keys(t) \subseteq Keys(a.leftovers)
    PROVE  IsAtlas(c) /\ c.leftovers = t /\ c.border = a.border /\ c.yRange = a.yRange
<1>1. a = [leftovers |-> a.leftovers, rlid |-> a.rlid, border |-> a.border, yRange |-> a.yRange]
  BY DEF IsAtlas
<1>2. c = [leftovers |-> t, rlid |-> a.rlid, border |-> a.border, yRange |-> a.yRange]
  BY <1>1
<1>3. /\ c.leftovers = t /\ c.rlid = a.rlid /\ c.border = a.border /\ c.yRange = a.yRange
      /\ c = [leftovers |-> c.leftovers, rlid |-> c.rlid, border |-> c.border, yRange |-> c.yRange]
  BY <1>2
<1>4. QED
  BY <1>3 DEF IsAtlas

(* TextureAtlas::update with a leftover that is large enough.              *)
LEMMA ReuseOK ==
    ASSUME NEW a, NEW Q, AtlasOK(a, Q), NEW w \in Nat \ {0}, NEW h \in Nat \ {0},
           NEW lid \in Keys(a.leftovers),
           w <= Value(a.leftovers, lid).w, h <= Value(a.leftovers, lid).h
    PROVE  LET u == Reuse(a, lid, w, h)
           IN  /\ AtlasOK(u.atlas, Q \union {u.at}) /\ IsRect(u.at)
               /\ \A q \in Q : Apart(u.at, q)
<1> DEFINE T == a.leftovers
           r == Value(T, lid)
           at == Rect(r.x, r.y, w, h)
           t == erase(T, lid)
           c == [a EXCEPT !.leftovers = t]
<1>1. Reuse(a, lid, w, h) = [at |-> at, atlas |-> Split(c, r, w, h)]
  BY DEF Reuse, Value
<1>2. IsAtlas(a) /\ IsTree(T)
  BY DEF AtlasOK, IsAtlas
<1>3. /\ IsTree(t) /\ Keys(t) = Keys(T) \ {lid}
      /\ \A k \in Keys(T) \ {lid} : Value(t, k) = Value(T, k)
  BY <1>2, EraseFacts
<1> HIDE DEF t
<1>4. IsAtlas(c) /\ c.leftovers = t /\ c.border = a.border /\ c.yRange = a.yRange
  BY <1>2, <1>3, LeftoverErased
<1> HIDE DEF c
<1>5. /\ ShelfOK(a) /\ \A q \in Q : Inside(a, q)
      /\ \A k \in Keys(T) : Inside(a, Value(T, k))
      /\ \A k \in Keys(T), q \in Q : Apart(Value(T, k), q)
      /\ \A k, l \in Keys(T) : k # l => Apart(Value(T, k), Value(T, l))
  BY DEF AtlasOK
<1>6. /\ ShelfOK(c) /\ \A s : Inside(c, s) <=> Inside(a, s)
  BY <1>4, <1>5 DEF ShelfOK, Inside
<1>7. Inside(a, r) /\ IsRect(r) /\ \A q \in Q : Apart(r, q)
  BY <1>5 DEF Inside
<1>8. at.x = r.x /\ at.y = r.y /\ at.w = w /\ at.h = h
  BY RectFields
<1>9. w <= r.w /\ h <= r.h
  OBVIOUS
<1>10. \A k \in Keys(t) : Apart(r, Value(t, k)) /\ Apart(Value(t, k), r)
  BY <1>3, <1>5
<1> HIDE DEF r, at, T
<1>11. IsRect(at) /\ Within(at, r)
  BY <1>7, <1>8, <1>9 DEF IsRect, Within
<1>12. Inside(a, at)
  BY <1>5, <1>7, <1>11, SpritesAssumption DEF Inside, Within, IsRect, ShelfOK
<1>13. \A q \in Q : Apart(at, q)
  BY <1>5, <1>7, <1>11, ApartWithin DEF Inside
<1>14. \A k \in Keys(t) : Apart(Value(t, k), at)
  <2>1. \A k \in Keys(t) : IsRect(Value(t, k))
    BY <1>3, <1>5 DEF Inside
  <2>2. \A k \in Keys(t) : Apart(at, Value(t, k))
    BY <1>7, <1>10, <1>11, <2>1, ApartWithin
  <2>3. QED
    BY <2>2, ApartSymmetric
<1>15. AtlasOK(c, Q \union {at})
  <2>1. \A q \in Q \union {at} : Inside(c, q)
    BY <1>5, <1>6, <1>12
  <2>2. \A k \in Keys(t) : Inside(c, Value(t, k))
    BY <1>3, <1>5, <1>6
  <2>3. \A k \in Keys(t), q \in Q \union {at} : Apart(Value(t, k), q)
    BY <1>3, <1>5, <1>14
  <2>4. \A k, l \in Keys(t) : k # l => Apart(Value(t, k), Value(t, l))
    BY <1>3, <1>5
  <2>5. QED
    BY <1>4, <1>6, <2>1, <2>2, <2>3, <2>4 DEF AtlasOK
<1>16. Inside(c, r) /\ Clear(c, Q, r)
  BY <1>4, <1>6, <1>7, <1>10 DEF Clear
<1>17. AtlasOK(Split(c, r, w, h), Q \union {at})
  BY <1>7, <1>9, <1>15, <1>16, SplitOK DEF at
<1>18. QED
  BY <1>1, <1>11, <1>13, <1>17

-----------------------------------------------------------------------------
(* TextureAtlas::update.                                                   *)

(* The last check of findNode: what it finds exists and is large enough.   *)
LEMMA FindFacts ==
    ASSUME NEW t, NEW v
    PROVE  LET k == findNode(t, v)
           IN  k # 0 => k \in Keys(t) /\ Fits(v, Value(t, k))
  BY DEF findNode, Keys, Value

LEMMA UpdateOK ==
    ASSUME NEW a, NEW Q, AtlasOK(a, Q), NEW s \in Sizes, NEW u \in update(a, s[1], s[2])
    PROVE  /\ AtlasOK(u.atlas, Q \union {u.at}) /\ IsRect(u.at)
           /\ \A q \in Q : Apart(u.at, q)
<1> DEFINE w == s[1]
           h == s[2]
           lid == findNode(a.leftovers, Rect(0, 0, w, h))
           shelf == IF a.border[1] + w > Width THEN NewShelf(a) ELSE a
           res == CASE w = 0 \/ h = 0                          -> {}
                    [] w > 0 /\ h > 0 /\ lid # 0               -> {Reuse(a, lid, w, h)}
                    [] w > 0 /\ h > 0 /\ lid = 0 /\ shelf.border[2] + h > Height -> {}
                    [] OTHER                                   -> {AppendToShelf(shelf, w, h)}
<1>1. u \in res
  BY DEF update
<1>2. w \in 0 .. Width /\ h \in 0 .. Height /\ Width \in Nat /\ Height \in Nat
  BY SpritesAssumption
<1>3. lid # 0 => /\ lid \in Keys(a.leftovers)
                 /\ w <= Value(a.leftovers, lid).w /\ h <= Value(a.leftovers, lid).h
  <2>1. lid # 0 => lid \in Keys(a.leftovers) /\ Fits(Rect(0, 0, w, h), Value(a.leftovers, lid))
    BY FindFacts
  <2>2. Rect(0, 0, w, h).w = w /\ Rect(0, 0, w, h).h = h
    BY RectFields
  <2>3. QED
    BY <2>1, <2>2 DEF Fits
<1>4. AtlasOK(shelf, Q) /\ shelf.border[1] + w <= Width
  <2>1. CASE a.border[1] + w > Width
    BY <1>2, <2>1, NewShelfOK
  <2>2. CASE ~(a.border[1] + w > Width)
    BY <1>2, <2>2 DEF AtlasOK, ShelfOK
  <2>3. QED
    BY <2>1, <2>2
<1> HIDE DEF w, h, lid, shelf
<1>5. shelf.border[2] \in Nat
  BY <1>4 DEF AtlasOK, ShelfOK
<1>6. w # 0 /\ h # 0
  <2>1. CASE w = 0 \/ h = 0
    BY <1>1, <2>1
  <2>2. QED
    BY <2>1
<1>7. w \in Nat \ {0} /\ h \in Nat \ {0} /\ w > 0 /\ h > 0
  BY <1>2, <1>6
<1>8. CASE lid # 0
  <2>1. u = Reuse(a, lid, w, h)
    BY <1>1, <1>7, <1>8
  <2>2. QED
    BY <1>3, <1>7, <1>8, <2>1, ReuseOK
<1>9. CASE lid = 0
  <2>1. CASE shelf.border[2] + h > Height
    BY <1>1, <1>6, <1>7, <1>9, <2>1
  <2>2. CASE ~(shelf.border[2] + h > Height)
    <3>1. u = AppendToShelf(shelf, w, h)
      BY <1>1, <1>6, <1>9, <2>2
    <3>2. shelf.border[2] + h <= Height
      BY <1>2, <1>5, <2>2
    <3>3. QED
      BY <1>4, <1>7, <3>1, <3>2, AppendOK
  <2>3. QED
    BY <2>1, <2>2
<1>10. QED
  BY <1>8, <1>9

LEMMA NewAtlasOK == AtlasOK(NewAtlas, {})
<1>1. IsTree(Empty) /\ Keys(Empty) = {}
  BY DEF Empty, IsTree, Keys
<1>2. /\ NewAtlas.leftovers = Empty /\ NewAtlas.rlid = 1
      /\ NewAtlas.border = <<0, 0>> /\ NewAtlas.yRange = <<0, 0>>
      /\ NewAtlas = [leftovers |-> NewAtlas.leftovers, rlid |-> NewAtlas.rlid,
                     border |-> NewAtlas.border, yRange |-> NewAtlas.yRange]
  BY DEF NewAtlas
<1>3. IsAtlas(NewAtlas) /\ ShelfOK(NewAtlas)
  BY <1>1, <1>2, SpritesAssumption DEF IsAtlas, ShelfOK
<1>4. QED
  BY <1>1, <1>2, <1>3 DEF AtlasOK

-----------------------------------------------------------------------------
(* The pool.                                                               *)

QuadSet == [x : Nat, y : Nat, w : Nat, h : Nat, texture : Nat]

Images(n) == {quads[i] : i \in {j \in DOMAIN quads : quads[j].texture = n}}

(* The quads of every atlas of the pool, the full ones too.                *)
QuadsOK ==
    /\ count \in Nat /\ quads \in Seq(QuadSet)
    /\ count = 0 => quads = <<>>
    /\ \A i \in DOMAIN quads :
          /\ quads[i].texture <= count
          /\ quads[i].x + quads[i].w <= Width /\ quads[i].y + quads[i].h <= Height
    /\ \A i, j \in DOMAIN quads :
          i < j /\ quads[i].texture = quads[j].texture => Apart(quads[i], quads[j])

(* ImagesApart is not inductive: that the next image overlaps none rests   *)
(* on where the shelf ends, and on the leftovers being apart from each     *)
(* other and inside what is filled.                                        *)
PoolInv == QuadsOK /\ AtlasOK(atlas, Images(count))

LEMMA QuadFields ==
    ASSUME NEW n, NEW at
    PROVE  LET q == Quad(n, at)
           IN  q.x = at.x /\ q.y = at.y /\ q.w = at.w /\ q.h = at.h /\ q.texture = n
  BY DEF Quad

LEMMA QuadTexture ==
    ASSUME NEW s \in Seq(QuadSet), NEW i \in DOMAIN s
    PROVE  s[i].texture \in Nat
<1>1. s[i] \in QuadSet
  OBVIOUS
<1>2. QED
  BY <1>1 DEF QuadSet

(* The pool with the quad of a new image: at is its place in atlas n.      *)
LEMMA QuadAdded ==
    ASSUME QuadsOK, NEW n \in Nat, n >= count, n # 0,
           NEW t \in Nat, t <= n, NEW at, IsRect(at),
           at.x + at.w <= Width, at.y + at.h <= Height,
           \A q \in Images(t) : Apart(at, q),
           count' = n, quads' = Append(quads, Quad(t, at))
    PROVE  /\ QuadsOK'
           /\ Images(n)' = IF t = n THEN Images(n) \union {Quad(n, at)} ELSE Images(n)
<1> DEFINE q == Quad(t, at)
           m == Len(quads)
<1>1. q.x = at.x /\ q.y = at.y /\ q.w = at.w /\ q.h = at.h /\ q.texture = t
  BY QuadFields
<1>2. q \in QuadSet
  BY DEF Quad, QuadSet, IsRect
<1>3. count \in Nat /\ quads \in Seq(QuadSet)
  BY DEF QuadsOK
<1> HIDE DEF q
<1>4. /\ quads' \in Seq(QuadSet) /\ m \in Nat /\ DOMAIN quads = 1 .. m /\ DOMAIN quads' = 1 .. m + 1
      /\ quads'[m + 1] = q /\ \A i \in 1 .. m : quads'[i] = quads[i]
  BY <1>2, <1>3 DEF q
<1> HIDE DEF m
<1>5. quads' # <<>>
  BY <1>4
<1>6. ASSUME NEW i \in 1 .. m + 1
      PROVE  /\ quads'[i].texture <= n
             /\ quads'[i].x + quads'[i].w <= Width /\ quads'[i].y + quads'[i].h <= Height
  <2>1. CASE i \in 1 .. m
    <3>1. quads[i].texture \in Nat
      BY <1>3, <1>4, <2>1, QuadTexture
    <3>2. QED
      BY <1>3, <1>4, <2>1, <3>1 DEF QuadsOK
  <2>2. CASE i = m + 1
    BY <1>1, <1>4, <2>2
  <2>3. QED
    BY <1>4, <2>1, <2>2
<1>7. ASSUME NEW i \in 1 .. m + 1, NEW j \in 1 .. m + 1, i < j,
             quads'[i].texture = quads'[j].texture
      PROVE  Apart(quads'[i], quads'[j])
  <2>1. i \in 1 .. m
    BY <1>4, <1>7
  <2>2. CASE j \in 1 .. m
    BY <1>4, <1>7, <2>1, <2>2 DEF QuadsOK
  <2>3. CASE j = m + 1
    <3>1. quads[i] \in Images(t)
      BY <1>1, <1>4, <1>7, <2>1, <2>3 DEF Images
    <3>2. Apart(at, quads[i])
      BY <3>1
    <3>3. Apart(quads[i], q)
      BY <1>1, <3>2 DEF Apart
    <3>4. QED
      BY <1>4, <2>1, <2>3, <3>3
  <2>4. QED
    BY <1>4, <2>2, <2>3
<1>8. QuadsOK'
  BY <1>4, <1>5, <1>6, <1>7 DEF QuadsOK
<1>9. Images(n)' = IF t = n THEN Images(n) \union {q} ELSE Images(n)
  <2>1. ASSUME NEW p
        PROVE  p \in Images(n)' <=> p \in Images(n) \/ (t = n /\ p = q)
    <3>1. p \in Images(n)' <=> \E i \in 1 .. m + 1 : quads'[i].texture = n /\ p = quads'[i]
      BY <1>4 DEF Images
    <3>2. p \in Images(n) <=> \E i \in 1 .. m : quads[i].texture = n /\ p = quads[i]
      BY <1>4 DEF Images
    <3>3. 1 .. m + 1 = (1 .. m) \union {m + 1}
      BY <1>4
    <3>4. QED
      BY <1>1, <1>4, <3>1, <3>2, <3>3
  <2>2. CASE t = n
    BY <2>1, <2>2
  <2>3. CASE t # n
    BY <2>1, <2>3
  <2>4. QED
    BY <2>2, <2>3
<1>10. QED
  BY <1>8, <1>9 DEF q

(* TexturePool::addSprite, whichever atlas the image went to.              *)
LEMMA ImageAdded ==
    ASSUME QuadsOK, NEW n \in Nat, n >= count, n # 0, NEW u,
           AtlasOK(u.atlas, Images(n) \union {u.at}), IsRect(u.at),
           \A q \in Images(n) : Apart(u.at, q), Add(n, u)
    PROVE  PoolInv'
<1> DEFINE at == u.at
           q == Quad(n, at)
           a == u.atlas
           t == a.leftovers
<1>1. count' = n /\ quads' = Append(quads, q) /\ atlas' = a
  BY DEF Add
<1>2. q.x = at.x /\ q.y = at.y /\ q.w = at.w /\ q.h = at.h
  BY QuadFields
<1>3. /\ IsAtlas(a) /\ ShelfOK(a) /\ \A p \in Images(n) : Inside(a, p)
      /\ Inside(a, at)
      /\ \A k \in Keys(t) : Inside(a, Value(t, k)) /\ Apart(Value(t, k), at)
      /\ \A k \in Keys(t), p \in Images(n) : Apart(Value(t, k), p)
      /\ \A k, l \in Keys(t) : k # l => Apart(Value(t, k), Value(t, l))
  BY DEF AtlasOK
<1>4. IsRect(at) /\ at.x + at.w <= Width /\ at.y + at.h <= Height
  BY <1>3, SpritesAssumption DEF Inside, ShelfOK, IsRect
<1>5. QuadsOK' /\ Images(n)' = Images(n) \union {q}
  <2>1. n <= n
    OBVIOUS
  <2>2. QED
    BY <1>1, <1>4, <2>1, QuadAdded
<1> HIDE DEF q, at, a
<1>6. Inside(a, q)
  BY <1>2, <1>3 DEF Inside, IsRect
<1>7. \A k \in Keys(t) : Apart(Value(t, k), q)
  BY <1>2, <1>3 DEF Apart
<1>8. AtlasOK(a, Images(n) \union {q})
  BY <1>3, <1>6, <1>7 DEF AtlasOK
<1>9. Images(count)' = Images(n)'
  BY <1>1
<1>10. QED
  BY <1>1, <1>5, <1>8, <1>9 DEF PoolInv

(* An atlas that is new has no images.                                     *)
LEMMA NoImagesYet ==
    ASSUME QuadsOK, NEW n \in Nat, n > count
    PROVE  Images(n) = {}
<1>1. count \in Nat /\ quads \in Seq(QuadSet)
  BY DEF QuadsOK
<1>2. \A i \in DOMAIN quads : quads[i].texture \in Nat /\ quads[i].texture <= count
  BY <1>1, QuadTexture DEF QuadsOK
<1>3. \A i \in DOMAIN quads : quads[i].texture # n
  BY <1>1, <1>2
<1>4. QED
  BY <1>3 DEF Images

LEMMA PoolStep == PoolInv /\ [Next]_vars => PoolInv'
<1> SUFFICES ASSUME PoolInv, [Next]_vars PROVE PoolInv'
  OBVIOUS
<1>1. QuadsOK /\ count \in Nat /\ AtlasOK(atlas, Images(count))
  BY DEF PoolInv, QuadsOK
<1>2. ASSUME UNCHANGED <<atlas, count, quads>>
      PROVE  PoolInv'
  <2>1. QuadsOK' /\ Images(count)' = Images(count) /\ atlas' = atlas
    BY <1>1, <1>2 DEF QuadsOK, Images
  <2>2. QED
    BY <1>1, <2>1 DEF PoolInv
<1>3. ASSUME NEW s \in Sizes, AddToLast(s[1], s[2])
      PROVE  PoolInv'
  <2> DEFINE n == IF count = 0 THEN 1 ELSE count
  <2>1. PICK u \in update(atlas, s[1], s[2]) : Add(n, u)
    BY <1>3 DEF AddToLast
  <2>2. n \in Nat /\ n >= count /\ n # 0
    BY <1>1
  <2>3. Images(n) = Images(count)
    <3>1. CASE count = 0
      <4>1. quads = <<>>
        BY <1>1, <3>1 DEF QuadsOK
      <4>2. QED
        BY <4>1 DEF Images
    <3>2. QED
      BY <3>1
  <2> HIDE DEF n
  <2>4. /\ AtlasOK(u.atlas, Images(n) \union {u.at}) /\ IsRect(u.at)
        /\ \A q \in Images(n) : Apart(u.at, q)
    BY <1>1, <2>3, UpdateOK
  <2>5. QED
    BY <1>1, <2>1, <2>2, <2>4, ImageAdded
<1>4. ASSUME NEW s \in Sizes, AddFileToNew(s[1], s[2])
      PROVE  PoolInv'
  <2> DEFINE n == count + 1
  <2>1. PICK u \in update(NewAtlas, s[1], s[2]) : Add(n, u)
    BY <1>4 DEF AddFileToNew
  <2>2. n \in Nat /\ n > count /\ n >= count /\ n # 0
    BY <1>1
  <2> HIDE DEF n
  <2>3. Images(n) = {}
    BY <1>1, <2>2, NoImagesYet
  <2>4. /\ AtlasOK(u.atlas, Images(n) \union {u.at}) /\ IsRect(u.at)
        /\ \A q \in Images(n) : Apart(u.at, q)
    BY <2>3, NewAtlasOK, UpdateOK
  <2>5. QED
    BY <1>1, <2>1, <2>2, <2>4, ImageAdded
<1>5. ASSUME NEW s \in Sizes, AddEmpty(s[1], s[2])
      PROVE  PoolInv'
  <2> DEFINE at == Rect(0, 0, 0, 0)
  <2>0. PICK n \in Nat : n = IF count = 0 THEN 2 ELSE count + 1
    BY <1>1
  <2>1. atlas' = NewAtlas /\ count' = n /\ quads' = Append(quads, Quad(0, at))
    BY <1>5, <2>0 DEF AddEmpty
  <2>2. n > count /\ n >= count /\ n # 0 /\ 0 <= n
    BY <1>1, <2>0
  <2>3. at.x = 0 /\ at.y = 0 /\ at.w = 0 /\ at.h = 0
    BY RectFields
  <2> HIDE DEF at
  <2>4. IsRect(at) /\ at.x + at.w <= Width /\ at.y + at.h <= Height
    BY <2>3, SpritesAssumption DEF IsRect
  <2>5. Images(n) = {}
    BY <1>1, <2>2, NoImagesYet
  <2>6. \A q \in Images(0) : Apart(at, q)
    <3>1. ASSUME NEW i \in DOMAIN quads
          PROVE  Apart(at, quads[i])
      <4>1. quads[i] \in QuadSet
        BY <1>1 DEF QuadsOK
      <4>2. quads[i].x \in Nat
        BY <4>1 DEF QuadSet
      <4>3. QED
        BY <2>3, <4>2 DEF Apart
    <3>2. QED
      BY <3>1 DEF Images
  <2>7. QuadsOK' /\ Images(n)' = {}
    BY <1>1, <2>1, <2>2, <2>4, <2>5, <2>6, QuadAdded
  <2>8. Images(count)' = {}
    BY <2>1, <2>7
  <2>9. QED
    BY <2>1, <2>7, <2>8, NewAtlasOK DEF PoolInv
<1>6. ASSUME NEW s \in Sizes, AddDataToNew(s[1], s[2])
      PROVE  PoolInv'
  BY <1>2, <1>6 DEF AddDataToNew
<1>7. ASSUME NEW i \in DOMAIN quads, Lookup(i)
      PROVE  PoolInv'
  BY <1>2, <1>7 DEF Lookup
<1>8. CASE UNCHANGED vars
  BY <1>2, <1>8 DEF vars
<1>9. QED
  BY <1>3, <1>4, <1>5, <1>6, <1>7, <1>8 DEF Next

LEMMA PoolAlways == Spec => []PoolInv
<1>1. Init => PoolInv
  <2> SUFFICES ASSUME Init PROVE PoolInv
    OBVIOUS
  <2>1. atlas = NewAtlas /\ count = 0 /\ quads = <<>>
    BY DEF Init
  <2>2. QuadsOK /\ Images(count) = {}
    BY <2>1 DEF QuadsOK, Images
  <2>3. QED
    BY <2>1, <2>2, NewAtlasOK DEF PoolInv
<1>2. QED
  BY <1>1, PoolStep, PTL DEF Spec

(* The images that TexturePool::addSprite has packed never overlap and     *)
(* never leave their atlas, and neither do the leftovers it still has to   *)
(* fill: for atlases and a MINLOSIZE of any size, and any number of images *)
(* none of which is wider or higher than the atlas, as SpritesAssumption   *)
(* has it.  TextureAtlas::update does not refuse a wider one.              *)
THEOREM PackedImagesApart == Spec => []ImagesApart
<1>1. PoolInv => ImagesApart
  <2> SUFFICES ASSUME PoolInv PROVE ImagesApart
    OBVIOUS
  <2> DEFINE t == atlas.leftovers
             last == {quads[i] : i \in {j \in DOMAIN quads : quads[j].texture = count}}
  <2>1. /\ QuadsOK
        /\ ShelfOK(atlas) /\ \A k \in Keys(t) : Inside(atlas, Value(t, k))
        /\ \A k \in Keys(t), q \in last : Apart(Value(t, k), q)
        /\ \A k, l \in Keys(t) : k # l => Apart(Value(t, k), Value(t, l))
    BY DEF PoolInv, AtlasOK, Images
  <2>2. \A r : r \in Kept <=> \E k \in Keys(t) : r = Value(t, k)
    BY DEF Kept, Keys, Value
  <2>3. \A r \in ToSet(quads) : r.x + r.w <= Width /\ r.y + r.h <= Height
    BY <2>1 DEF QuadsOK, ToSet
  <2>4. \A r \in Kept : r.x + r.w <= Width /\ r.y + r.h <= Height
    <3>1. ASSUME NEW r, Inside(atlas, r)
          PROVE  r.x + r.w <= Width /\ r.y + r.h <= Height
      BY <2>1, <3>1, SpritesAssumption DEF Inside, IsRect, ShelfOK
    <3>2. QED
      BY <2>1, <2>2, <3>1
  <2> HIDE DEF last, t
  <2>5. \A r \in Kept : \A q \in last \union (Kept \ {r}) : Apart(r, q)
    BY <2>1, <2>2
  <2>6. \A i, j \in DOMAIN quads :
           i < j /\ quads[i].texture = quads[j].texture => Apart(quads[i], quads[j])
    BY <2>1 DEF QuadsOK
  <2>7. QED
    BY <2>3, <2>4, <2>5, <2>6 DEF ImagesApart, last
<1>2. QED
  BY <1>1, PoolAlways, PTL

-----------------------------------------------------------------------------
(* The links of the search tree.  First: going down from node to node ends *)
(* at a node with room.                                                    *)

(* A walk that takes one step from every node of D is a function on D:     *)
(* where it ends.                                                          *)
LEMMA DescentExists ==
    ASSUME NEW D, 0 \notin D, NEW step \in [D -> D \union {0}]
    PROVE  \E f : f = [k \in D |-> IF step[k] = 0 THEN k ELSE f[step[k]]]
<1> DEFINE Closed(S, k) == k \in S /\ \A y \in S : step[y] \in S \union {0}
           Path(k) == {x \in D : \A S \in SUBSET D : Closed(S, k) => x \in S}
           Ends(k) == {x \in Path(k) : step[x] = 0}
           f == [k \in D |-> CHOOSE x : x \in Ends(k)]
<1>1. ASSUME NEW k \in D, step[k] = 0
      PROVE  f[k] = k
  <2>1. {k} \in SUBSET D /\ Closed({k}, k)
    BY <1>1
  <2>2. Path(k) \subseteq {k} /\ k \in Path(k)
    BY <2>1
  <2> HIDE DEF Path
  <2>3. Ends(k) = {k}
    BY <1>1, <2>2
  <2>4. QED
    BY <2>3
<1>2. ASSUME NEW k \in D, step[k] # 0
      PROVE  f[k] = f[step[k]]
  <2> DEFINE n == step[k]
  <2>1. n \in D
    BY <1>2
  <2>2. ASSUME NEW x \in Path(n)
        PROVE  x \in Path(k)
    <3>1. ASSUME NEW S \in SUBSET D, Closed(S, k)
          PROVE  x \in S
      <4>1. Closed(S, n)
        BY <1>2, <3>1
      <4>2. QED
        BY <4>1
    <3>2. QED
      BY <3>1
  <2>3. ASSUME NEW x \in Path(k), x # k
        PROVE  x \in Path(n)
    <3>1. ASSUME NEW S \in SUBSET D, Closed(S, n)
          PROVE  x \in S
      <4>1. Closed(S \union {k}, k) /\ S \union {k} \in SUBSET D
        BY <3>1
      <4>2. x \in S \union {k}
        BY <4>1
      <4>3. QED
        BY <2>3, <4>2
    <3>2. QED
      BY <2>3, <3>1
  <2> HIDE DEF Path
  <2>4. Ends(k) = Ends(n)
    BY <1>2, <2>2, <2>3
  <2> HIDE DEF Ends
  <2>5. QED
    BY <2>1, <2>4
<1>3. f = [k \in D |-> IF step[k] = 0 THEN k ELSE f[step[k]]]
  <2> HIDE DEF Ends
  <2>1. \A k \in D : f[k] = IF step[k] = 0 THEN k ELSE f[step[k]]
    BY <1>1, <1>2
  <2>2. QED
    BY <2>1
<1>4. QED
  BY <1>3

LEMMA CompareIsDir ==
    ASSUME NEW a, NEW b
    PROVE  Compare(a, b) \in Dirs
  BY DEF Compare, Dirs

(* Node::addOrNext goes down to a node with room, and stays in any part of *)
(* the tree that has the children of its nodes.                            *)
LEMMA RoomFacts ==
    ASSUME NEW nodes, NEW M \in SUBSET DOMAIN nodes, NEW start \in M, NEW v,
           0 \notin DOMAIN nodes,
           \A k \in DOMAIN nodes, d \in Dirs : nodes[k].kid[d] \in DOMAIN nodes \union {0},
           \A k \in M, d \in Dirs : nodes[k].kid[d] \in M \union {0},
           \A S \in SUBSET DOMAIN nodes : S # {} =>
              \E x \in S : \A d \in Dirs : nodes[x].kid[d] \notin S
    PROVE  LET p == Room(nodes, start, v)
           IN  p \in M /\ nodes[p].kid[Compare(v, nodes[p].value)] = 0
<1> DEFINE D == DOMAIN nodes
           next(k) == nodes[k].kid[Compare(v, nodes[k].value)]
           step == [k \in D |-> next(k)]
           down == CHOOSE g : g = [k \in D |-> IF next(k) = 0 THEN k ELSE g[next(k)]]
<1>1. Room(nodes, start, v) = down[start]
  BY DEF Room
<1>2. \A k \in D : next(k) \in D \union {0} /\ (k \in M => next(k) \in M \union {0})
  BY CompareIsDir
<1>3. \A S \in SUBSET D : S # {} => \E x \in S : next(x) \notin S
  BY CompareIsDir
<1>4. down = [k \in D |-> IF next(k) = 0 THEN k ELSE down[next(k)]]
  <2>1. step \in [D -> D \union {0}]
    BY <1>2
  <2> HIDE DEF step
  <2>2. \E f : f = [k \in D |-> IF step[k] = 0 THEN k ELSE f[step[k]]]
    BY <2>1, DescentExists
  <2>3. PICK f : f = [k \in D |-> IF next(k) = 0 THEN k ELSE f[next(k)]]
    BY <2>2 DEF step
  <2> HIDE DEF next
  <2>4. QED
    BY <2>3
<1> HIDE DEF down, next
<1>5. \A k \in D : down[k] = IF next(k) = 0 THEN k ELSE down[next(k)]
  BY <1>4
<1>6. \A k \in M : down[k] \in M /\ next(down[k]) = 0
  <2> DEFINE Good(k) == down[k] \in M /\ next(down[k]) = 0
             Bad == {k \in M : ~Good(k)}
  <2>1. Bad \in SUBSET D
    OBVIOUS
  <2>2. CASE Bad # {}
    <3>1. PICK x \in Bad : next(x) \notin Bad
      BY <1>3, <2>1, <2>2
    <3>2. CASE next(x) = 0
      BY <1>5, <3>1, <3>2
    <3>3. CASE next(x) # 0
      <4>1. next(x) \in M
        BY <1>2, <3>3
      <4>2. Good(next(x))
        BY <3>1, <4>1
      <4>3. QED
        BY <1>5, <3>3, <4>2
    <3>4. QED
      BY <3>2, <3>3
  <2>3. QED
    BY <2>2
<1>7. QED
  BY <1>1, <1>6 DEF next

-----------------------------------------------------------------------------
(* The links of the tree.                                                  *)

Par(t, k)    == t.nodes[k].parent
Kid(t, k, d) == t.nodes[k].kid[d]

(* Both directions of a link agree, no node is a child twice, and there is *)
(* no cycle: any set of nodes has one whose parent, and one whose children *)
(* are not in it.                                                          *)
Woods(t) ==
    /\ IsTree(t) /\ 0 \notin Keys(t)
    /\ t.root # 0 => t.root \in Keys(t) /\ Par(t, t.root) = 0
    /\ \A k \in Keys(t) :
          /\ t.nodes[k].kid = [d \in Dirs |-> Kid(t, k, d)]
          /\ \A d \in Dirs : Kid(t, k, d) # 0 =>
                /\ Kid(t, k, d) \in Keys(t) /\ Par(t, Kid(t, k, d)) = k
                /\ \A e \in Dirs : Kid(t, k, e) = Kid(t, k, d) => e = d
          /\ Par(t, k) \in Keys(t) => \E d \in Dirs : Kid(t, Par(t, k), d) = k
    /\ \A S \in SUBSET Keys(t) : S # {} =>
          /\ \E x \in S : Par(t, x) \notin S
          /\ \E x \in S : \A d \in Dirs : Kid(t, x, d) \notin S

(* The nodes that hang nowhere, for as long as an operation takes.         *)
Loose(t) == {k \in Keys(t) : k # t.root /\ Par(t, k) \notin Keys(t)}

(* F is a loose node and all that is below it.                             *)
Below(t, key, F) ==
    /\ F \subseteq Keys(t) /\ key \in F /\ key \in Loose(t)
    /\ \A x \in F : \A d \in Dirs : Kid(t, x, d) \in F \union {0}
    /\ \A x \in F : x # key => Par(t, x) \in F

(* What a step that hangs key below p changes.                             *)
Hung(s, t, key, p) ==
    /\ IsTree(s) /\ Keys(s) = Keys(t) /\ s.root = t.root
    /\ p \in Keys(t)
    /\ \A k \in Keys(t) : /\ s.nodes[k].kid = [d \in Dirs |-> Kid(s, k, d)]
                          /\ Par(s, k) = IF k = key THEN p ELSE Par(t, k)
    /\ \E e \in Dirs :
          /\ Kid(t, p, e) = 0
          /\ \A k \in Keys(t), d \in Dirs :
                Kid(s, k, d) = IF k = p /\ d = e THEN key ELSE Kid(t, k, d)

(* Whatever is not below a loose node has its children there too.          *)
LEMMA RestIsClosed ==
    ASSUME NEW t, Woods(t), NEW key, NEW F, Below(t, key, F)
    PROVE  /\ t.root \notin F
           /\ \A x \in Keys(t) \ F, d \in Dirs : Kid(t, x, d) \in (Keys(t) \ F) \union {0}
<1>1. t.root \notin F
  BY DEF Below, Loose, Woods
<1>2. ASSUME NEW x \in Keys(t) \ F, NEW d \in Dirs, Kid(t, x, d) # 0
      PROVE  Kid(t, x, d) \in Keys(t) \ F
  <2>1. Kid(t, x, d) \in Keys(t) /\ Par(t, Kid(t, x, d)) = x
    BY <1>2 DEF Woods
  <2>2. QED
    BY <2>1 DEF Below, Loose
<1>3. QED
  BY <1>1, <1>2

LEMMA HangShape ==
    ASSUME NEW t, Woods(t), NEW key \in Loose(t), NEW F, Below(t, key, F),
           NEW start \in Keys(t) \ F
    PROVE  LET s == [t EXCEPT !.nodes = Hang(t.nodes, start, key)]
           IN  \E p \in Keys(t) :
                  /\ Hung(s, t, key, p)
                  /\ \A G : start \notin G /\ (\E g : Below(t, g, G)) => p \notin G
<1> DEFINE nodes == t.nodes
           v == nodes[key].value
           p == Room(nodes, start, v)
           e == Compare(v, nodes[p].value)
           b == [nodes EXCEPT ![p].kid[e] = key]
           c == [b EXCEPT ![key].parent = p]
           s == [t EXCEPT !.nodes = Hang(nodes, start, key)]
<1>1. Hang(nodes, start, key) = c
  BY DEF Hang
<1>2. ASSUME NEW g, NEW G, Below(t, g, G), start \notin G
      PROVE  p \in Keys(t) \ G /\ Kid(t, p, e) = 0
  <2> DEFINE M == Keys(t) \ G
  <2>1. \A x \in M, d \in Dirs : Kid(t, x, d) \in M \union {0}
    BY <1>2, RestIsClosed
  <2>2. /\ M \in SUBSET DOMAIN nodes /\ start \in M /\ 0 \notin DOMAIN nodes
        /\ \A k \in DOMAIN nodes, d \in Dirs : nodes[k].kid[d] \in DOMAIN nodes \union {0}
        /\ \A k \in M, d \in Dirs : nodes[k].kid[d] \in M \union {0}
        /\ \A S \in SUBSET DOMAIN nodes : S # {} =>
              \E x \in S : \A d \in Dirs : nodes[x].kid[d] \notin S
    <3>1. M \in SUBSET DOMAIN nodes /\ start \in M /\ 0 \notin DOMAIN nodes
      BY <1>2 DEF Woods, Keys
    <3>2. \A k \in DOMAIN nodes, d \in Dirs : nodes[k].kid[d] \in DOMAIN nodes \union {0}
      BY DEF Woods, Keys, Kid
    <3>3. \A k \in M, d \in Dirs : nodes[k].kid[d] \in M \union {0}
      BY <2>1 DEF Kid
    <3>4. \A S \in SUBSET DOMAIN nodes : S # {} =>
             \E x \in S : \A d \in Dirs : nodes[x].kid[d] \notin S
      BY DEF Woods, Keys, Kid
    <3>5. QED
      BY <3>1, <3>2, <3>3, <3>4
  <2> HIDE DEF M, nodes, v
  <2>3. p \in M /\ nodes[p].kid[e] = 0
    BY <2>2, RoomFacts
  <2>4. QED
    BY <2>3 DEF M, nodes, Kid
<1>3. p \in Keys(t) /\ Kid(t, p, e) = 0 /\ e \in Dirs /\ key \in Keys(t)
  BY <1>2, CompareIsDir DEF Loose
<1>4. /\ DOMAIN c = DOMAIN nodes /\ c = [k \in DOMAIN c |-> c[k]]
      /\ \A k \in DOMAIN nodes : IsNode(c[k])
  <2>1. /\ nodes = [k \in DOMAIN nodes |-> nodes[k]]
        /\ \A k \in DOMAIN nodes : IsNode(nodes[k])
    BY DEF Woods, IsTree
  <2> HIDE DEF nodes, c
  <2>2. QED
    BY <1>1, <2>1, HangFacts
<1>5. /\ s = [root |-> t.root, nodes |-> c] /\ IsTree(s) /\ Keys(s) = Keys(t)
      /\ s.root = t.root /\ s.nodes = c
  <2>1. t = [root |-> t.root, nodes |-> t.nodes]
    BY DEF Woods, IsTree
  <2> HIDE DEF c
  <2>2. s = [root |-> t.root, nodes |-> c]
    BY <1>1, <2>1
  <2> HIDE DEF s
  <2>3. QED
    BY <1>4, <2>2 DEF IsTree, Keys
<1> HIDE DEF s, p, e, v
<1>6. \A k \in Keys(t) : b[k] = IF k = p THEN [nodes[p] EXCEPT !.kid[e] = key] ELSE nodes[k]
  BY <1>3 DEF Keys
<1>7. DOMAIN b = Keys(t)
  BY DEF Keys
<1> HIDE DEF b
<1>8. \A k \in Keys(t) : c[k] = IF k = key THEN [b[k] EXCEPT !.parent = p] ELSE b[k]
  BY <1>3, <1>7
<1> HIDE DEF c
<1>9. \A k \in Keys(t) : IsNode(nodes[k]) /\ nodes[k].kid = [d \in Dirs |-> Kid(t, k, d)]
  BY DEF Woods, IsTree, Keys
<1>10. \A k \in Keys(t) : /\ IsNode(b[k]) /\ b[k].parent = nodes[k].parent
                          /\ b[k].kid = IF k = p THEN [nodes[k].kid EXCEPT ![e] = key] ELSE nodes[k].kid
  <2>1. SUFFICES ASSUME NEW k \in Keys(t)
                 PROVE  /\ IsNode(b[k]) /\ b[k].parent = nodes[k].parent
                        /\ b[k].kid = IF k = p THEN [nodes[k].kid EXCEPT ![e] = key] ELSE nodes[k].kid
    OBVIOUS
  <2>2. CASE k = p
    <3>1. PICK n, m : n = nodes[k] /\ m = b[k]
      OBVIOUS
    <3>2. n = [value |-> n.value, parent |-> n.parent, kid |-> n.kid]
      BY <1>9, <3>1 DEF IsNode
    <3>3. m = [n EXCEPT !.kid[e] = key]
      BY <1>6, <2>2, <3>1
    <3>4. m = [value |-> n.value, parent |-> n.parent, kid |-> [n.kid EXCEPT ![e] = key]]
      BY <3>2, <3>3
    <3>5. IsNode(m) /\ m.parent = n.parent /\ m.kid = [n.kid EXCEPT ![e] = key]
      BY <3>4 DEF IsNode
    <3>6. QED
      BY <2>2, <3>1, <3>5
  <2>3. CASE k # p
    BY <1>6, <1>9, <2>3
  <2>4. QED
    BY <2>2, <2>3
<1>11. \A k \in Keys(t) : /\ c[k].parent = IF k = key THEN p ELSE nodes[k].parent
                          /\ c[k].kid = IF k = p THEN [nodes[k].kid EXCEPT ![e] = key] ELSE nodes[k].kid
  BY <1>8, <1>10 DEF IsNode
<1>12. \A k \in Keys(t) : /\ c[k].kid = [d \in Dirs |-> c[k].kid[d]]
                          /\ \A d \in Dirs : c[k].kid[d] = IF k = p /\ d = e THEN key ELSE nodes[k].kid[d]
  <2>1. SUFFICES ASSUME NEW k \in Keys(t)
                 PROVE  /\ c[k].kid = [d \in Dirs |-> c[k].kid[d]]
                        /\ \A d \in Dirs : c[k].kid[d] = IF k = p /\ d = e THEN key ELSE nodes[k].kid[d]
    OBVIOUS
  <2>2. CASE k = p
    BY <1>3, <1>9, <1>11, <2>2
  <2>3. CASE k # p
    BY <1>9, <1>11, <2>3
  <2>4. QED
    BY <2>2, <2>3
<1>13. Hung(s, t, key, p)
  <2>1. \A k \in Keys(t) : /\ s.nodes[k].kid = [d \in Dirs |-> Kid(s, k, d)]
                           /\ Par(s, k) = IF k = key THEN p ELSE Par(t, k)
    BY <1>5, <1>11, <1>12 DEF Par, Kid
  <2>2. \A k \in Keys(t), d \in Dirs :
           Kid(s, k, d) = IF k = p /\ d = e THEN key ELSE Kid(t, k, d)
    BY <1>5, <1>12 DEF Kid
  <2>3. QED
    BY <1>3, <1>5, <2>1, <2>2 DEF Hung
<1>14. QED
  BY <1>2, <1>3, <1>13 DEF s

(* Hanging a loose node, with all that is below it, somewhere else.        *)
LEMMA HungKeepsWoods ==
    ASSUME NEW t, Woods(t), NEW key, NEW F, Below(t, key, F),
           NEW s, NEW p \in Keys(t) \ F, Hung(s, t, key, p)
    PROVE  /\ Woods(s) /\ Loose(s) = Loose(t) \ {key}
           /\ \A g, G : Below(t, g, G) /\ g # key /\ p \notin G => Below(s, g, G)
<1> DEFINE K == Keys(t)
<1>1. /\ IsTree(s) /\ Keys(s) = K /\ s.root = t.root /\ key \in K /\ key \in F
      /\ key # t.root /\ Par(t, key) \notin K /\ key # p /\ p # 0 /\ key # 0
  BY DEF Hung, Below, Loose, Woods
<1>2. PICK e \in Dirs :
         /\ Kid(t, p, e) = 0
         /\ \A k \in K, d \in Dirs : Kid(s, k, d) = IF k = p /\ d = e THEN key ELSE Kid(t, k, d)
  BY DEF Hung
<1>3. \A k \in K : Par(s, k) = IF k = key THEN p ELSE Par(t, k)
  BY DEF Hung
<1>4. \A k \in K : s.nodes[k].kid = [d \in Dirs |-> Kid(s, k, d)]
  BY DEF Hung
<1>5. /\ \A k \in K, d \in Dirs : Kid(t, k, d) # 0 =>
            /\ Kid(t, k, d) \in K /\ Par(t, Kid(t, k, d)) = k
            /\ \A f \in Dirs : Kid(t, k, f) = Kid(t, k, d) => f = d
      /\ \A k \in K : Par(t, k) \in K => \E d \in Dirs : Kid(t, Par(t, k), d) = k
  BY DEF Woods
<1>6. \A k \in K, d \in Dirs : Kid(t, k, d) # key
  BY <1>1, <1>5
<1>7. ASSUME NEW k \in K, NEW d \in Dirs, Kid(s, k, d) # 0
      PROVE  /\ Kid(s, k, d) \in K /\ Par(s, Kid(s, k, d)) = k
             /\ \A f \in Dirs : Kid(s, k, f) = Kid(s, k, d) => f = d
  <2>1. CASE k = p /\ d = e
    BY <1>1, <1>2, <1>3, <1>6, <2>1
  <2>2. CASE ~(k = p /\ d = e)
    <3>1. Kid(s, k, d) = Kid(t, k, d)
      BY <1>2, <2>2
    <3>2. /\ Kid(t, k, d) \in K /\ Par(t, Kid(t, k, d)) = k /\ Kid(t, k, d) # key
          /\ \A f \in Dirs : Kid(t, k, f) = Kid(t, k, d) => f = d
      BY <1>5, <1>6, <1>7, <3>1
    <3>3. \A f \in Dirs : Kid(s, k, f) = Kid(s, k, d) => f = d
      BY <1>2, <3>1, <3>2
    <3>4. QED
      BY <1>3, <3>1, <3>2, <3>3
  <2>3. QED
    BY <2>1, <2>2
<1>8. ASSUME NEW k \in K, Par(s, k) \in K
      PROVE  \E d \in Dirs : Kid(s, Par(s, k), d) = k
  <2>1. CASE k = key
    BY <1>2, <1>3, <2>1
  <2>2. CASE k # key
    <3>1. Par(s, k) = Par(t, k)
      BY <1>3, <2>2
    <3>2. PICK d \in Dirs : Kid(t, Par(t, k), d) = k
      BY <1>5, <1>8, <3>1
    <3>3. Kid(s, Par(s, k), d) = k
      <4>1. ~(Par(t, k) = p /\ d = e)
        <5>1. k # 0
          BY DEF Woods
        <5>2. QED
          BY <1>2, <3>2, <5>1
      <4>2. QED
        BY <1>2, <1>8, <3>1, <3>2, <4>1
    <3>4. QED
      BY <3>3
  <2>3. QED
    BY <2>1, <2>2
<1>9. ASSUME NEW S \in SUBSET K, S # {}
      PROVE  \E x \in S : Par(s, x) \notin S
  <2>1. CASE key \in S /\ p \in S
    <3> DEFINE Z == S \ F
    <3>1. Z \in SUBSET K /\ Z # {}
      BY <2>1
    <3>2. PICK x \in Z : Par(t, x) \notin Z
      BY <3>1 DEF Woods
    <3>3. x # key /\ x \in K /\ Par(s, x) = Par(t, x)
      BY <1>1, <1>3, <3>2
    <3>4. Par(t, x) \notin F
      <4>1. CASE Par(t, x) \in F
        <5>1. PICK d \in Dirs : Kid(t, Par(t, x), d) = x
          BY <1>5, <3>3, <4>1 DEF Below
        <5>2. x \in F \union {0}
          BY <4>1, <5>1 DEF Below
        <5>3. QED
          BY <3>2, <3>3, <5>2 DEF Woods
      <4>2. QED
        BY <4>1
    <3>5. QED
      BY <3>2, <3>3, <3>4
  <2>2. CASE ~(key \in S /\ p \in S)
    <3>1. PICK x \in S : Par(t, x) \notin S
      BY <1>9 DEF Woods
    <3>2. CASE x = key
      BY <1>3, <2>2, <3>1, <3>2
    <3>3. CASE x # key
      BY <1>3, <3>1, <3>3
    <3>4. QED
      BY <3>2, <3>3
  <2>3. QED
    BY <2>1, <2>2
<1>10. ASSUME NEW S \in SUBSET K, S # {}
       PROVE  \E x \in S : \A d \in Dirs : Kid(s, x, d) \notin S
  <2>1. CASE S \intersect F # {}
    <3> DEFINE Z == S \intersect F
    <3>1. PICK x \in Z : \A d \in Dirs : Kid(t, x, d) \notin Z
      <4>1. Z \in SUBSET K /\ Z # {}
        BY <2>1
      <4>2. QED
        BY <4>1 DEF Woods
    <3>2. \A d \in Dirs : Kid(t, x, d) \in F \union {0}
      BY <3>1 DEF Below
    <3>3. x # p /\ x \in K /\ 0 \notin S
      BY <3>1 DEF Woods
    <3>4. QED
      BY <1>2, <3>1, <3>2, <3>3
  <2>2. CASE S \intersect F = {}
    <3>1. PICK x \in S : \A d \in Dirs : Kid(t, x, d) \notin S
      BY <1>10 DEF Woods
    <3>2. key \notin S
      BY <1>1, <2>2
    <3>3. QED
      BY <1>2, <3>1, <3>2
  <2>3. QED
    BY <2>1, <2>2
<1>11. s.root # 0 => s.root \in K /\ Par(s, s.root) = 0
  BY <1>1, <1>3 DEF Woods
<1>12. Woods(s)
  <2>1. 0 \notin K
    BY DEF Woods
  <2> HIDE DEF K
  <2>2. QED
    BY <1>1, <1>4, <1>7, <1>8, <1>9, <1>10, <1>11, <2>1 DEF Woods
<1>13. Loose(s) = Loose(t) \ {key}
  BY <1>1, <1>3 DEF Loose
<1>14. ASSUME NEW g, NEW G, Below(t, g, G), g # key, p \notin G
       PROVE  Below(s, g, G)
  <2>1. G \subseteq K /\ g \in G /\ g \in Loose(s)
    BY <1>13, <1>14 DEF Below
  <2>2. \A x \in G : \A d \in Dirs : Kid(s, x, d) \in G \union {0}
    BY <1>2, <1>14, <2>1 DEF Below
  <2>3. key \notin G
    BY <1>1, <1>14 DEF Below
  <2>4. \A x \in G : x # g => Par(s, x) \in G
    BY <1>3, <1>14, <2>1, <2>3 DEF Below
  <2>5. QED
    BY <1>1, <2>1, <2>2, <2>4 DEF Below
<1>15. QED
  BY <1>12, <1>13, <1>14

(* A loose node becomes the root of a tree that has none.                  *)
LEMMA RootKeepsWoods ==
    ASSUME NEW t, Woods(t), t.root = 0, NEW key \in Loose(t),
           NEW s, s = [root |-> key, nodes |-> [t.nodes EXCEPT ![key].parent = 0]]
    PROVE  /\ Woods(s) /\ Keys(s) = Keys(t) /\ Loose(s) = Loose(t) \ {key}
           /\ \A g, G : Below(t, g, G) /\ g # key => Below(s, g, G)
<1> DEFINE K == Keys(t)
           c == [t.nodes EXCEPT ![key].parent = 0]
<1>1. /\ key \in K /\ Par(t, key) \notin K /\ 0 \notin K
      /\ t.nodes = [k \in K |-> t.nodes[k]] /\ \A k \in K : IsNode(t.nodes[k])
  BY DEF Loose, Woods, IsTree, Keys
<1>2. s.root = key /\ s.nodes = c /\ s = [root |-> s.root, nodes |-> s.nodes]
  OBVIOUS
<1>3. \A k \in K : c[k] = IF k = key THEN [t.nodes[k] EXCEPT !.parent = 0] ELSE t.nodes[k]
  BY DEF Keys
<1>4. DOMAIN c = K /\ c = [k \in K |-> c[k]]
  BY DEF Keys
<1> HIDE DEF c
<1>5. \A k \in K : /\ IsNode(c[k]) /\ c[k].kid = t.nodes[k].kid
                   /\ c[k].parent = IF k = key THEN 0 ELSE t.nodes[k].parent
  BY <1>1, <1>3 DEF IsNode
<1>6. IsTree(s) /\ Keys(s) = K
  BY <1>2, <1>4, <1>5 DEF IsTree, Keys
<1>7. \A k \in K : Par(s, k) = IF k = key THEN 0 ELSE Par(t, k)
  BY <1>2, <1>5 DEF Par
<1>8. \A k \in K : \A d \in Dirs : Kid(s, k, d) = Kid(t, k, d)
  BY <1>2, <1>5 DEF Kid
<1>9. \A k \in K : s.nodes[k].kid = [d \in Dirs |-> Kid(s, k, d)]
  <2>1. SUFFICES ASSUME NEW k \in K
                 PROVE  s.nodes[k].kid = [d \in Dirs |-> Kid(s, k, d)]
    OBVIOUS
  <2>2. t.nodes[k].kid = [d \in Dirs |-> Kid(t, k, d)]
    BY DEF Woods
  <2>3. [d \in Dirs |-> Kid(t, k, d)] = [d \in Dirs |-> Kid(s, k, d)]
    BY <1>8
  <2>4. QED
    BY <1>2, <1>5, <2>2, <2>3
<1>10. ASSUME NEW k \in K
       PROVE  /\ \A d \in Dirs : Kid(s, k, d) # 0 =>
                    /\ Kid(s, k, d) \in K /\ Par(s, Kid(s, k, d)) = k
                    /\ \A e \in Dirs : Kid(s, k, e) = Kid(s, k, d) => e = d
              /\ Par(s, k) \in K => \E d \in Dirs : Kid(s, Par(s, k), d) = k
  <2>1. /\ \A d \in Dirs : Kid(t, k, d) # 0 =>
              /\ Kid(t, k, d) \in K /\ Par(t, Kid(t, k, d)) = k
              /\ \A e \in Dirs : Kid(t, k, e) = Kid(t, k, d) => e = d
        /\ Par(t, k) \in K => \E d \in Dirs : Kid(t, Par(t, k), d) = k
    BY DEF Woods
  <2> HIDE DEF K
  <2>2. ASSUME NEW d \in Dirs, Kid(s, k, d) # 0
        PROVE  /\ Kid(s, k, d) \in K /\ Par(s, Kid(s, k, d)) = k
               /\ \A e \in Dirs : Kid(s, k, e) = Kid(s, k, d) => e = d
    BY <1>1, <1>7, <1>8, <2>1, <2>2
  <2>3. Par(s, k) \in K => \E d \in Dirs : Kid(s, Par(s, k), d) = k
    BY <1>1, <1>7, <1>8, <2>1
  <2>4. QED
    BY <2>2, <2>3
<1>11. ASSUME NEW S \in SUBSET K, S # {}
       PROVE  /\ \E x \in S : Par(s, x) \notin S
              /\ \E x \in S : \A d \in Dirs : Kid(s, x, d) \notin S
  <2>1. PICK x \in S : Par(t, x) \notin S
    BY <1>11 DEF Woods
  <2>2. PICK y \in S : \A d \in Dirs : Kid(t, y, d) \notin S
    BY <1>11 DEF Woods
  <2>3. QED
    BY <1>1, <1>7, <1>8, <2>1, <2>2
<1> HIDE DEF K
<1>12. Woods(s)
  <2>1. s.root # 0 => s.root \in Keys(s) /\ Par(s, s.root) = 0
    BY <1>1, <1>2, <1>6, <1>7
  <2>2. \A k \in Keys(s) :
           /\ s.nodes[k].kid = [d \in Dirs |-> Kid(s, k, d)]
           /\ \A d \in Dirs : Kid(s, k, d) # 0 =>
                 /\ Kid(s, k, d) \in Keys(s) /\ Par(s, Kid(s, k, d)) = k
                 /\ \A e \in Dirs : Kid(s, k, e) = Kid(s, k, d) => e = d
           /\ Par(s, k) \in Keys(s) => \E d \in Dirs : Kid(s, Par(s, k), d) = k
    BY <1>6, <1>9, <1>10
  <2>3. \A S \in SUBSET Keys(s) : S # {} =>
           /\ \E x \in S : Par(s, x) \notin S
           /\ \E x \in S : \A d \in Dirs : Kid(s, x, d) \notin S
    BY <1>6, <1>11
  <2>4. IsTree(s) /\ 0 \notin Keys(s)
    BY <1>1, <1>6
  <2>5. QED
    BY <2>1, <2>2, <2>3, <2>4, Zenon DEF Woods
<1>13. Loose(s) = Loose(t) \ {key}
  <2>1. \A k \in K : k \in Loose(t) <=> Par(t, k) \notin K
    BY <1>1 DEF Loose, K
  <2>2. \A k \in K : k \in Loose(s) <=> k # key /\ Par(t, k) \notin K
    BY <1>2, <1>6, <1>7 DEF Loose
  <2>3. QED
    BY <1>6, <2>1, <2>2 DEF Loose, K
<1>14. ASSUME NEW g, NEW G, Below(t, g, G), g # key
       PROVE  Below(s, g, G)
  <2>1. G \subseteq K /\ g \in G /\ g \in Loose(s) /\ key \notin G
    BY <1>1, <1>13, <1>14 DEF Below, K
  <2>2. QED
    BY <1>6, <1>7, <1>8, <1>14, <2>1 DEF Below
<1>15. QED
  BY <1>6, <1>12, <1>13, <1>14 DEF K

(* QuadTree::readd of a loose node.                                        *)
LEMMA ReaddWoods ==
    ASSUME NEW t, Woods(t), NEW key, NEW F, Below(t, key, F),
           NEW start, start \notin F, start = 0 \/ start \in Keys(t)
    PROVE  LET s == readd(t, start, key)
           IN  /\ Woods(s) /\ Keys(s) = Keys(t) /\ Loose(s) = Loose(t) \ {key}
               /\ \A g, G : Below(t, g, G) /\ g # key /\ start \notin G => Below(s, g, G)
<1>1. key \in Loose(t)
  BY DEF Below
<1>2. CASE start = 0 /\ t.root = 0
  <2>1. PICK s : s = readd(t, start, key)
    OBVIOUS
  <2>2. s = [root |-> key, nodes |-> [t.nodes EXCEPT ![key].parent = 0]]
    BY <1>2, <2>1 DEF readd
  <2>3. /\ Woods(s) /\ Keys(s) = Keys(t) /\ Loose(s) = Loose(t) \ {key}
        /\ \A g, G : Below(t, g, G) /\ g # key => Below(s, g, G)
    BY <1>1, <1>2, <2>2, RootKeepsWoods
  <2>4. QED
    BY <2>1, <2>3
<1>3. CASE ~(start = 0 /\ t.root = 0)
  <2>1. PICK from : from = IF start = 0 THEN t.root ELSE start
    OBVIOUS
  <2>2. from \in Keys(t)
    BY <1>3, <2>1 DEF Woods
  <2>3. ASSUME NEW g, NEW G, Below(t, g, G), start \notin G
        PROVE  from \notin G
    BY <2>1, <2>3, RestIsClosed
  <2>4. PICK s : s = [t EXCEPT !.nodes = Hang(t.nodes, from, key)]
    OBVIOUS
  <2>5. from \in Keys(t) \ F
    BY <2>2, <2>3
  <2>6. PICK p \in Keys(t) : /\ Hung(s, t, key, p)
                            /\ \A G : from \notin G /\ (\E g : Below(t, g, G)) => p \notin G
    BY <1>1, <2>4, <2>5, HangShape
  <2>7. p \in Keys(t) \ F
    BY <2>5, <2>6
  <2>8. /\ Woods(s) /\ Loose(s) = Loose(t) \ {key}
        /\ \A g, G : Below(t, g, G) /\ g # key /\ p \notin G => Below(s, g, G)
    BY <2>6, <2>7, HungKeepsWoods
  <2>9. \A g, G : Below(t, g, G) /\ g # key /\ start \notin G => Below(s, g, G)
    BY <2>3, <2>6, <2>8
  <2>10. Keys(s) = Keys(t)
    BY <2>6 DEF Hung
  <2>11. readd(t, start, key) = s
    BY <1>3, <2>1, <2>4 DEF readd
  <2>12. QED
    BY <2>8, <2>9, <2>10, <2>11
<1>4. QED
  BY <1>2, <1>3

(* The links of the tree between two calls: nothing is loose.              *)
Linked(t) == Woods(t) /\ Loose(t) = {}

(* The part of the tree that is taken out with key: what hangs below it.   *)
LEMMA KidsAreApart ==
    ASSUME NEW t, Woods(t), NEW key \in Keys(t), NEW c \in Keys(t), Par(t, c) = key
    PROVE  \E F \in SUBSET Keys(t) :
              /\ c \in F /\ key \notin F /\ Par(t, key) \notin F
              /\ \A x \in F : \A d \in Dirs : Kid(t, x, d) \in F \union {0}
              /\ \A x \in F : x # c => Par(t, x) \in F
<1> DEFINE Closed(S) == c \in S /\ \A x \in S : \A d \in Dirs : Kid(t, x, d) \in S \union {0}
<1>1. Keys(t) \in SUBSET Keys(t) /\ Closed(Keys(t))
  BY DEF Woods
<1>2. PICK F : F = {x \in Keys(t) : \A S \in SUBSET Keys(t) : Closed(S) => x \in S}
  OBVIOUS
<1>3. F \in SUBSET Keys(t) /\ \A S \in SUBSET Keys(t) : Closed(S) => F \subseteq S
  BY <1>2
<1>4. Closed(F)
  <2>1. c \in F
    BY <1>2
  <2>2. ASSUME NEW x \in F, NEW d \in Dirs, Kid(t, x, d) # 0
        PROVE  Kid(t, x, d) \in F
    <3>1. Kid(t, x, d) \in Keys(t)
      BY <1>3, <2>2 DEF Woods
    <3>2. ASSUME NEW S \in SUBSET Keys(t), Closed(S)
          PROVE  Kid(t, x, d) \in S
      BY <1>3, <2>2, <3>2
    <3>3. QED
      BY <1>2, <3>1, <3>2
  <2>3. QED
    BY <2>1, <2>2
<1>5. ASSUME NEW x \in F, x # c
      PROVE  Par(t, x) \in F
  <2> DEFINE S == {y \in F : y = c \/ Par(t, y) \in F}
  <2>1. ASSUME NEW y \in S, NEW d \in Dirs, Kid(t, y, d) # 0
        PROVE  Kid(t, y, d) \in S
    <3>1. Kid(t, y, d) \in F
      BY <1>4, <2>1
    <3>2. Par(t, Kid(t, y, d)) = y
      BY <1>3, <2>1 DEF Woods
    <3>3. QED
      BY <3>1, <3>2
  <2>2. S \in SUBSET Keys(t) /\ Closed(S)
    BY <1>3, <1>4, <2>1
  <2>3. F \subseteq S
    BY <1>3, <2>2
  <2>4. QED
    BY <1>5, <2>3
<1>6. key \notin F
  <2>1. CASE key \in F
    <3>1. PICK x \in F : Par(t, x) \notin F
      BY <1>3, <2>1 DEF Woods
    <3>2. QED
      BY <1>5, <2>1, <3>1
  <2>2. QED
    BY <2>1
<1>7. Par(t, key) \notin F
  <2>1. CASE Par(t, key) \in F
    <3> DEFINE S == F \union {key}
    <3>1. S \in SUBSET Keys(t) /\ S # {}
      BY <1>3
    <3>2. PICK x \in S : Par(t, x) \notin S
      BY <3>1 DEF Woods
    <3>3. QED
      BY <1>5, <2>1, <3>2
  <2>2. QED
    BY <2>1
<1>8. QED
  BY <1>3, <1>4, <1>5, <1>6, <1>7

(* Cut leaves the children of key loose.                                   *)
LEMMA CutWoods ==
    ASSUME NEW t, Linked(t), NEW key \in Keys(t)
    PROVE  LET s == Cut(t, key)
           IN  /\ Woods(s) /\ Keys(s) = Keys(t) \ {key}
               /\ \A k \in Keys(s) : /\ Par(s, k) = Par(t, k)
                                     /\ \A d \in Dirs : Kid(s, k, d) =
                                           IF Kid(t, k, d) = key THEN 0 ELSE Kid(t, k, d)
               /\ Loose(s) = {k \in Keys(s) : Par(t, k) = key}
<1> DEFINE K == Keys(t) \ {key}
           kids(n) == [d \in DOMAIN n.kid |-> IF n.kid[d] = key THEN 0 ELSE n.kid[d]]
           m == [k \in DOMAIN t.nodes \ {key} |-> [t.nodes[k] EXCEPT !.kid = kids(t.nodes[k])]]
           r == IF t.root = key THEN 0 ELSE t.root
<1>0. Woods(t) /\ Loose(t) = {} /\ IsTree(t)
  BY DEF Linked, Woods
<1>s. PICK s : s = Cut(t, key)
  OBVIOUS
<1>1. s = [root |-> r, nodes |-> m]
  BY <1>s DEF Cut
<1>2. s.root = r /\ s.nodes = m
  BY <1>1
<1>3. IsTree(s) /\ Keys(s) = K
  BY <1>0, <1>s, CutFacts
<1>4. \A k \in K : IsNode(t.nodes[k]) /\ t.nodes[k].kid = [d \in Dirs |-> Kid(t, k, d)]
  BY <1>0 DEF Woods, IsTree, Keys
<1>5. \A k \in K : m[k] = [t.nodes[k] EXCEPT !.kid = kids(t.nodes[k])]
  BY DEF Keys
<1> HIDE DEF m, kids
<1>6. \A k \in K : m[k].parent = t.nodes[k].parent /\ m[k].kid = kids(t.nodes[k])
  BY <1>4, <1>5 DEF IsNode
<1>7. \A k \in K : Par(s, k) = Par(t, k)
  BY <1>2, <1>6 DEF Par
<1>8. ASSUME NEW k \in K
      PROVE  /\ s.nodes[k].kid = [d \in Dirs |-> Kid(s, k, d)]
             /\ \A d \in Dirs : Kid(s, k, d) = IF Kid(t, k, d) = key THEN 0 ELSE Kid(t, k, d)
  <2>1. s.nodes[k].kid = kids(t.nodes[k]) /\ DOMAIN t.nodes[k].kid = Dirs
    BY <1>2, <1>4, <1>6
  <2>2. s.nodes[k].kid = [d \in Dirs |-> IF Kid(t, k, d) = key THEN 0 ELSE Kid(t, k, d)]
    BY <2>1 DEF kids, Kid
  <2>3. QED
    BY <2>2 DEF Kid
<1>9. ASSUME NEW k \in K
      PROVE  /\ \A d \in Dirs : Kid(s, k, d) # 0 =>
                   /\ Kid(s, k, d) \in K /\ Par(s, Kid(s, k, d)) = k
                   /\ \A e \in Dirs : Kid(s, k, e) = Kid(s, k, d) => e = d
             /\ Par(s, k) \in K => \E d \in Dirs : Kid(s, Par(s, k), d) = k
  <2>1. /\ \A d \in Dirs : Kid(t, k, d) # 0 =>
              /\ Kid(t, k, d) \in Keys(t) /\ Par(t, Kid(t, k, d)) = k
              /\ \A e \in Dirs : Kid(t, k, e) = Kid(t, k, d) => e = d
        /\ Par(t, k) \in Keys(t) => \E d \in Dirs : Kid(t, Par(t, k), d) = k
    BY <1>0 DEF Woods
  <2>2. ASSUME NEW d \in Dirs, Kid(s, k, d) # 0
        PROVE  /\ Kid(s, k, d) \in K /\ Par(s, Kid(s, k, d)) = k
               /\ \A e \in Dirs : Kid(s, k, e) = Kid(s, k, d) => e = d
    <3>1. Kid(s, k, d) = Kid(t, k, d) /\ Kid(t, k, d) # key
      BY <1>8, <2>2
    <3>2. QED
      BY <1>7, <1>8, <2>1, <2>2, <3>1
  <2>3. ASSUME Par(s, k) \in K
        PROVE  \E d \in Dirs : Kid(s, Par(s, k), d) = k
    <3>1. Par(s, k) = Par(t, k) /\ Par(t, k) \in Keys(t)
      BY <1>7, <2>3
    <3>2. PICK d \in Dirs : Kid(t, Par(t, k), d) = k
      BY <2>1, <3>1
    <3>3. Kid(s, Par(t, k), d) = k
      BY <1>8, <2>3, <3>1, <3>2
    <3>4. QED
      BY <3>1, <3>3
  <2>4. QED
    BY <2>2, <2>3
<1>10. ASSUME NEW S \in SUBSET K, S # {}
       PROVE  /\ \E x \in S : Par(s, x) \notin S
              /\ \E x \in S : \A d \in Dirs : Kid(s, x, d) \notin S
  <2>1. S \in SUBSET Keys(t) /\ 0 \notin S
    BY <1>0 DEF Woods
  <2>2. PICK x \in S : Par(t, x) \notin S
    BY <1>0, <1>10, <2>1 DEF Woods
  <2>3. PICK y \in S : \A d \in Dirs : Kid(t, y, d) \notin S
    BY <1>0, <1>10, <2>1 DEF Woods
  <2>4. QED
    BY <1>7, <1>8, <2>1, <2>2, <2>3
<1>11. s.root # 0 => s.root \in K /\ Par(s, s.root) = 0
  BY <1>0, <1>2, <1>7 DEF Woods
<1>12. 0 \notin K
  BY <1>0 DEF Woods
<1>13. Loose(s) = {k \in Keys(s) : Par(t, k) = key}
  <2>1. \A k \in K : Par(t, k) \notin Keys(t) => k = t.root
    BY <1>0 DEF Loose
  <2>2. key # t.root => \A k \in K : Par(t, k) = key => k # t.root
    BY <1>0 DEF Woods
  <2>3. \A k \in K : k # s.root /\ Par(s, k) \notin K <=> Par(t, k) = key
    <3>1. SUFFICES ASSUME NEW k \in K
                   PROVE  k # s.root /\ Par(t, k) \notin K <=> Par(t, k) = key
      BY <1>7
    <3>2. CASE t.root = key
      BY <1>2, <1>12, <2>1, <3>2
    <3>3. CASE t.root # key
      BY <1>2, <2>1, <2>2, <3>3
    <3>4. QED
      BY <3>2, <3>3
  <2>4. QED
    BY <1>3, <2>3 DEF Loose
<1> HIDE DEF K
<1>14. Woods(s)
  <2>1. \A k \in Keys(s) :
           /\ s.nodes[k].kid = [d \in Dirs |-> Kid(s, k, d)]
           /\ \A d \in Dirs : Kid(s, k, d) # 0 =>
                 /\ Kid(s, k, d) \in Keys(s) /\ Par(s, Kid(s, k, d)) = k
                 /\ \A e \in Dirs : Kid(s, k, e) = Kid(s, k, d) => e = d
           /\ Par(s, k) \in Keys(s) => \E d \in Dirs : Kid(s, Par(s, k), d) = k
    <3>1. SUFFICES ASSUME NEW k \in K
                   PROVE  /\ s.nodes[k].kid = [d \in Dirs |-> Kid(s, k, d)]
                          /\ \A d \in Dirs : Kid(s, k, d) # 0 =>
                                /\ Kid(s, k, d) \in K /\ Par(s, Kid(s, k, d)) = k
                                /\ \A e \in Dirs : Kid(s, k, e) = Kid(s, k, d) => e = d
                          /\ Par(s, k) \in K => \E d \in Dirs : Kid(s, Par(s, k), d) = k
      BY <1>3
    <3>2. QED
      BY <1>8, <1>9, Zenon
  <2>2. \A S \in SUBSET Keys(s) : S # {} =>
           /\ \E x \in S : Par(s, x) \notin S
           /\ \E x \in S : \A d \in Dirs : Kid(s, x, d) \notin S
    BY <1>3, <1>10
  <2>3. IsTree(s) /\ 0 \notin Keys(s) /\ (s.root # 0 => s.root \in Keys(s) /\ Par(s, s.root) = 0)
    BY <1>3, <1>11, <1>12
  <2>4. QED
    BY <2>1, <2>2, <2>3, Zenon DEF Woods
<1>15. QED
  BY <1>s, <1>3, <1>7, <1>8, <1>13, <1>14 DEF K

(* QuadTree::erase: the children of key go where readd puts them, one      *)
(* after the other, each with all that is below it.                        *)
LEMMA EraseLinked ==
    ASSUME NEW t, Linked(t), NEW key \in Keys(t)
    PROVE  Linked(erase(t, key))
<1> DEFINE K == Keys(t) \ {key}
           start == Par(t, key)
           kid(d) == Kid(t, key, d)
           rehang(s, leaf) == IF leaf = 0 THEN s ELSE readd(s, start, leaf)
           cut   == Cut(t, key)
           left  == rehang(cut, kid("left"))
           right == rehang(left, kid("right"))
           up    == rehang(right, kid("up"))
           down  == rehang(up, kid("down"))
           To(s, ds) == /\ Woods(s) /\ Keys(s) = K
                        /\ Loose(s) = {kid(d) : d \in ds} \ {0}
                        /\ \A d \in ds : kid(d) # 0 =>
                              \E F : Below(s, kid(d), F) /\ start \notin F
<1>1. erase(t, key) = down
  BY DEF erase, Kid, Par
<1>2. Woods(t) /\ Loose(t) = {}
  BY DEF Linked
<1>3. \A d \in Dirs : kid(d) # 0 =>
         /\ kid(d) \in Keys(t) /\ Par(t, kid(d)) = key
         /\ \A e \in Dirs : kid(e) = kid(d) => e = d
  BY <1>2 DEF Woods
<1>4. start = 0 \/ start \in K
  <2>1. start # key
    <3>1. {key} \in SUBSET Keys(t) /\ {key} # {}
      OBVIOUS
    <3>2. \E x \in {key} : Par(t, x) \notin {key}
      BY <1>2, <3>1 DEF Woods
    <3>3. QED
      BY <3>2
  <2>2. CASE start \notin Keys(t)
    <3>1. key = t.root
      BY <1>2, <2>2 DEF Loose
    <3>2. QED
      BY <1>2, <3>1 DEF Woods
  <2>3. QED
    BY <2>1, <2>2
<1>5. /\ Woods(cut) /\ Keys(cut) = K
      /\ \A k \in K : /\ Par(cut, k) = Par(t, k)
                      /\ \A d \in Dirs : Kid(cut, k, d) =
                            IF Kid(t, k, d) = key THEN 0 ELSE Kid(t, k, d)
      /\ Loose(cut) = {k \in K : Par(t, k) = key}
  BY CutWoods
<1> HIDE DEF cut
<1>6. To(cut, Dirs)
  <2>1. \A k \in K : Par(t, k) = key <=> \E d \in Dirs : k = kid(d) /\ k # 0
    <3>1. ASSUME NEW k \in K, Par(t, k) = key
          PROVE  \E d \in Dirs : k = kid(d)
      <4>1. Par(t, k) \in Keys(t) => \E d \in Dirs : Kid(t, Par(t, k), d) = k
        BY <1>2 DEF Woods
      <4>2. QED
        BY <3>1, <4>1
    <3>2. 0 \notin K
      BY <1>2 DEF Woods
    <3>3. QED
      BY <1>3, <3>1, <3>2
  <2>2. \A d \in Dirs : kid(d) # 0 => kid(d) \in K
    <3>1. SUFFICES ASSUME NEW d \in Dirs, kid(d) # 0, kid(d) = key
                   PROVE  FALSE
      BY <1>3
    <3>2. Par(t, key) = key
      BY <1>3, <3>1
    <3>3. QED
      BY <1>2, <1>4, <3>2 DEF Woods
  <2>3. Loose(cut) = {kid(d) : d \in Dirs} \ {0}
    BY <1>5, <2>1, <2>2
  <2>4. ASSUME NEW d \in Dirs, kid(d) # 0
        PROVE  \E F : Below(cut, kid(d), F) /\ start \notin F
    <3>1. PICK c : c = kid(d)
      OBVIOUS
    <3>2. c \in Keys(t) /\ Par(t, c) = key
      BY <1>3, <2>4, <3>1
    <3>3. PICK F \in SUBSET Keys(t) :
             /\ c \in F /\ key \notin F /\ Par(t, key) \notin F
             /\ \A x \in F : \A e \in Dirs : Kid(t, x, e) \in F \union {0}
             /\ \A x \in F : x # c => Par(t, x) \in F
      BY <1>2, <3>2, KidsAreApart
    <3>4. F \subseteq K /\ c \in Loose(cut)
      BY <1>5, <3>2, <3>3
    <3>5. \A x \in F : \A e \in Dirs : Kid(cut, x, e) \in F \union {0}
      BY <1>5, <3>3, <3>4
    <3>6. \A x \in F : x # c => Par(cut, x) \in F
      BY <1>5, <3>3, <3>4
    <3>7. Below(cut, c, F)
      BY <1>5, <3>3, <3>4, <3>5, <3>6 DEF Below
    <3>8. QED
      BY <3>1, <3>3, <3>7
  <2>5. QED
    BY <1>5, <2>3, <2>4
<1> HIDE DEF kid, start, K
<1>7. ASSUME NEW ds \in SUBSET Dirs, NEW s, To(s, ds), NEW e \in ds
      PROVE  To(rehang(s, kid(e)), ds \ {e})
  <2>1. CASE kid(e) = 0
    <3>1. rehang(s, kid(e)) = s
      BY <2>1
    <3>2. {kid(d) : d \in ds} \ {0} = {kid(d) : d \in ds \ {e}} \ {0}
      BY <2>1
    <3>3. QED
      BY <1>7, <3>1, <3>2
  <2>2. CASE kid(e) # 0
    <3>1. PICK u : u = readd(s, start, kid(e))
      OBVIOUS
    <3>2. rehang(s, kid(e)) = u
      BY <2>2, <3>1
    <3>3. PICK F : Below(s, kid(e), F) /\ start \notin F
      BY <1>7, <2>2
    <3>4. Woods(s) /\ Keys(s) = K /\ (start = 0 \/ start \in Keys(s))
      BY <1>4, <1>7
    <3>5. /\ Woods(u) /\ Keys(u) = Keys(s) /\ Loose(u) = Loose(s) \ {kid(e)}
          /\ \A g, G : Below(s, g, G) /\ g # kid(e) /\ start \notin G => Below(u, g, G)
      BY <3>1, <3>3, <3>4, ReaddWoods
    <3>6. \A d \in ds \ {e} : kid(d) # kid(e)
      BY <1>3, <2>2
    <3>7. Loose(u) = {kid(d) : d \in ds \ {e}} \ {0}
      BY <1>7, <3>5, <3>6
    <3>8. \A d \in ds \ {e} : kid(d) # 0 => \E G : Below(u, kid(d), G) /\ start \notin G
      BY <1>7, <3>5, <3>6
    <3>9. QED
      BY <3>2, <3>4, <3>5, <3>7, <3>8
  <2>3. QED
    BY <2>1, <2>2
<1> HIDE DEF rehang, To
<1>8. To(left, {"right", "up", "down"})
  <2>1. Dirs \ {"left"} = {"right", "up", "down"} /\ "left" \in Dirs /\ Dirs \in SUBSET Dirs
    BY DEF Dirs
  <2>2. QED
    BY <1>6, <1>7, <2>1
<1> HIDE DEF left
<1>9. To(right, {"up", "down"})
  <2>1. /\ {"right", "up", "down"} \ {"right"} = {"up", "down"}
        /\ {"right", "up", "down"} \in SUBSET Dirs /\ "right" \in {"right", "up", "down"}
    BY DEF Dirs
  <2>2. QED
    BY <1>7, <1>8, <2>1
<1> HIDE DEF right
<1>10. To(up, {"down"})
  <2>1. /\ {"up", "down"} \ {"up"} = {"down"}
        /\ {"up", "down"} \in SUBSET Dirs /\ "up" \in {"up", "down"}
    BY DEF Dirs
  <2>2. QED
    BY <1>7, <1>9, <2>1
<1> HIDE DEF up
<1>11. To(down, {})
  <2>1. {"down"} \ {"down"} = {} /\ {"down"} \in SUBSET Dirs /\ "down" \in {"down"}
    BY DEF Dirs
  <2>2. QED
    BY <1>7, <1>10, <2>1
<1>12. QED
  BY <1>1, <1>11 DEF To, Linked

(* QuadTree::add: the new node hangs loose until it has its place.         *)
LEMMA AddLinked ==
    ASSUME NEW t, Linked(t), NEW key \in Nat \ {0}, key \notin Keys(t), NEW v
    PROVE  Linked(add(t, key, v))
<1> DEFINE n == [value |-> v, parent |-> 0, kid |-> [d \in Dirs |-> 0]]
           m == [k \in DOMAIN t.nodes \union {key} |-> IF k = key THEN n ELSE t.nodes[k]]
           K == Keys(t) \union {key}
<1>0. Woods(t) /\ Loose(t) = {} /\ IsTree(t) /\ 0 \notin Keys(t)
  BY DEF Linked, Woods
<1>s. PICK s : s = [root |-> t.root, nodes |-> m]
  OBVIOUS
<1>1. s.root = t.root /\ s.nodes = m /\ s = [root |-> s.root, nodes |-> s.nodes]
  BY <1>s
<1>2. IsNode(n) /\ n.parent = 0 /\ n.kid = [d \in Dirs |-> 0]
  BY DEF IsNode
<1>3. /\ DOMAIN m = K /\ m = [k \in K |-> m[k]]
      /\ \A k \in K : m[k] = IF k = key THEN n ELSE t.nodes[k]
  BY DEF Keys
<1> HIDE DEF m, n
<1>4. IsTree(s) /\ Keys(s) = K
  <2>1. \A k \in K : IsNode(m[k])
    BY <1>0, <1>2, <1>3 DEF IsTree, Keys
  <2>2. QED
    BY <1>1, <1>3, <2>1 DEF IsTree, Keys
<1>5. \A k \in K : Par(s, k) = IF k = key THEN 0 ELSE Par(t, k)
  BY <1>1, <1>2, <1>3 DEF Par
<1>6. \A k \in K : \A d \in Dirs : Kid(s, k, d) = IF k = key THEN 0 ELSE Kid(t, k, d)
  BY <1>1, <1>2, <1>3 DEF Kid
<1>7. ASSUME NEW k \in K
      PROVE  s.nodes[k].kid = [d \in Dirs |-> Kid(s, k, d)]
  <2>1. CASE k = key
    <3>1. s.nodes[k].kid = [d \in Dirs |-> 0]
      BY <1>1, <1>2, <1>3, <2>1
    <3>2. QED
      BY <1>6, <2>1, <3>1
  <2>2. CASE k # key
    <3>1. t.nodes[k].kid = [d \in Dirs |-> Kid(t, k, d)] /\ s.nodes[k] = t.nodes[k]
      BY <1>0, <1>1, <1>3, <2>2 DEF Woods
    <3>2. QED
      BY <3>1 DEF Kid
  <2>3. QED
    BY <2>1, <2>2
<1>8. ASSUME NEW k \in K
      PROVE  /\ \A d \in Dirs : Kid(s, k, d) # 0 =>
                   /\ Kid(s, k, d) \in K /\ Par(s, Kid(s, k, d)) = k
                   /\ \A e \in Dirs : Kid(s, k, e) = Kid(s, k, d) => e = d
             /\ Par(s, k) \in K => \E d \in Dirs : Kid(s, Par(s, k), d) = k
  <2>1. CASE k = key
    BY <1>0, <1>5, <1>6, <2>1
  <2>2. CASE k # key
    <3>1. /\ \A d \in Dirs : Kid(t, k, d) # 0 =>
                /\ Kid(t, k, d) \in Keys(t) /\ Par(t, Kid(t, k, d)) = k
                /\ \A e \in Dirs : Kid(t, k, e) = Kid(t, k, d) => e = d
          /\ Par(t, k) \in Keys(t) => \E d \in Dirs : Kid(t, Par(t, k), d) = k
      BY <1>0, <2>2 DEF Woods
    <3>2. ASSUME NEW d \in Dirs, Kid(s, k, d) # 0
          PROVE  /\ Kid(s, k, d) \in K /\ Par(s, Kid(s, k, d)) = k
                 /\ \A e \in Dirs : Kid(s, k, e) = Kid(s, k, d) => e = d
      BY <1>5, <1>6, <2>2, <3>1, <3>2
    <3>3. Par(t, k) # key
      BY <1>0, <2>2 DEF Loose, Woods
    <3>4. Par(s, k) \in K => \E d \in Dirs : Kid(s, Par(s, k), d) = k
      BY <1>5, <1>6, <2>2, <3>1, <3>3
    <3>5. QED
      BY <3>2, <3>4
  <2>3. QED
    BY <2>1, <2>2
<1>9. ASSUME NEW S \in SUBSET K, S # {}
      PROVE  /\ \E x \in S : Par(s, x) \notin S
             /\ \E x \in S : \A d \in Dirs : Kid(s, x, d) \notin S
  <2>1. 0 \notin S
    BY <1>0
  <2>2. CASE key \in S
    BY <1>5, <1>6, <2>1, <2>2
  <2>3. CASE key \notin S
    <3>1. S \in SUBSET Keys(t)
      BY <2>3
    <3>2. PICK x \in S : Par(t, x) \notin S
      BY <1>0, <1>9, <3>1 DEF Woods
    <3>3. PICK y \in S : \A d \in Dirs : Kid(t, y, d) \notin S
      BY <1>0, <1>9, <3>1 DEF Woods
    <3>4. QED
      BY <1>5, <1>6, <2>3, <3>2, <3>3
  <2>4. QED
    BY <2>2, <2>3
<1>10. s.root # 0 => s.root \in K /\ Par(s, s.root) = 0
  BY <1>0, <1>1, <1>5 DEF Woods
<1>11. 0 \notin K /\ key # t.root
  BY <1>0 DEF Woods
<1>12. Loose(s) = {key}
  BY <1>0, <1>1, <1>4, <1>5, <1>11 DEF Loose
<1> HIDE DEF K
<1>13. Woods(s)
  <2>1. \A k \in Keys(s) :
           /\ s.nodes[k].kid = [d \in Dirs |-> Kid(s, k, d)]
           /\ \A d \in Dirs : Kid(s, k, d) # 0 =>
                 /\ Kid(s, k, d) \in Keys(s) /\ Par(s, Kid(s, k, d)) = k
                 /\ \A e \in Dirs : Kid(s, k, e) = Kid(s, k, d) => e = d
           /\ Par(s, k) \in Keys(s) => \E d \in Dirs : Kid(s, Par(s, k), d) = k
    BY <1>4, <1>7, <1>8
  <2>2. \A S \in SUBSET Keys(s) : S # {} =>
           /\ \E x \in S : Par(s, x) \notin S
           /\ \E x \in S : \A d \in Dirs : Kid(s, x, d) \notin S
    BY <1>4, <1>9
  <2>3. IsTree(s) /\ 0 \notin Keys(s) /\ (s.root # 0 => s.root \in Keys(s) /\ Par(s, s.root) = 0)
    BY <1>4, <1>10, <1>11
  <2>4. QED
    BY <2>1, <2>2, <2>3, Zenon DEF Woods
<1>14. Below(s, key, {key})
  BY <1>4, <1>6, <1>12 DEF Below, K
<1>15. CASE t.root # 0
  <2>0. PICK F, r : F = {key} /\ r = s.root
    OBVIOUS
  <2>1. PICK u : u = [s EXCEPT !.nodes = Hang(s.nodes, r, key)]
    OBVIOUS
  <2>2. r \in Keys(s) \ F /\ key \in Loose(s) /\ Below(s, key, F)
    BY <1>1, <1>4, <1>10, <1>11, <1>12, <1>14, <1>15, <2>0
  <2>3. PICK p \in Keys(s) : /\ Hung(u, s, key, p)
                            /\ \A G : r \notin G /\ (\E g : Below(s, g, G)) => p \notin G
    BY <1>13, <2>1, <2>2, HangShape
  <2>4. p \in Keys(s) \ F
    BY <2>2, <2>3
  <2>5. Woods(u) /\ Loose(u) = Loose(s) \ {key}
    BY <1>13, <2>2, <2>3, <2>4, HungKeepsWoods
  <2>6. add(t, key, v) = [root |-> t.root, nodes |-> Hang(m, t.root, key)]
    <3>1. add(t, key, v) = [t EXCEPT !.nodes = Hang(m, t.root, key)]
      BY <1>15 DEF add, m, n
    <3>2. QED
      BY <1>0, <3>1 DEF IsTree
  <2>7. u = [root |-> t.root, nodes |-> Hang(m, t.root, key)]
    BY <1>s, <1>1, <2>0, <2>1
  <2>8. QED
    BY <1>12, <2>5, <2>6, <2>7 DEF Linked
<1>16. CASE t.root = 0
  <2>1. Keys(t) = {}
    <3>1. CASE Keys(t) # {}
      <4>1. PICK x \in Keys(t) : Par(t, x) \notin Keys(t)
        BY <1>0, <3>1 DEF Woods
      <4>2. QED
        BY <1>0, <1>16, <4>1 DEF Loose
    <3>2. QED
      BY <3>1
  <2>2. PICK u : u = [root |-> key, nodes |-> [s.nodes EXCEPT ![key].parent = 0]]
    OBVIOUS
  <2>3. Woods(u) /\ Loose(u) = Loose(s) \ {key}
    <3>1. key \in Loose(s) /\ s.root = 0
      BY <1>1, <1>12, <1>16
    <3>2. QED
      BY <1>13, <2>2, <3>1, RootKeepsWoods
  <2>4. add(t, key, v) = [root |-> key, nodes |-> m]
    BY <1>16 DEF add, m, n
  <2>5. [m EXCEPT ![key].parent = 0] = m
    <3>1. K = {key} /\ m[key] = n
      BY <1>3, <2>1 DEF K
    <3>2. [m[key] EXCEPT !.parent = 0] = m[key]
      BY <1>2, <3>1 DEF IsNode
    <3>3. QED
      BY <1>3, <3>2
  <2>6. QED
    BY <1>1, <1>12, <2>2, <2>3, <2>4, <2>5 DEF Linked
<1>17. QED
  BY <1>15, <1>16

-----------------------------------------------------------------------------
(* The tree of an atlas.                                                   *)

LinkedAtlas(a) == IsAtlas(a) /\ Linked(a.leftovers)

LEMMA KeepLinked ==
    ASSUME NEW a, LinkedAtlas(a), NEW worth, NEW r
    PROVE  LinkedAtlas(KeepIf(a, worth, r))
<1>1. IsAtlas(a) /\ Linked(a.leftovers) /\ IsAtlas(KeepIf(a, worth, r))
  BY KeepFacts DEF LinkedAtlas
<1>2. CASE ~worth
  <2>1. KeepIf(a, worth, r) = a
    BY <1>2 DEF KeepIf
  <2>2. QED
    BY <2>1
<1>3. CASE worth
  <2>1. PICK t, i : t = a.leftovers /\ i = a.rlid
    OBVIOUS
  <2>2. Linked(t) /\ i \in Nat \ {0} /\ i \notin Keys(t)
    BY <1>1, <2>1 DEF IsAtlas
  <2>3. Linked(add(t, i, r))
    BY <2>2, AddLinked
  <2>4. PICK u : u = add(t, i, r)
    OBVIOUS
  <2>5. KeepIf(a, worth, r) = [a EXCEPT !.leftovers = u, !.rlid = i + 1]
    BY <1>3, <2>1, <2>4 DEF KeepIf
  <2>6. a = [leftovers |-> a.leftovers, rlid |-> a.rlid, border |-> a.border, yRange |-> a.yRange]
    BY <1>1 DEF IsAtlas
  <2>7. KeepIf(a, worth, r).leftovers = u
    BY <2>5, <2>6
  <2>8. QED
    BY <1>1, <2>3, <2>4, <2>7 DEF LinkedAtlas
<1>4. QED
  BY <1>2, <1>3

LEMMA SplitLinked ==
    ASSUME NEW a, LinkedAtlas(a), NEW r, IsRect(r), NEW w \in Nat, NEW h \in Nat
    PROVE  LinkedAtlas(Split(a, r, w, h))
<1> DEFINE wd == r.w - w
           hd == r.h - h
           corner == KeepIf(a, TRUE, Rect(r.x + w, r.y + h, wd, hd))
           below == KeepIf(corner, w >= MINLOSIZE, Rect(r.x, r.y + h, w, hd))
           right == KeepIf(below, h >= MINLOSIZE, Rect(r.x + w, r.y, wd, h))
           C == KeepIf(a, TRUE, Rect(r.x + w, r.y, wd, r.h))
           D == KeepIf(a, TRUE, Rect(r.x, r.y + h, r.w, hd))
<1>1. Split(a, r, w, h) = CASE wd >= MINLOSIZE /\ hd >= MINLOSIZE -> right
                            [] wd >= MINLOSIZE /\ hd < MINLOSIZE -> C
                            [] wd < MINLOSIZE /\ hd >= MINLOSIZE -> D
                            [] OTHER -> a
  BY DEF Split
<1>2. wd \in Int /\ hd \in Int /\ MINLOSIZE \in Nat
  BY SpritesAssumption DEF IsRect
<1> HIDE DEF wd, hd
<1>3. LinkedAtlas(C) /\ LinkedAtlas(D) /\ LinkedAtlas(corner)
  BY KeepLinked
<1> HIDE DEF corner, C, D
<1>4. LinkedAtlas(below)
  BY <1>3, KeepLinked
<1> HIDE DEF below
<1>5. LinkedAtlas(right)
  BY <1>4, KeepLinked
<1> HIDE DEF right
<1>6. CASE wd >= MINLOSIZE /\ hd >= MINLOSIZE
  BY <1>1, <1>2, <1>5, <1>6
<1>7. CASE wd >= MINLOSIZE /\ hd < MINLOSIZE
  BY <1>1, <1>2, <1>3, <1>7
<1>8. CASE wd < MINLOSIZE /\ hd >= MINLOSIZE
  BY <1>1, <1>2, <1>3, <1>8
<1>9. CASE wd < MINLOSIZE /\ hd < MINLOSIZE
  BY <1>1, <1>2, <1>9
<1>10. QED
  BY <1>2, <1>6, <1>7, <1>8, <1>9

LEMMA ReuseLinked ==
    ASSUME NEW a, LinkedAtlas(a), NEW lid \in Keys(a.leftovers), IsRect(Value(a.leftovers, lid)),
           NEW w \in Nat, NEW h \in Nat
    PROVE  LinkedAtlas(Reuse(a, lid, w, h).atlas)
<1>1. PICK T, t, r : T = a.leftovers /\ t = erase(T, lid) /\ r = Value(T, lid)
  OBVIOUS
<1>2. PICK c : c = [a EXCEPT !.leftovers = t]
  OBVIOUS
<1>3. Reuse(a, lid, w, h).atlas = Split(c, r, w, h)
  BY <1>1, <1>2 DEF Reuse, Value
<1>4. IsAtlas(a) /\ Linked(T) /\ IsTree(T) /\ lid \in Keys(T) /\ IsRect(r)
  BY <1>1 DEF LinkedAtlas, IsAtlas
<1>5. Linked(t) /\ IsTree(t) /\ Keys(t) = Keys(T) \ {lid}
  BY <1>1, <1>4, EraseFacts, EraseLinked
<1>6. IsAtlas(c) /\ c.leftovers = t
  <2>1. Keys(t) \subseteq Keys(a.leftovers)
    BY <1>1, <1>5
  <2>2. QED
    BY <1>2, <1>4, <1>5, <2>1, LeftoverErased
<1>7. LinkedAtlas(c)
  BY <1>5, <1>6 DEF LinkedAtlas
<1>8. QED
  BY <1>3, <1>4, <1>7, SplitLinked

LEMMA ShelfLinked ==
    ASSUME NEW a, LinkedAtlas(a), NEW b, NEW y,
           NEW c, c = [a EXCEPT !.border = b], NEW e, e = [c EXCEPT !.yRange = y]
    PROVE  LinkedAtlas(c) /\ LinkedAtlas(e)
<1>1. a = [leftovers |-> a.leftovers, rlid |-> a.rlid, border |-> a.border, yRange |-> a.yRange]
  BY DEF LinkedAtlas, IsAtlas
<1>2. c = [leftovers |-> a.leftovers, rlid |-> a.rlid, border |-> b, yRange |-> a.yRange]
  BY <1>1
<1>3. e = [leftovers |-> a.leftovers, rlid |-> a.rlid, border |-> b, yRange |-> y]
  BY <1>2
<1>4. /\ c.leftovers = a.leftovers /\ c.rlid = a.rlid
      /\ c = [leftovers |-> c.leftovers, rlid |-> c.rlid, border |-> c.border, yRange |-> c.yRange]
  BY <1>2
<1>5. /\ e.leftovers = a.leftovers /\ e.rlid = a.rlid
      /\ e = [leftovers |-> e.leftovers, rlid |-> e.rlid, border |-> e.border, yRange |-> e.yRange]
  BY <1>3
<1>6. LinkedAtlas(c)
  BY <1>4 DEF LinkedAtlas, IsAtlas
<1>7. LinkedAtlas(e)
  BY <1>5 DEF LinkedAtlas, IsAtlas
<1>8. QED
  BY <1>6, <1>7

LEMMA AppendLinked ==
    ASSUME NEW a, LinkedAtlas(a), ShelfOK(a), NEW w \in Nat, NEW h \in Nat
    PROVE  LinkedAtlas(AppendToShelf(a, w, h).atlas)
<1> DEFINE x == a.border[1]
           y == a.border[2]
           low == a.yRange[1]
           tall == a.yRange[2]
           b == <<x + w, y>>
           z == <<y + h, h>>
           moved == [a EXCEPT !.border = b]
           high == [moved EXCEPT !.yRange = z]
           A == KeepIf(high, x >= MINLOSIZE /\ h - tall >= MINLOSIZE, Rect(0, low, x, h - tall))
           B == KeepIf(moved, w >= MINLOSIZE /\ low - y - h >= MINLOSIZE,
                       Rect(x, y + h, w, low - y - h))
           new == CASE h > tall -> A
                    [] h <= tall /\ y + h < low -> B
                    [] OTHER -> moved
<1>1. AppendToShelf(a, w, h).atlas = new
  BY DEF AppendToShelf
<1>2. x \in Nat /\ y \in Nat /\ low \in Nat /\ tall \in Nat
  BY DEF ShelfOK
<1>3. LinkedAtlas(moved) /\ LinkedAtlas(high)
  <2> HIDE DEF b, z
  <2>1. QED
    BY ShelfLinked
<1> HIDE DEF moved, high, x, y, low, tall
<1>4. LinkedAtlas(A) /\ LinkedAtlas(B)
  BY <1>3, KeepLinked
<1> HIDE DEF A, B
<1>5. CASE h > tall
  BY <1>1, <1>2, <1>4, <1>5
<1>6. CASE h <= tall /\ y + h < low
  BY <1>1, <1>2, <1>4, <1>6
<1>7. CASE ~(h > tall) /\ ~(h <= tall /\ y + h < low)
  BY <1>1, <1>3, <1>7
<1>8. QED
  BY <1>5, <1>6, <1>7

(* TextureAtlas::update keeps the tree of an atlas linked.                 *)
LEMMA UpdateLinked ==
    ASSUME NEW a, NEW Q, AtlasOK(a, Q), LinkedAtlas(a), NEW s \in Sizes,
           NEW u \in update(a, s[1], s[2])
    PROVE  LinkedAtlas(u.atlas)
<1> DEFINE w == s[1]
           h == s[2]
           lid == findNode(a.leftovers, Rect(0, 0, w, h))
           shelf == IF a.border[1] + w > Width THEN NewShelf(a) ELSE a
<1>1. u \in CASE w = 0 \/ h = 0                          -> {}
              [] w > 0 /\ h > 0 /\ lid # 0               -> {Reuse(a, lid, w, h)}
              [] w > 0 /\ h > 0 /\ lid = 0 /\ shelf.border[2] + h > Height -> {}
              [] OTHER                                   -> {AppendToShelf(shelf, w, h)}
  BY DEF update
<1>2. w \in Nat /\ h \in Nat
  BY SpritesAssumption
<1>3. lid # 0 => lid \in Keys(a.leftovers) /\ IsRect(Value(a.leftovers, lid))
  <2>1. lid # 0 => lid \in Keys(a.leftovers)
    BY FindFacts
  <2> HIDE DEF lid
  <2>2. QED
    BY <2>1 DEF AtlasOK, Inside
<1>4. LinkedAtlas(shelf) /\ ShelfOK(shelf)
  <2>1. LinkedAtlas(NewShelf(a))
    <3>1. PICK b, y : b = <<0, a.border[2] + a.yRange[2]>> /\ y = <<0, 0>>
      OBVIOUS
    <3>2. PICK c, e : c = [a EXCEPT !.border = b] /\ e = [c EXCEPT !.yRange = y]
      OBVIOUS
    <3>3. NewShelf(a) = e
      BY <3>1, <3>2 DEF NewShelf
    <3>4. QED
      BY <3>2, <3>3, ShelfLinked
  <2>2. ShelfOK(NewShelf(a)) /\ ShelfOK(a)
    BY NewShelfOK DEF AtlasOK
  <2>3. QED
    BY <2>1, <2>2
<1> HIDE DEF w, h, lid, shelf
<1>5. CASE w = 0 \/ h = 0
  BY <1>1, <1>5
<1>6. CASE w # 0 /\ h # 0 /\ lid # 0
  <2>1. u = Reuse(a, lid, w, h)
    BY <1>1, <1>2, <1>6
  <2>2. QED
    BY <1>2, <1>3, <1>6, <2>1, ReuseLinked
<1>7. CASE w # 0 /\ h # 0 /\ lid = 0 /\ shelf.border[2] + h > Height
  BY <1>1, <1>2, <1>7
<1>8. CASE w # 0 /\ h # 0 /\ lid = 0 /\ ~(shelf.border[2] + h > Height)
  <2>1. u = AppendToShelf(shelf, w, h)
    BY <1>1, <1>2, <1>8
  <2>2. QED
    BY <1>2, <1>4, <2>1, AppendLinked
<1>9. QED
  BY <1>5, <1>6, <1>7, <1>8

LEMMA NewAtlasLinked == LinkedAtlas(NewAtlas)
<1>1. IsAtlas(NewAtlas) /\ NewAtlas.leftovers = Empty /\ IsTree(Empty)
  BY NewAtlasOK DEF AtlasOK, IsAtlas, NewAtlas
<1>2. Keys(Empty) = {} /\ Empty.root = 0
  BY DEF Keys, Empty
<1>3. Woods(Empty)
  BY <1>1, <1>2 DEF Woods
<1>4. Loose(Empty) = {}
  BY <1>2 DEF Loose
<1>5. QED
  BY <1>1, <1>3, <1>4 DEF LinkedAtlas, Linked

LEMMA LinkedStep == PoolInv /\ LinkedAtlas(atlas) /\ [Next]_vars => LinkedAtlas(atlas)'
<1> SUFFICES ASSUME PoolInv, LinkedAtlas(atlas), [Next]_vars PROVE LinkedAtlas(atlas)'
  OBVIOUS
<1>1. LinkedAtlas(atlas)' <=> LinkedAtlas(atlas')
  BY DEF LinkedAtlas, IsAtlas, Linked, Woods, Loose, Keys, Par, Kid, IsTree, IsNode
<1>2. ASSUME NEW s \in Sizes, AddToLast(s[1], s[2])
      PROVE  LinkedAtlas(atlas')
  <2>1. PICK u \in update(atlas, s[1], s[2]) : atlas' = u.atlas
    BY <1>2 DEF AddToLast, Add
  <2>2. AtlasOK(atlas, Images(count))
    BY DEF PoolInv
  <2>3. QED
    BY <2>1, <2>2, UpdateLinked
<1>3. ASSUME NEW s \in Sizes, AddFileToNew(s[1], s[2])
      PROVE  LinkedAtlas(atlas')
  <2>1. PICK u \in update(NewAtlas, s[1], s[2]) : atlas' = u.atlas
    BY <1>3 DEF AddFileToNew, Add
  <2>2. QED
    BY <2>1, NewAtlasOK, NewAtlasLinked, UpdateLinked
<1>4. ASSUME NEW s \in Sizes, AddEmpty(s[1], s[2])
      PROVE  LinkedAtlas(atlas')
  BY <1>4, NewAtlasLinked DEF AddEmpty
<1>5. CASE UNCHANGED atlas
  BY <1>5
<1>6. QED
  BY <1>1, <1>2, <1>3, <1>4, <1>5 DEF Next, AddDataToNew, Lookup, vars

(* The search tree loses no free rectangle: every leftover hangs below the *)
(* root, by links that agree in both directions, whatever sequence of      *)
(* QuadTree::add and QuadTree::erase TextureAtlas::update has made, for    *)
(* any number of images that are not larger than the atlas, of whatever    *)
(* size.  NoLeftoverLost is not inductive: erase needs that the children   *)
(* it hangs elsewhere are four different parts of the tree, and addOrNext  *)
(* that going down ends.                                                   *)
THEOREM LeftoversStayReachable == Spec => []NoLeftoverLost
<1>1. Init => LinkedAtlas(atlas)
  BY NewAtlasLinked DEF Init
<1>2. LinkedAtlas(atlas) => NoLeftoverLost
  <2> SUFFICES ASSUME LinkedAtlas(atlas) PROVE NoLeftoverLost
    OBVIOUS
  <2>1. PICK t : t = atlas.leftovers
    OBVIOUS
  <2>2. Woods(t) /\ Loose(t) = {} /\ 0 \notin Keys(t)
    <3>1. Woods(t) /\ Loose(t) = {}
      BY <2>1 DEF LinkedAtlas, Linked
    <3>2. QED
      BY <3>1 DEF Woods
  <2>3. \A k \in Keys(t) : \A c :
           c \in Leaves(t.nodes[k]) <=> c # 0 /\ \E d \in Dirs : c = Kid(t, k, d)
    BY DEF Leaves, Kid
  <2>4. ASSUME NEW S \in SUBSET Keys(t), {t.root} \ {0} \subseteq S,
               \A k \in S : Leaves(t.nodes[k]) \subseteq S
        PROVE  S = Keys(t)
    <3> DEFINE Z == Keys(t) \ S
    <3>1. CASE Z # {}
      <4>1. PICK x \in Z : Par(t, x) \notin Z
        BY <2>2, <3>1 DEF Woods
      <4>2. x # t.root /\ x \in Keys(t) /\ x # 0
        BY <2>2, <2>4, <4>1
      <4>3. Par(t, x) \in S
        BY <2>2, <4>1, <4>2 DEF Loose
      <4>4. PICK d \in Dirs : Kid(t, Par(t, x), d) = x
        <5>1. Par(t, x) \in Keys(t) => \E d \in Dirs : Kid(t, Par(t, x), d) = x
          BY <2>2, <4>2 DEF Woods
        <5>2. QED
          BY <4>3, <5>1
      <4>5. x \in Leaves(t.nodes[Par(t, x)])
        BY <2>3, <4>2, <4>3, <4>4
      <4>6. QED
        BY <2>4, <4>1, <4>3, <4>5
    <3>2. QED
      BY <3>1
  <2>5. ASSUME NEW k \in Keys(t)
        PROVE  /\ \A c \in Leaves(t.nodes[k]) : t.nodes[c].parent = k
               /\ t.nodes[k].parent = 0 <=> t.root = k
    <3>1. \A c \in Leaves(t.nodes[k]) : Par(t, c) = k
      <4>1. \A d \in Dirs : Kid(t, k, d) # 0 => Par(t, Kid(t, k, d)) = k
        BY <2>2 DEF Woods
      <4>2. QED
        BY <2>3, <4>1
    <3>2. Par(t, k) = 0 => t.root = k
      BY <2>2 DEF Loose
    <3>3. t.root = k => Par(t, k) = 0
      BY <2>2 DEF Woods
    <3>4. QED
      BY <3>1, <3>2, <3>3 DEF Par
  <2>6. QED
    BY <2>1, <2>4, <2>5 DEF NoLeftoverLost, Keys
<1>3. QED
  BY <1>1, <1>2, LinkedStep, PoolAlways, PTL DEF Spec

-----------------------------------------------------------------------------
(* The batches of a frame: what flush, submitTexture and submitQuad keep.  *)

Pairs == Nat \X Nat

Batches == [quads : Seq(Pairs), textures : Seq(Nat \ {0})]

Runs == [drawn : Seq(Batches), batch : Batches]

(* A batch within the limits, whose quads have the slots of their          *)
(* textures.                                                               *)
BatchOK(b) ==
    /\ b \in Batches /\ Len(b.quads) <= MaxQuads /\ Len(b.textures) <= MaxTextures
    /\ \A i \in DOMAIN b.quads :
          IF b.quads[i][1] = 0 THEN b.quads[i][2] = 0
          ELSE b.quads[i][2] \in DOMAIN b.textures /\ b.textures[b.quads[i][2]] = b.quads[i][1]

Shown(drawn) == FlattenSeq([b \in DOMAIN drawn |-> drawn[b].quads])

Firsts(s) == [i \in DOMAIN s |-> s[i][1]]

(* The state of renderScene after the commands cs.                         *)
RunOK(r, cs) ==
    /\ r \in Runs
    /\ \A b \in DOMAIN r.drawn : BatchOK(r.drawn[b]) /\ r.drawn[b].quads # <<>>
    /\ BatchOK(r.batch)
    /\ Firsts(Shown(r.drawn) \o r.batch.quads) = cs

(* Between two commands a batch with a texture has a quad.                 *)
Settled(r) == r.batch.textures # <<>> => r.batch.quads # <<>>

(* The quads of one more draw call come after the others.                  *)
LEMMA ShownAppend ==
    ASSUME NEW drawn \in Seq(Batches), NEW b \in Batches
    PROVE  /\ Shown(drawn) \in Seq(Pairs)
           /\ Shown(Append(drawn, b)) = Shown(drawn) \o b.quads
<1>1. PICK n \in Nat : n = Len(drawn) /\ DOMAIN drawn = 1 .. n
  BY LenProperties
<1>2. PICK e : e = Append(drawn, b)
  OBVIOUS
<1>3. /\ DOMAIN e = 1 .. n + 1 /\ e[n + 1] = b
      /\ \A k \in 1 .. n : e[k] = drawn[k] /\ drawn[k] \in Batches
  BY <1>1, <1>2, AppendProperties, LenProperties
<1>4. PICK ss : ss = [k \in 1 .. n |-> drawn[k].quads]
  OBVIOUS
<1>5. \A k \in 1 .. n : drawn[k].quads \in Seq(Pairs)
  BY <1>3 DEF Batches
<1>6. ss \in Seq(Seq(Pairs)) /\ Len(ss) = n
  BY <1>4, <1>5, IsASeq
<1>7. PICK q : q = b.quads /\ q \in Seq(Pairs)
  BY DEF Batches
<1>8. PICK tt : tt = [k \in 1 .. n + 1 |-> e[k].quads]
  OBVIOUS
<1>9. Append(ss, q) = tt
  <2>1. PICK a : a = Append(ss, q)
    OBVIOUS
  <2>2. a \in Seq(Seq(Pairs)) /\ Len(a) = n + 1 /\ a[n + 1] = q /\ \A k \in 1 .. n : a[k] = ss[k]
    BY <1>6, <1>7, <2>1, AppendProperties
  <2>3. a = [k \in 1 .. n + 1 |-> a[k]]
    BY <2>2
  <2>4. ASSUME NEW k \in 1 .. n + 1
        PROVE  a[k] = tt[k]
    <3>1. CASE k = n + 1
      BY <1>3, <1>7, <1>8, <2>2, <3>1
    <3>2. CASE k \in 1 .. n
      BY <1>3, <1>4, <1>8, <2>2, <3>2
    <3>3. QED
      BY <1>1, <3>1, <3>2
  <2>5. QED
    BY <1>8, <2>1, <2>3, <2>4
<1>10. FlattenSeq(ss) \in Seq(Pairs) /\ FlattenSeq(Append(ss, q)) = FlattenSeq(ss) \o q
  BY <1>6, <1>7, FlattenAppend
<1>11. Shown(drawn) = FlattenSeq(ss) /\ Shown(e) = FlattenSeq(tt)
  BY <1>1, <1>3, <1>4, <1>8 DEF Shown
<1>12. QED
  BY <1>2, <1>7, <1>9, <1>10, <1>11

LEMMA ShownNone == Shown(<<>>) = <<>>
<1>1. [b \in DOMAIN <<>> |-> <<>>[b].quads] = <<>>
  OBVIOUS
<1>2. FlattenSeq(<<>>) = <<>>
  BY DEF FlattenSeq
<1>3. QED
  BY <1>1, <1>2 DEF Shown

LEMMA NoBatchOK == BatchOK(NoBatch) /\ NoBatch.quads = <<>> /\ NoBatch.textures = <<>>
<1>1. NoBatch \in Batches /\ NoBatch.quads = <<>> /\ NoBatch.textures = <<>>
  BY DEF NoBatch, Batches
<1>2. DOMAIN NoBatch.quads = {} /\ Len(NoBatch.quads) = 0 /\ Len(NoBatch.textures) = 0
  BY <1>1
<1>3. QED
  BY <1>1, <1>2, SpritesAssumption DEF BatchOK

(* A draw call of a batch with quads.                                      *)
LEMMA FlushOK ==
    ASSUME NEW cs, NEW r, RunOK(r, cs), r.batch.quads # <<>>
    PROVE  RunOK(flush(r), cs) /\ flush(r).batch = NoBatch
<1>1. PICK d, b : d = r.drawn /\ b = r.batch /\ d \in Seq(Batches) /\ b \in Batches
                  /\ b.quads \in Seq(Pairs)
  BY DEF RunOK, Runs, Batches
<1>2. PICK e : e = Append(d, b)
  OBVIOUS
<1>3. flush(r) = [drawn |-> e, batch |-> NoBatch] /\ flush(r).drawn = e /\ flush(r).batch = NoBatch
  BY <1>1, <1>2 DEF flush
<1>4. e \in Seq(Batches) /\ flush(r) \in Runs
  BY <1>1, <1>2, <1>3, NoBatchOK DEF Runs, BatchOK
<1>5. ASSUME NEW k \in DOMAIN e
      PROVE  BatchOK(e[k]) /\ e[k].quads # <<>>
  <2>1. (k \in DOMAIN d /\ e[k] = d[k]) \/ e[k] = b
    BY <1>1, <1>2, AppendProperties, LenProperties
  <2>2. QED
    BY <1>1, <2>1 DEF RunOK
<1>6. Firsts(Shown(e) \o <<>>) = cs
  <2>1. Shown(d) \in Seq(Pairs) /\ Shown(e) = Shown(d) \o b.quads
    BY <1>1, <1>2, ShownAppend
  <2>2. PICK t : t = Shown(d) \o b.quads
    OBVIOUS
  <2>3. t \in Seq(Pairs)
    BY <1>1, <2>1, <2>2, ConcatProperties
  <2>4. t \o <<>> = t
    BY <2>3, ConcatEmptySeq
  <2>5. Firsts(t) = cs
    BY <1>1, <2>2 DEF RunOK
  <2>6. QED
    BY <2>1, <2>2, <2>4, <2>5
<1>7. QED
  BY <1>3, <1>4, <1>5, <1>6, NoBatchOK DEF RunOK

(* The table of a batch with room for one more texture.                    *)
LEMMA TableOK ==
    ASSUME NEW b, BatchOK(b), NEW tex \in Nat \ {0}, Len(b.textures) < MaxTextures
    PROVE  LET c == [quads |-> b.quads, textures |-> Append(b.textures, tex)]
           IN  BatchOK(c) /\ tex \in ToSet(c.textures)
<1>1. PICK q, t : q = b.quads /\ t = b.textures /\ q \in Seq(Pairs) /\ t \in Seq(Nat \ {0})
  BY DEF BatchOK, Batches
<1>2. PICK u : u = Append(t, tex)
  OBVIOUS
<1>3. PICK n \in Nat : n = Len(t) /\ DOMAIN t = 1 .. n
  BY <1>1, LenProperties
<1>4. /\ u \in Seq(Nat \ {0}) /\ Len(u) = n + 1 /\ DOMAIN u = 1 .. n + 1 /\ u[n + 1] = tex
      /\ \A i \in 1 .. n : u[i] = t[i]
  BY <1>1, <1>2, <1>3, AppendProperties, LenProperties
<1>5. PICK c : c = [quads |-> q, textures |-> u]
  OBVIOUS
<1>6. c \in Batches /\ c.quads = q /\ c.textures = u
  BY <1>1, <1>4, <1>5 DEF Batches
<1>7. Len(q) <= MaxQuads /\ Len(u) <= MaxTextures
  <2>1. n < MaxTextures /\ Len(q) <= MaxQuads /\ MaxTextures \in Nat
    BY <1>1, <1>3, SpritesAssumption DEF BatchOK
  <2>2. QED
    BY <1>3, <1>4, <2>1
<1>8. ASSUME NEW i \in DOMAIN q
      PROVE  IF q[i][1] = 0 THEN q[i][2] = 0 ELSE q[i][2] \in DOMAIN u /\ u[q[i][2]] = q[i][1]
  <2>1. IF q[i][1] = 0 THEN q[i][2] = 0 ELSE q[i][2] \in DOMAIN t /\ t[q[i][2]] = q[i][1]
    BY <1>1 DEF BatchOK
  <2>2. \A k \in DOMAIN t : k \in DOMAIN u /\ u[k] = t[k]
    BY <1>3, <1>4
  <2>3. QED
    BY <2>1, <2>2
<1>9. BatchOK(c)
  BY <1>6, <1>7, <1>8 DEF BatchOK
<1>10. tex \in ToSet(u)
  <2>1. n + 1 \in DOMAIN u
    BY <1>4
  <2>2. QED
    BY <1>4, <2>1 DEF ToSet
<1>11. QED
  BY <1>1, <1>2, <1>5, <1>6, <1>9, <1>10

(* submitTexture draws at most the batch that is full, adds no quad and    *)
(* leaves the texture in the table.                                        *)
LEMMA TextureOK ==
    ASSUME NEW cs, NEW r, RunOK(r, cs), Settled(r), NEW tex \in Nat
    PROVE  LET s == submitTexture(r, tex)
           IN  /\ RunOK(s, cs)
               /\ s.batch.quads = r.batch.quads \/ s.batch.quads = <<>>
               /\ tex # 0 => tex \in ToSet(s.batch.textures)
<1>1. CASE tex = 0 \/ tex \in ToSet(r.batch.textures)
  <2>1. submitTexture(r, tex) = r
    BY <1>1 DEF submitTexture
  <2>2. QED
    BY <1>1, <2>1
<1>2. CASE ~(tex = 0 \/ tex \in ToSet(r.batch.textures))
  <2>1. PICK s : s = IF Len(r.batch.textures) >= MaxTextures THEN flush(r) ELSE r
    OBVIOUS
  <2>2. submitTexture(r, tex) = [s EXCEPT !.batch.textures = Append(@, tex)]
    BY <1>2, <2>1 DEF submitTexture
  <2>3. r.batch.textures \in Seq(Nat \ {0}) /\ Len(r.batch.textures) \in Nat /\ MaxTextures \in Nat \ {0}
    BY SpritesAssumption, LenProperties DEF RunOK, Runs, Batches
  <2>4. /\ RunOK(s, cs) /\ Len(s.batch.textures) < MaxTextures
        /\ s.batch.quads = r.batch.quads \/ s.batch.quads = <<>>
    <3>1. CASE Len(r.batch.textures) >= MaxTextures
      <4>1. r.batch.textures # <<>>
        BY <2>3, <3>1, EmptySeq
      <4>2. r.batch.quads # <<>>
        BY <4>1 DEF Settled
      <4>3. RunOK(s, cs) /\ s.batch = NoBatch
        BY <2>1, <3>1, <4>2, FlushOK
      <4>4. Len(NoBatch.textures) = 0 /\ NoBatch.quads = <<>>
        BY NoBatchOK
      <4>5. QED
        BY <2>3, <4>3, <4>4
    <3>2. CASE ~(Len(r.batch.textures) >= MaxTextures)
      BY <2>1, <2>3, <3>2
    <3>3. QED
      BY <3>1, <3>2
  <2>5. PICK d, b : d = s.drawn /\ b = s.batch
    OBVIOUS
  <2>5a. s = [drawn |-> d, batch |-> b] /\ b \in Batches
    BY <2>4, <2>5 DEF RunOK, Runs
  <2>6. PICK c : c = [quads |-> b.quads, textures |-> Append(b.textures, tex)]
    OBVIOUS
  <2>7. c = [b EXCEPT !.textures = Append(@, tex)]
    <3>1. PICK q, t : q = b.quads /\ t = b.textures
      OBVIOUS
    <3>2. b = [quads |-> q, textures |-> t]
      BY <2>5a, <3>1 DEF Batches
    <3>3. PICK x : x = Append(t, tex)
      OBVIOUS
    <3>4. c = [quads |-> q, textures |-> x]
      BY <2>6, <3>1, <3>3
    <3>5. [b EXCEPT !.textures = Append(@, tex)] = [b EXCEPT !.textures = x]
      BY <3>1, <3>3
    <3>6. [b EXCEPT !.textures = x] = [quads |-> q, textures |-> x]
      BY <3>2
    <3>7. QED
      BY <3>4, <3>5, <3>6
  <2>8. submitTexture(r, tex) = [s EXCEPT !.batch = c]
    BY <2>2, <2>5, <2>7
  <2>9. submitTexture(r, tex) = [drawn |-> d, batch |-> c]
    BY <2>5a, <2>8
  <2>10. BatchOK(c) /\ tex \in ToSet(c.textures) /\ c.quads = b.quads
    <3>1. BatchOK(b) /\ Len(b.textures) < MaxTextures /\ tex \in Nat \ {0}
      BY <1>2, <2>4, <2>5 DEF RunOK
    <3>2. QED
      BY <2>6, <3>1, TableOK
  <2>11. PICK u : u = [drawn |-> d, batch |-> c]
    OBVIOUS
  <2>12. RunOK(u, cs)
    <3>1. u.drawn = d /\ u.batch = c /\ u \in Runs
      BY <2>4, <2>5, <2>10, <2>11 DEF RunOK, Runs, BatchOK
    <3>2. QED
      BY <2>4, <2>5, <2>10, <3>1 DEF RunOK
  <2>13. u.batch.quads = s.batch.quads /\ u.batch.textures = c.textures
    BY <2>5, <2>10, <2>11
  <2>14. QED
    BY <2>4, <2>9, <2>10, <2>11, <2>12, <2>13
<1>3. QED
  BY <1>1, <1>2

(* The slot of a texture of the table.                                     *)
LEMMA SlotOK ==
    ASSUME NEW t \in Seq(Nat \ {0}), NEW tex \in Nat, tex # 0 => tex \in ToSet(t)
    PROVE  LET slot == SelectInSeq(t, LAMBDA u : u = tex)
           IN  /\ slot \in Nat
               /\ IF tex = 0 THEN slot = 0 ELSE slot \in DOMAIN t /\ t[slot] = tex
<1>1. PICK I : I = {i \in 1 .. Len(t) : t[i] = tex}
  OBVIOUS
<1>2. PICK slot : slot = SelectInSeq(t, LAMBDA u : u = tex)
  OBVIOUS
<1>3. slot = IF I # {} THEN Min(I) ELSE 0
  BY <1>1, <1>2 DEF SelectInSeq
<1>4. Len(t) \in Nat /\ DOMAIN t = 1 .. Len(t) /\ I \subseteq Nat /\ \A i \in DOMAIN t : t[i] # 0
  BY <1>1, LenProperties
<1>5. CASE tex = 0
  <2>1. I = {}
    BY <1>1, <1>4, <1>5
  <2>2. QED
    BY <1>2, <1>3, <1>5, <2>1
<1>6. CASE tex # 0
  <2>1. I # {}
    BY <1>1, <1>4, <1>6 DEF ToSet
  <2>2. \E x \in I : \A y \in I : x <= y
    BY <1>4, <2>1, LeastNumber
  <2>3. Min(I) \in I
    BY <2>2 DEF Min
  <2>4. QED
    BY <1>1, <1>2, <1>3, <1>4, <1>6, <2>1, <2>3
<1>7. QED
  BY <1>5, <1>6

(* A quad: its command and its slot.                                       *)
LEMMA PairFacts ==
    ASSUME NEW a \in Nat, NEW b \in Nat
    PROVE  <<a, b>> \in Pairs /\ <<a, b>>[1] = a /\ <<a, b>>[2] = b
  BY DEF Pairs

(* A batch with room for one more quad.                                    *)
LEMMA RoomOK ==
    ASSUME NEW b, BatchOK(b), NEW tex \in Nat, NEW slot \in Nat, Len(b.quads) < MaxQuads,
           IF tex = 0 THEN slot = 0 ELSE slot \in DOMAIN b.textures /\ b.textures[slot] = tex
    PROVE  LET c == [quads |-> Append(b.quads, <<tex, slot>>), textures |-> b.textures]
           IN  BatchOK(c) /\ c.quads # <<>>
<1>1. PICK q, t : q = b.quads /\ t = b.textures /\ q \in Seq(Pairs) /\ t \in Seq(Nat \ {0})
  BY DEF BatchOK, Batches
<1>2. PICK p : p = <<tex, slot>>
  OBVIOUS
<1>2a. p \in Pairs /\ p[1] = tex /\ p[2] = slot
  BY <1>2, PairFacts
<1>3. PICK u : u = Append(q, p)
  OBVIOUS
<1>4. PICK n \in Nat : n = Len(q) /\ DOMAIN q = 1 .. n
  BY <1>1, LenProperties
<1>5. /\ u \in Seq(Pairs) /\ Len(u) = n + 1 /\ DOMAIN u = 1 .. n + 1 /\ u[n + 1] = p
      /\ \A i \in 1 .. n : u[i] = q[i]
  BY <1>1, <1>2a, <1>3, <1>4, AppendProperties, LenProperties
<1>6. PICK c : c = [quads |-> u, textures |-> t]
  OBVIOUS
<1>7. c \in Batches /\ c.quads = u /\ c.textures = t
  BY <1>1, <1>5, <1>6 DEF Batches
<1>8. Len(u) <= MaxQuads /\ Len(t) <= MaxTextures
  <2>1. n < MaxQuads /\ Len(t) <= MaxTextures /\ MaxQuads \in Nat
    BY <1>1, <1>4, SpritesAssumption DEF BatchOK
  <2>2. QED
    BY <1>4, <1>5, <2>1
<1>9. ASSUME NEW i \in DOMAIN u
      PROVE  IF u[i][1] = 0 THEN u[i][2] = 0 ELSE u[i][2] \in DOMAIN t /\ t[u[i][2]] = u[i][1]
  <2>1. CASE i = n + 1
    BY <1>1, <1>2a, <1>5, <2>1
  <2>2. CASE i \in 1 .. n
    <3>1. IF q[i][1] = 0 THEN q[i][2] = 0 ELSE q[i][2] \in DOMAIN t /\ t[q[i][2]] = q[i][1]
      BY <1>1, <1>4, <2>2 DEF BatchOK
    <3>2. QED
      BY <1>5, <2>2, <3>1
  <2>3. QED
    BY <1>4, <1>5, <2>1, <2>2
<1>10. BatchOK(c)
  BY <1>7, <1>8, <1>9 DEF BatchOK
<1>11. u # <<>>
  BY <1>4, <1>5
<1>12. QED
  BY <1>1, <1>2, <1>3, <1>6, <1>7, <1>10, <1>11

(* The commands of a list with one quad more.                              *)
LEMMA FirstsAppend ==
    ASSUME NEW a \in Seq(Pairs), NEW q \in Seq(Pairs), NEW p \in Pairs
    PROVE  Firsts(a \o Append(q, p)) = Append(Firsts(a \o q), p[1])
<1>1. PICK s : s = a \o q
  OBVIOUS
<1>2. s \in Seq(Pairs) /\ a \o Append(q, p) = Append(s, p)
  BY <1>1, ConcatProperties, AddAtEnd
<1>3. PICK n \in Nat : n = Len(s) /\ DOMAIN s = 1 .. n
  BY <1>2, LenProperties
<1>4. PICK u : u = Append(s, p)
  OBVIOUS
<1>5. DOMAIN u = 1 .. n + 1 /\ u[n + 1] = p /\ \A i \in 1 .. n : u[i] = s[i]
  BY <1>2, <1>3, <1>4, AppendProperties, LenProperties
<1>6. PICK f : f = Firsts(s)
  OBVIOUS
<1>7. f = [i \in 1 .. n |-> s[i][1]] /\ Firsts(u) = [i \in 1 .. n + 1 |-> u[i][1]]
  BY <1>3, <1>5, <1>6 DEF Firsts
<1>8. \A i \in 1 .. n : s[i][1] \in Nat
  BY <1>2, <1>3 DEF Pairs
<1>9. f \in Seq(Nat) /\ Len(f) = n /\ p[1] \in Nat
  BY <1>7, <1>8, IsASeq DEF Pairs
<1>10. PICK g : g = Append(f, p[1])
  OBVIOUS
<1>11. g \in Seq(Nat) /\ Len(g) = n + 1 /\ g[n + 1] = p[1] /\ \A i \in 1 .. n : g[i] = f[i]
  BY <1>9, <1>10, AppendProperties
<1>12. g = [i \in 1 .. n + 1 |-> g[i]]
  BY <1>11
<1>13. ASSUME NEW i \in 1 .. n + 1
       PROVE  g[i] = u[i][1]
  <2>1. CASE i = n + 1
    BY <1>5, <1>11, <2>1
  <2>2. CASE i \in 1 .. n
    BY <1>5, <1>7, <1>11, <2>2
  <2>3. QED
    BY <1>3, <2>1, <2>2
<1>14. Firsts(u) = g
  BY <1>7, <1>12, <1>13
<1>15. QED
  BY <1>1, <1>2, <1>4, <1>6, <1>10, <1>14

(* One command adds its quad at the end.                                   *)
LEMMA QuadOK ==
    ASSUME NEW cs, NEW r, RunOK(r, cs), Settled(r), NEW tex \in Nat
    PROVE  RunOK(submitQuad(r, tex), Append(cs, tex)) /\ Settled(submitQuad(r, tex))
<1>1. PICK e : e = IF Len(r.batch.quads) >= MaxQuads THEN flush(r) ELSE r
  OBVIOUS
<1>2. MaxQuads \in Nat \ {0} /\ r.batch.quads \in Seq(Pairs) /\ Len(r.batch.quads) \in Nat
  BY SpritesAssumption, LenProperties DEF RunOK, Runs, Batches
<1>3. RunOK(e, cs) /\ Settled(e) /\ Len(e.batch.quads) < MaxQuads
  <2>1. CASE Len(r.batch.quads) >= MaxQuads
    <3>1. r.batch.quads # <<>>
      BY <1>2, <2>1, EmptySeq
    <3>2. RunOK(e, cs) /\ e.batch = NoBatch
      BY <1>1, <2>1, <3>1, FlushOK
    <3>3. Len(NoBatch.quads) = 0 /\ NoBatch.textures = <<>>
      BY NoBatchOK
    <3>4. QED
      BY <1>2, <3>2, <3>3 DEF Settled
  <2>2. CASE ~(Len(r.batch.quads) >= MaxQuads)
    BY <1>1, <1>2, <2>2
  <2>3. QED
    BY <2>1, <2>2
<1>4. PICK s : s = submitTexture(e, tex)
  OBVIOUS
<1>5. /\ RunOK(s, cs)
      /\ tex # 0 => tex \in ToSet(s.batch.textures)
      /\ s.batch.quads = e.batch.quads \/ s.batch.quads = <<>>
  BY <1>3, <1>4, TextureOK
<1>6. Len(s.batch.quads) < MaxQuads
  <2>1. Len(<<>>) = 0
    OBVIOUS
  <2>2. QED
    BY <1>2, <1>3, <1>5, <2>1
<1>7. PICK slot : slot = SelectInSeq(s.batch.textures, LAMBDA t : t = tex)
  OBVIOUS
<1>8. PICK d, b : d = s.drawn /\ b = s.batch
  OBVIOUS
<1>8a. /\ d \in Seq(Batches) /\ b \in Batches /\ BatchOK(b)
       /\ b.quads \in Seq(Pairs) /\ b.textures \in Seq(Nat \ {0})
  BY <1>5, <1>8 DEF RunOK, Runs, Batches
<1>8b. s = [drawn |-> d, batch |-> b]
  BY <1>5, <1>8 DEF RunOK, Runs
<1>8c. b = [quads |-> b.quads, textures |-> b.textures]
  BY <1>8a DEF Batches
<1>9. /\ slot \in Nat
      /\ IF tex = 0 THEN slot = 0 ELSE slot \in DOMAIN b.textures /\ b.textures[slot] = tex
  <2>1. PICK t : t = b.textures
    OBVIOUS
  <2>2. t \in Seq(Nat \ {0}) /\ (tex # 0 => tex \in ToSet(t)) /\ slot = SelectInSeq(t, LAMBDA u : u = tex)
    BY <1>5, <1>7, <1>8, <1>8a, <2>1
  <2>3. /\ slot \in Nat
        /\ IF tex = 0 THEN slot = 0 ELSE slot \in DOMAIN t /\ t[slot] = tex
    BY <2>2, SlotOK
  <2>4. QED
    BY <2>1, <2>3
<1>10. PICK p : p = <<tex, slot>> /\ p \in Pairs /\ p[1] = tex
  BY <1>9, PairFacts
<1>11. PICK c : c = [quads |-> Append(b.quads, p), textures |-> b.textures]
  OBVIOUS
<1>12. c = [b EXCEPT !.quads = Append(@, p)]
  <2>1. PICK q, t : q = b.quads /\ t = b.textures
    OBVIOUS
  <2>2. b = [quads |-> q, textures |-> t]
    BY <1>8c, <2>1
  <2>3. PICK x : x = Append(q, p)
    OBVIOUS
  <2>4. c = [quads |-> x, textures |-> t]
    BY <1>11, <2>1, <2>3
  <2>5. [b EXCEPT !.quads = Append(@, p)] = [b EXCEPT !.quads = x]
    BY <2>1, <2>3
  <2>6. [b EXCEPT !.quads = x] = [quads |-> x, textures |-> t]
    BY <2>2
  <2>7. QED
    BY <2>4, <2>5, <2>6
<1>13. submitQuad(r, tex) = [s EXCEPT !.batch.quads = Append(@, p)]
  BY <1>1, <1>4, <1>7, <1>10 DEF submitQuad
<1>14. submitQuad(r, tex) = [s EXCEPT !.batch = c]
  BY <1>8, <1>12, <1>13
<1>15. PICK u : u = [drawn |-> d, batch |-> c]
  OBVIOUS
<1>16. submitQuad(r, tex) = u
  BY <1>8b, <1>14, <1>15
<1>17. BatchOK(c) /\ c.quads # <<>> /\ c.quads = Append(b.quads, p)
  <2>1. Len(b.quads) < MaxQuads
    BY <1>6, <1>8
  <2>2. BatchOK(c) /\ c.quads # <<>>
    BY <1>8a, <1>9, <1>10, <1>11, <2>1, RoomOK
  <2>3. QED
    BY <1>11, <2>2
<1>18. u.drawn = d /\ u.batch = c /\ u \in Runs
  BY <1>8a, <1>15, <1>17 DEF Runs, BatchOK
<1>19. Firsts(Shown(d) \o c.quads) = Append(cs, tex)
  <2>1. Shown(d) \in Seq(Pairs)
    BY <1>8a, ShownAppend
  <2>2. Firsts(Shown(d) \o b.quads) = cs
    BY <1>5, <1>8 DEF RunOK
  <2>3. PICK a : a = Shown(d)
    OBVIOUS
  <2>4. Firsts(a \o Append(b.quads, p)) = Append(Firsts(a \o b.quads), p[1])
    BY <1>8a, <1>10, <2>1, <2>3, FirstsAppend
  <2>5. QED
    BY <1>10, <1>17, <2>2, <2>3, <2>4
<1>20. \A k \in DOMAIN d : BatchOK(d[k]) /\ d[k].quads # <<>>
  BY <1>5, <1>8 DEF RunOK
<1>21. QED
  BY <1>16, <1>17, <1>18, <1>19, <1>20 DEF RunOK, Settled

(* renderScene by the states of its run, which exist for every length.     *)
LEMMA SceneStates ==
    ASSUME NEW commands, NEW n \in Nat, Len(commands) = n
    PROVE  \E f : /\ \A i \in 0 .. n : f[i] = IF i = 0 THEN [drawn |-> <<>>, batch |-> NoBatch]
                                              ELSE submitQuad(f[i - 1], commands[i])
                  /\ renderScene(commands) = IF f[n].batch.quads = <<>> THEN f[n].drawn
                                             ELSE Append(f[n].drawn, f[n].batch)
<1>0. PICK base : base = [drawn |-> <<>>, batch |-> NoBatch]
  OBVIOUS
<1> DEFINE Is(f, k) == f = [i \in 0 .. k |-> IF i = 0 THEN base ELSE submitQuad(f[i - 1], commands[i])]
           Bad == {k \in Nat : ~\E f : Is(f, k)}
<1> HIDE DEF Is
<1>1. ASSUME Bad # {} PROVE FALSE
  <2>1. PICK m \in Bad : \A k \in Bad : m <= k
    <3>1. PICK B : B = Bad
      OBVIOUS
    <3>2. B \subseteq Nat /\ B # {}
      BY <1>1, <3>1
    <3>3. \E m \in B : \A k \in B : m <= k
      <4> HIDE DEF Bad
      <4> QED BY <3>2, LeastNumber
    <3>4. QED
      BY <3>1, <3>3
  <2>2. m \in Nat /\ ~\E f : Is(f, m)
    BY <2>1
  <2>3. CASE m = 0
    <3>1. PICK z : z = [i \in 0 .. 0 |-> base]
      OBVIOUS
    <3>2. \A i \in 0 .. 0 : i = 0
      OBVIOUS
    <3>3. Is(z, 0)
      BY <3>1, <3>2 DEF Is
    <3>4. QED
      BY <2>2, <2>3, <3>3
  <2>4. CASE m # 0
    <3>1. m - 1 \in Nat /\ ~(m <= m - 1)
      BY <2>2, <2>4
    <3>2. m - 1 \notin Bad
      BY <2>1, <3>1
    <3>3. PICK f : Is(f, m - 1)
      BY <3>1, <3>2
    <3>4. PICK g : g = [i \in 0 .. m |-> IF i \in 0 .. m - 1 THEN f[i]
                                         ELSE submitQuad(f[i - 1], commands[i])]
      OBVIOUS
    <3>5. ASSUME NEW i \in 0 .. m
          PROVE  g[i] = IF i = 0 THEN base ELSE submitQuad(g[i - 1], commands[i])
      <4>1. CASE i \in 0 .. m - 1
        <5>1. g[i] = f[i] /\ f[i] = IF i = 0 THEN base ELSE submitQuad(f[i - 1], commands[i])
          BY <3>3, <3>4, <4>1 DEF Is
        <5>2. i # 0 => g[i - 1] = f[i - 1]
          <6>1. i # 0 => i - 1 \in 0 .. m - 1 /\ i - 1 \in 0 .. m
            BY <2>2, <4>1
          <6>2. QED
            BY <3>4, <6>1
        <5>3. QED
          BY <5>1, <5>2
      <4>2. CASE i \notin 0 .. m - 1
        <5>1. g[i] = submitQuad(f[i - 1], commands[i])
          BY <3>4, <4>2
        <5>2. i # 0 /\ i - 1 \in 0 .. m - 1 /\ i - 1 \in 0 .. m
          BY <2>2, <2>4, <4>2
        <5>3. g[i - 1] = f[i - 1]
          BY <3>4, <5>2
        <5>4. QED
          BY <5>1, <5>2, <5>3
      <4>3. QED
        BY <4>1, <4>2
    <3>6. g = [i \in 0 .. m |-> g[i]]
      BY <3>4
    <3>7. Is(g, m)
      BY <3>5, <3>6 DEF Is
    <3>8. QED
      BY <2>2, <3>7
  <2>5. QED
    BY <2>3, <2>4
<1>2. \E f : Is(f, n)
  BY <1>1
<1>3. PICK f : f = CHOOSE g : Is(g, n)
  OBVIOUS
<1>4. Is(f, n)
  BY <1>2, <1>3
<1>5. \A i \in 0 .. n : f[i] = IF i = 0 THEN base ELSE submitQuad(f[i - 1], commands[i])
  BY <1>4 DEF Is
<1>6. renderScene(commands) = IF f[n].batch.quads = <<>> THEN f[n].drawn
                              ELSE Append(f[n].drawn, f[n].batch)
  BY <1>0, <1>3 DEF renderScene, Is
<1>7. QED
  BY <1>0, <1>5, <1>6

(* What renderScene draws for any list of commands.                        *)
LEMMA SceneOK ==
    ASSUME NEW n \in Nat, NEW commands \in [1 .. n -> Nat]
    PROVE  LET drawn == renderScene(commands)
           IN  /\ drawn \in Seq(Batches) /\ Firsts(Shown(drawn)) = commands
               /\ \A b \in DOMAIN drawn : BatchOK(drawn[b]) /\ drawn[b].quads # <<>>
<1>1. PICK base : base = [drawn |-> <<>>, batch |-> NoBatch]
  OBVIOUS
<1>2. commands \in Seq(Nat) /\ Len(commands) = n
  BY IsASeq
<1>3. PICK f : /\ \A i \in 0 .. n : f[i] = IF i = 0 THEN base ELSE submitQuad(f[i - 1], commands[i])
               /\ renderScene(commands) = IF f[n].batch.quads = <<>> THEN f[n].drawn
                                          ELSE Append(f[n].drawn, f[n].batch)
  BY <1>1, <1>2, SceneStates
<1>4. \A i \in 0 .. n : f[i] = IF i = 0 THEN base ELSE submitQuad(f[i - 1], commands[i])
  BY <1>3
<1>5. renderScene(commands) = IF f[n].batch.quads = <<>> THEN f[n].drawn
                              ELSE Append(f[n].drawn, f[n].batch)
  BY <1>3
<1> DEFINE First(i) == [k \in 1 .. i |-> commands[k]]
           Good(i) == RunOK(f[i], First(i)) /\ Settled(f[i])
<1>6. Good(0)
  <2>1. base.drawn = <<>> /\ base.batch = NoBatch /\ base \in Runs
    BY <1>1, NoBatchOK DEF Runs, BatchOK
  <2>2. Firsts(Shown(<<>>) \o <<>>) = <<>>
    BY ShownNone DEF Firsts
  <2>3. First(0) = <<>>
    OBVIOUS
  <2>4. 0 \in 0 .. n
    OBVIOUS
  <2>5. f[0] = base
    BY <1>4, <2>4
  <2>6. RunOK(base, <<>>)
    BY <2>1, <2>2, NoBatchOK DEF RunOK
  <2>7. Settled(base)
    BY <2>1, NoBatchOK DEF Settled
  <2>8. QED
    BY <2>3, <2>5, <2>6, <2>7
<1>7. ASSUME NEW i \in 1 .. n, Good(i - 1)
      PROVE  Good(i)
  <2>1. i \in 0 .. n /\ i # 0 /\ commands[i] \in Nat /\ i - 1 \in Nat
    OBVIOUS
  <2>2. f[i] = submitQuad(f[i - 1], commands[i])
    BY <1>4, <2>1
  <2>3. RunOK(f[i], Append(First(i - 1), commands[i])) /\ Settled(f[i])
    <3> HIDE DEF First
    <3> QED BY <1>7, <2>1, <2>2, QuadOK
  <2>4. Append(First(i - 1), commands[i]) = First(i)
    <3>1. PICK s : s = First(i - 1)
      OBVIOUS
    <3>2. s \in Seq(Nat) /\ Len(s) = i - 1 /\ \A k \in 1 .. i - 1 : s[k] = commands[k]
      <4>1. \A k \in 1 .. i - 1 : commands[k] \in Nat
        OBVIOUS
      <4>2. QED
        BY <2>1, <3>1, <4>1, IsASeq
    <3>3. PICK u : u = Append(s, commands[i])
      OBVIOUS
    <3>4. u \in Seq(Nat) /\ Len(u) = i /\ u[i] = commands[i] /\ \A k \in 1 .. i - 1 : u[k] = commands[k]
      <4>1. u \in Seq(Nat) /\ Len(u) = (i - 1) + 1 /\ u[(i - 1) + 1] = commands[i] /\ \A k \in 1 .. i - 1 : u[k] = s[k]
        BY <2>1, <3>2, <3>3, AppendProperties
      <4>2. (i - 1) + 1 = i
        OBVIOUS
      <4>3. QED
        BY <3>2, <4>1, <4>2
    <3>5. u = [k \in 1 .. i |-> u[k]]
      BY <3>4
    <3>6. \A k \in 1 .. i : u[k] = commands[k]
      <4>1. \A k \in 1 .. i : k = i \/ k \in 1 .. i - 1
        OBVIOUS
      <4>2. QED
        BY <3>4, <4>1
    <3>7. u = First(i)
      BY <3>5, <3>6
    <3>8. QED
      BY <3>1, <3>3, <3>7
  <2>5. QED
    BY <2>3, <2>4
<1> HIDE DEF Good, First
<1>8. Good(n)
  <2>1. PICK Bad : Bad = {i \in 0 .. n : ~Good(i)}
    OBVIOUS
  <2>2. CASE Bad # {}
    <3>1. Bad \subseteq Nat
      BY <2>1
    <3>2. PICK m \in Bad : \A k \in Bad : m <= k
      BY <2>2, <3>1, LeastNumber
    <3>3. m \in 0 .. n /\ ~Good(m) /\ m # 0
      BY <1>6, <2>1, <3>2
    <3>4. m \in 1 .. n /\ m - 1 \in 0 .. n /\ ~(m <= m - 1)
      BY <3>3
    <3>5. Good(m - 1)
      BY <2>1, <3>2, <3>4
    <3>6. QED
      BY <1>7, <3>3, <3>4, <3>5
  <2>3. CASE Bad = {}
    <3>1. n \in 0 .. n
      OBVIOUS
    <3>2. QED
      BY <2>1, <2>3, <3>1
  <2>4. QED
    BY <2>2, <2>3
<1>9. First(n) = commands
  BY DEF First
<1>10. PICK r : r = f[n]
  OBVIOUS
<1>11. RunOK(r, commands)
  BY <1>8, <1>9, <1>10 DEF Good
<1>12. CASE r.batch.quads = <<>>
  <2>1. renderScene(commands) = r.drawn
    BY <1>5, <1>10, <1>12
  <2>2. Shown(r.drawn) \o <<>> = Shown(r.drawn)
    <3>1. r.drawn \in Seq(Batches) /\ r.batch \in Batches
      BY <1>11 DEF RunOK, Runs
    <3>2. PICK a : a = Shown(r.drawn)
      OBVIOUS
    <3>3. a \in Seq(Pairs)
      BY <3>1, <3>2, ShownAppend
    <3>4. QED
      BY <3>2, <3>3, ConcatEmptySeq
  <2>3. QED
    BY <1>11, <1>12, <2>1, <2>2 DEF RunOK, Runs
<1>13. CASE r.batch.quads # <<>>
  <2>1. renderScene(commands) = flush(r).drawn
    BY <1>5, <1>10, <1>13 DEF flush
  <2>2. RunOK(flush(r), commands) /\ flush(r).batch = NoBatch
    BY <1>11, <1>13, FlushOK
  <2>3. PICK d : d = flush(r).drawn
    OBVIOUS
  <2>4. /\ d \in Seq(Batches) /\ Firsts(Shown(d) \o <<>>) = commands
        /\ \A b \in DOMAIN d : BatchOK(d[b]) /\ d[b].quads # <<>>
    BY <2>2, <2>3, NoBatchOK DEF RunOK, Runs
  <2>5. PICK a : a = Shown(d)
    OBVIOUS
  <2>6. a \in Seq(Pairs)
    BY <2>4, <2>5, NoBatchOK, ShownAppend DEF BatchOK
  <2>7. a \o <<>> = a
    BY <2>6, ConcatEmptySeq
  <2>8. QED
    BY <2>1, <2>3, <2>4, <2>5, <2>7
<1>14. QED
  BY <1>12, <1>13

(* What a quad samples.  Some draw call fills the slot last; it is the     *)
(* quad's own or a later one.                                              *)
LEMMA SampleOK ==
    ASSUME NEW drawn \in Seq(Batches), NEW b \in DOMAIN drawn, NEW q,
           q[2] \in DOMAIN drawn[b].textures, drawn[b].textures[q[2]] = q[1],
           ~Overwritten(drawn, b, q)
    PROVE  descriptorSet(drawn, q[2]) = q[1]
<1>1. PICK n \in Nat : n = Len(drawn) /\ DOMAIN drawn = 1 .. n
  BY LenProperties
<1>2. PICK s : s = q[2]
  OBVIOUS
<1>3. PICK fills : fills = {c \in DOMAIN drawn : s <= Len(drawn[c].textures)}
  OBVIOUS
<1>4. b \in fills /\ s \in Nat
  <2>1. drawn[b] \in Batches
    BY <1>1, ElementOfSeq
  <2>2. PICK t : t = drawn[b].textures /\ t \in Seq(Nat \ {0})
    BY <2>1 DEF Batches
  <2>3. DOMAIN t = 1 .. Len(t) /\ Len(t) \in Nat
    BY <2>2, LenProperties
  <2>4. s \in 1 .. Len(t)
    BY <1>2, <2>2, <2>3
  <2>5. QED
    BY <1>3, <2>2, <2>3, <2>4
<1>5. PICK m \in fills : \A c \in fills : c <= m
  <2>1. PICK D : D = {k \in 0 .. n : n - k \in fills}
    OBVIOUS
  <2>2. D \subseteq Nat /\ n - b \in D
    BY <1>1, <1>3, <1>4, <2>1
  <2>3. PICK k \in D : \A j \in D : k <= j
    BY <2>2, LeastNumber
  <2>4. k \in 0 .. n /\ n - k \in fills
    BY <2>1, <2>3
  <2>5. ASSUME NEW c \in fills
        PROVE  c <= n - k
    <3>1. c \in 1 .. n
      BY <1>1, <1>3
    <3>2. n - c \in D
      BY <2>1, <3>1
    <3>3. QED
      BY <2>3, <2>4, <3>1, <3>2
  <2>6. QED
    BY <2>4, <2>5
<1>6. PICK last : last = CHOOSE c \in fills : \A d \in fills : d <= c
  OBVIOUS
<1>7. last \in fills /\ \A d \in fills : d <= last
  BY <1>5, <1>6
<1>8. descriptorSet(drawn, s) = drawn[last].textures[s]
  BY <1>3, <1>6 DEF descriptorSet
<1>9. last \in DOMAIN drawn /\ s <= Len(drawn[last].textures) /\ b <= last
  BY <1>3, <1>4, <1>7
<1>10. drawn[last].textures[s] = q[1]
  <2>1. CASE last = b
    BY <1>2, <2>1
  <2>2. CASE last # b
    <3>1. last > b
      BY <1>1, <1>9, <2>2
    <3>2. QED
      BY <1>2, <1>9, <3>1 DEF Overwritten
  <2>3. QED
    BY <2>1, <2>2
<1>11. QED
  BY <1>2, <1>8, <1>10

(* Every frame draws the quads of its commands once and in order, in       *)
(* batches within both limits, for lists of commands and limits of any     *)
(* size: no draw call is empty because a batch that has a texture has a    *)
(* quad.  A quad samples its own texture unless a later draw call of the   *)
(* frame puts another into its slot.                                       *)
THEOREM FramesDrawAll == Spec => []FrameDrawsAll
<1>1. PoolInv => FrameDrawsAll
  <2> SUFFICES ASSUME PoolInv,
                      NEW n \in 0 .. MaxCommands,
                      NEW commands \in [1 .. n -> {q.texture : q \in ToSet(quads)}]
               PROVE  LET drawn == renderScene(commands)
                          shown == FlattenSeq([b \in DOMAIN drawn |-> drawn[b].quads])
                      IN  /\ [i \in DOMAIN shown |-> shown[i][1]] = commands
                          /\ \A b \in DOMAIN drawn :
                                /\ Len(drawn[b].quads) \in 1 .. MaxQuads
                                /\ Len(drawn[b].textures) <= MaxTextures
                                /\ \A q \in ToSet(drawn[b].quads) :
                                      \/ q[1] = 0 /\ q[2] = 0
                                      \/ q[1] # 0 /\ q[2] \in 1 .. MaxTextures
                                            /\ \/ descriptorSet(drawn, q[2]) = q[1]
                                               \/ Overwritten(drawn, b, q)
    BY DEF FrameDrawsAll
  <2>1. {q.texture : q \in ToSet(quads)} \subseteq Nat
    <3>1. quads \in Seq(QuadSet)
      BY DEF PoolInv, QuadsOK
    <3>2. \A i \in DOMAIN quads : quads[i] \in QuadSet
      BY <3>1
    <3>3. \A q \in QuadSet : q.texture \in Nat
      BY DEF QuadSet
    <3>4. QED
      BY <3>2, <3>3 DEF ToSet
  <2>2. n \in Nat /\ commands \in [1 .. n -> Nat]
    BY <2>1, SpritesAssumption
  <2>3. PICK drawn : drawn = renderScene(commands)
    OBVIOUS
  <2>4. /\ drawn \in Seq(Batches) /\ Firsts(Shown(drawn)) = commands
        /\ \A b \in DOMAIN drawn : BatchOK(drawn[b]) /\ drawn[b].quads # <<>>
    BY <2>2, <2>3, SceneOK
  <2>5. PICK shown : shown = FlattenSeq([b \in DOMAIN drawn |-> drawn[b].quads])
    OBVIOUS
  <2>6. [i \in DOMAIN shown |-> shown[i][1]] = commands
    BY <2>4, <2>5 DEF Firsts, Shown
  <2>7. ASSUME NEW b \in DOMAIN drawn
        PROVE  /\ Len(drawn[b].quads) \in 1 .. MaxQuads
               /\ Len(drawn[b].textures) <= MaxTextures
               /\ \A q \in ToSet(drawn[b].quads) :
                     \/ q[1] = 0 /\ q[2] = 0
                     \/ q[1] # 0 /\ q[2] \in 1 .. MaxTextures
                           /\ (descriptorSet(drawn, q[2]) = q[1] \/ Overwritten(drawn, b, q))
    <3>1. PICK c : c = drawn[b]
      OBVIOUS
    <3>2. BatchOK(c) /\ c.quads # <<>> /\ c.quads \in Seq(Pairs)
      BY <2>4, <3>1 DEF BatchOK, Batches
    <3>3. Len(c.quads) \in Nat /\ Len(c.quads) # 0 /\ MaxQuads \in Nat
      BY <3>2, SpritesAssumption, LenProperties, EmptySeq
    <3>4. Len(c.quads) \in 1 .. MaxQuads /\ Len(c.textures) <= MaxTextures
      BY <3>2, <3>3 DEF BatchOK
    <3>5. ASSUME NEW q \in ToSet(c.quads)
          PROVE  \/ q[1] = 0 /\ q[2] = 0
                 \/ q[1] # 0 /\ q[2] \in 1 .. MaxTextures
                       /\ (descriptorSet(drawn, q[2]) = q[1] \/ Overwritten(drawn, b, q))
      <4>1. PICK i \in DOMAIN c.quads : q = c.quads[i]
        BY DEF ToSet
      <4>2. IF q[1] = 0 THEN q[2] = 0
            ELSE q[2] \in DOMAIN c.textures /\ c.textures[q[2]] = q[1]
        BY <3>2, <4>1 DEF BatchOK
      <4>3. ASSUME q[1] # 0 PROVE q[2] \in 1 .. MaxTextures
        <5>1. PICK t : t = c.textures /\ t \in Seq(Nat \ {0})
          BY <3>2 DEF BatchOK, Batches
        <5>2. DOMAIN t = 1 .. Len(t) /\ Len(t) \in Nat /\ Len(t) <= MaxTextures
          BY <3>4, <5>1, LenProperties
        <5>3. QED
          BY <4>2, <4>3, <5>1, <5>2, SpritesAssumption
      <4>4. ASSUME q[1] # 0 PROVE descriptorSet(drawn, q[2]) = q[1] \/ Overwritten(drawn, b, q)
        <5>1. q[2] \in DOMAIN drawn[b].textures /\ drawn[b].textures[q[2]] = q[1]
          BY <3>1, <4>2, <4>4
        <5>2. QED
          BY <2>4, <5>1, SampleOK
      <4>5. QED
        BY <4>2, <4>3, <4>4
    <3>6. QED
      BY <3>1, <3>4, <3>5
  <2>8. QED
    BY <2>3, <2>5, <2>6, <2>7
<1>2. QED
  BY <1>1, PoolAlways, PTL
=============================================================================
