------------------------------ MODULE Sprites -------------------------------
(***************************************************************************)
(* Images packed into texture atlases and drawn in batches: TexturePool,   *)
(* TextureAtlas::update with its QuadTree of leftover rectangles (Engine), *)
(* and Renderer2D::renderScene.                                            *)
(*                                                                         *)
(* An atlas is filled in shelves from the top.  The rectangles that a      *)
(* shelf leaves below its shorter images are kept in a search tree, and a  *)
(* new image goes into one of them if the search finds one that is large   *)
(* enough.  Only the last atlas of the pool is ever filled.                *)
(***************************************************************************)
EXTENDS Naturals, Sequences, FiniteSets, SequencesExt

CONSTANTS
    Width, Height,  \* of an atlas
    MINLOSIZE,      \* a narrower rectangle is not worth keeping
    Sizes,          \* sizes <<w, h>> of images
    MaxSprites,     \* bound: images
    MaxQuads,       \* Config2D: quads in a batch
    MaxTextures,    \* Config2D: textures in a batch
    MaxCommands     \* bound: quads in a frame

(* An image is not larger than an atlas.                                   *)
ASSUME SpritesAssumption ==
    /\ Width \in Nat /\ Height \in Nat
    /\ Sizes \subseteq (0 .. Width) \X (0 .. Height)
    /\ {MINLOSIZE, MaxQuads, MaxTextures} \subseteq Nat \ {0}
    /\ {MaxSprites, MaxCommands} \subseteq Nat

VARIABLES
    atlas,          \* the last atlas of the pool
    count,          \* atlas.size()
    quads,          \* the quads handed out, in order
    running         \* no undefined behaviour or failed assertion so far

vars == <<atlas, count, quads, running>>

Rect(x, y, w, h) == [x |-> x, y |-> y, w |-> w, h |-> h]

-----------------------------------------------------------------------------
(* QuadTree: rectangles ordered by their size.  Keys are positive, 0 is no *)
(* node.                                                                   *)

Dirs  == {"left", "right", "up", "down"}
Empty == [root |-> 0, nodes |-> <<>>]

(* The comparator of TextureAtlas::TextureAtlas.                           *)
Compare(a, b) ==
    CASE a.w >= b.w /\ a.h >= b.h -> "right"
      [] a.w >= b.w /\ a.h < b.h  -> "down"
      [] a.w < b.w  /\ a.h >= b.h -> "up"
      [] OTHER                    -> "left"

Fits(size, r) == size.w <= r.w /\ size.h <= r.h

(* Node::addOrNext, repeated: the node that has room for v, going down     *)
(* from start.                                                             *)
Room(nodes, start, v) ==
    LET down[k \in DOMAIN nodes] ==
            LET next == nodes[k].kid[Compare(v, nodes[k].value)]
            IN  IF next = 0 THEN k ELSE down[next]
    IN  down[start]

(* The node key becomes a child of the node that has room for it.          *)
Hang(nodes, start, key) ==
    LET v == nodes[key].value
        p == Room(nodes, start, v)
    IN  [nodes EXCEPT ![p].kid[Compare(v, nodes[p].value)] = key,
                      ![key].parent = p]

add(t, key, v) ==
    LET new   == [value |-> v, parent |-> 0, kid |-> [d \in Dirs |-> 0]]
        nodes == [k \in DOMAIN t.nodes \union {key} |-> IF k = key THEN new ELSE t.nodes[k]]
    IN  IF t.root = 0 THEN [root |-> key, nodes |-> nodes]
        ELSE [t EXCEPT !.nodes = Hang(nodes, t.root, key)]

readd(t, start, key) ==
    IF start = 0 /\ t.root = 0
    THEN [root |-> key, nodes |-> [t.nodes EXCEPT ![key].parent = 0]]
    ELSE [t EXCEPT !.nodes = Hang(t.nodes, IF start = 0 THEN t.root ELSE start, key)]

(* The tree without key, whose children hang loose.                        *)
Cut(t, key) ==
    [root  |-> IF t.root = key THEN 0 ELSE t.root,
     nodes |-> [k \in DOMAIN t.nodes \ {key} |->
                   [t.nodes[k] EXCEPT !.kid = [d \in DOMAIN @ |-> IF @[d] = key THEN 0 ELSE @[d]]]]]

(* Mutant: only the last child is kept. *)
eraseKeepsLast(t, key) ==
    LET n == t.nodes[key]
    IN  IF n.parent = 0 \/ n.kid["down"] = 0 THEN Cut(t, key)
        ELSE readd(Cut(t, key), n.parent, n.kid["down"])

(* Take key out, and hang its children below its parent.                   *)
erase(t, key) ==
    LET n == t.nodes[key]
        rehang(s, leaf) == IF leaf = 0 THEN s ELSE readd(s, n.parent, leaf)
        left  == rehang(Cut(t, key), n.kid["left"])
        right == rehang(left, n.kid["right"])
        up    == rehang(right, n.kid["up"])
    IN  rehang(up, n.kid["down"])

(* findFrom: a node that v fits into, 0 if none was found.  The side v     *)
(* belongs to comes first, then the node, then the other sides that may    *)
(* hold something large enough.  (The code answers with the node itself    *)
(* where this is 0, and the caller finds that it is too small.)            *)
findFrom(t, v) ==
    LET others(d) == CASE d = "left"  -> <<"down", "up", "right">>
                       [] d = "right" -> <<>>
                       [] OTHER       -> <<"right">>
        find[k \in DOMAIN t.nodes \union {0}] ==
            IF k = 0 THEN 0 ELSE
            LET n     == t.nodes[k]
                d     == Compare(v, n.value)
                found == <<find[n.kid[d]]>>
                         \o (IF Fits(v, n.value) THEN <<k>> ELSE <<>>)
                         \o [i \in DOMAIN others(d) |-> find[n.kid[others(d)[i]]]]
                hits  == SelectSeq(found, LAMBDA x : x # 0)
            IN  IF hits = <<>> THEN 0 ELSE Head(hits)
    IN  find[t.root]

(* The result is looked at once more.                                      *)
findNode(t, v) ==
    LET key == findFrom(t, v)
    IN  IF key \in DOMAIN t.nodes /\ Fits(v, t.nodes[key].value) THEN key ELSE 0

-----------------------------------------------------------------------------
(* TextureAtlas.                                                           *)

NewAtlas == [leftovers |-> Empty, rlid |-> 1, border |-> <<0, 0>>, yRange |-> <<0, 0>>]

(* leftovers.add of r, if it is worth keeping.                             *)
KeepIf(a, worth, r) ==
    IF worth THEN [a EXCEPT !.leftovers = add(a.leftovers, a.rlid, r), !.rlid = @ + 1] ELSE a

(* Keep what is left of r when an image w by h has its top left corner.    *)
Split(a, r, w, h) ==
    LET wdelta == r.w - w
        hdelta == r.h - h
        corner == KeepIf(a, TRUE, Rect(r.x + w, r.y + h, wdelta, hdelta))
        below  == KeepIf(corner, w >= MINLOSIZE, Rect(r.x, r.y + h, w, hdelta))
    IN  CASE wdelta >= MINLOSIZE /\ hdelta >= MINLOSIZE ->
                KeepIf(below, h >= MINLOSIZE, Rect(r.x + w, r.y, wdelta, h))
          [] wdelta >= MINLOSIZE /\ hdelta < MINLOSIZE ->
                KeepIf(a, TRUE, Rect(r.x + w, r.y, wdelta, r.h))
          [] wdelta < MINLOSIZE /\ hdelta >= MINLOSIZE ->
                KeepIf(a, TRUE, Rect(r.x, r.y + h, r.w, hdelta))
          [] OTHER -> a

(* The first branch of update: the image goes into the leftover lid.       *)
Reuse(a, lid, w, h) ==
    LET r == a.leftovers.nodes[lid].value
    IN  [at    |-> Rect(r.x, r.y, w, h),
         atlas |-> Split([a EXCEPT !.leftovers = erase(a.leftovers, lid)], r, w, h)]

(* The other one: the image goes to the right end of the shelf.  A taller  *)
(* one makes the shelf higher and leaves what is below those before it, a  *)
(* shorter one leaves what is below itself.                                *)
AppendToShelf(a, w, h) ==
    LET x     == a.border[1]
        y     == a.border[2]
        low   == a.yRange[1]
        tall  == a.yRange[2]
        moved == [a EXCEPT !.border = <<x + w, y>>]
    IN  [at    |-> Rect(x, y, w, h),
         atlas |-> CASE h > tall ->
                          KeepIf([moved EXCEPT !.yRange = <<y + h, h>>],
                                 x >= MINLOSIZE /\ h - tall >= MINLOSIZE,
                                 Rect(0, low, x, h - tall))
                     [] h <= tall /\ y + h < low ->
                          KeepIf(moved, w >= MINLOSIZE /\ low - y - h >= MINLOSIZE,
                                 Rect(x, y + h, w, low - y - h))
                     [] OTHER -> moved]

(* Mutant: a new shelf starts with the height of the one above. *)
NewShelfKeepsRange(a) ==
    [a EXCEPT !.border = <<0, a.border[2] + a.yRange[2]>>]

NewShelf(a) ==
    [a EXCEPT !.border = <<0, a.border[2] + a.yRange[2]>>, !.yRange = <<0, 0>>]

(* update: {} when the image does not fit, else where it went.             *)
update(a, w, h) ==
    LET lid   == findNode(a.leftovers, Rect(0, 0, w, h))
        shelf == IF a.border[1] + w > Width THEN NewShelf(a) ELSE a
    IN  CASE w = 0 \/ h = 0               -> {}
          [] w > 0 /\ h > 0 /\ lid # 0    -> {Reuse(a, lid, w, h)}
          [] w > 0 /\ h > 0 /\ lid = 0 /\ shelf.border[2] + h > Height -> {}
          [] OTHER                        -> {AppendToShelf(shelf, w, h)}

-----------------------------------------------------------------------------
(* TexturePool::addSprite of a name that it has no atlas for yet.          *)

Quad(n, at) == [x |-> at.x, y |-> at.y, w |-> at.w, h |-> at.h, texture |-> n]

Add(n, result) ==
    /\ atlas' = result.atlas /\ count' = n
    /\ quads' = Append(quads, Quad(n, result.at))
    /\ UNCHANGED running

(* An image that fits into the last atlas.                                 *)
AddToLast(w, h) == \E r \in update(atlas, w, h) : Add(IF count = 0 THEN 1 ELSE count, r)

(* An image file that does not goes to a new atlas.                        *)
AddFileToNew(w, h) ==
    /\ update(atlas, w, h) = {}
    /\ \E r \in update(NewAtlas, w, h) : Add(count + 1, r)

(* An empty image is refused by that one as well, which stays.             *)
AddEmpty(w, h) ==
    /\ w = 0 \/ h = 0
    /\ atlas' = NewAtlas /\ count' = IF count = 0 THEN 2 ELSE count + 1
    /\ quads' = Append(quads, Quad(0, Rect(0, 0, 0, 0)))
    /\ UNCHANGED running

(* For an image in memory the new atlas is asked for a file of its name.   *)
(* The loader asserts that there is one.                                   *)
AddDataToNew(w, h) ==
    /\ update(atlas, w, h) = {}
    /\ running' = FALSE
    /\ UNCHANGED <<atlas, count, quads>>

(* A name that the pool knows: mapping points to its atlas, which has been *)
(* moved away if the pool has grown since.                                 *)
Lookup(i) ==
    /\ quads[i].texture # 0 /\ quads[i].texture < count
    /\ running' = FALSE
    /\ UNCHANGED <<atlas, count, quads>>

-----------------------------------------------------------------------------
(* Renderer2D::renderScene, for a list of commands that are each the       *)
(* texture of a quad, 0 for none.  A batch has its quads, each with its    *)
(* command and its texture slot (0 for the -1 of the code), and the part   *)
(* of the array "textures" that it has filled.                             *)

NoBatch == [quads |-> <<>>, textures |-> <<>>]

(* Mutant: the table of textures is kept. *)
flushKeepsTextures(r) ==
    [r EXCEPT !.drawn = Append(@, r.batch), !.batch.quads = <<>>]

(* present and flush: one draw call, and a new vertex buffer.  A recorded  *)
(* call keeps its quads; what it has of the textures is what its update    *)
(* wrote into the descriptor set.                                          *)
flush(r) == [drawn |-> Append(r.drawn, r.batch), batch |-> NoBatch]

(* submitTexture: r with texture tex in the table of its batch.            *)
submitTexture(r, tex) ==
    IF tex = 0 \/ tex \in ToSet(r.batch.textures) THEN r
    ELSE LET s == IF Len(r.batch.textures) >= MaxTextures THEN flush(r) ELSE r
         IN  [s EXCEPT !.batch.textures = Append(@, tex)]

(* submitQuad for one command.                                             *)
submitQuad(r, tex) ==
    LET s == submitTexture(IF Len(r.batch.quads) >= MaxQuads THEN flush(r) ELSE r, tex)
        slot == SelectInSeq(s.batch.textures, LAMBDA t : t = tex)
    IN  [s EXCEPT !.batch.quads = Append(@, <<tex, slot>>)]

(* begin, submitQuad, present: the draw calls of a frame.  r[i] is the     *)
(* state after i commands.                                                 *)
renderScene(commands) ==
    LET r[i \in 0 .. Len(commands)] ==
            IF i = 0 THEN [drawn |-> <<>>, batch |-> NoBatch]
            ELSE submitQuad(r[i - 1], commands[i])
        last == r[Len(commands)]
    IN  IF last.batch.quads = <<>> THEN last.drawn ELSE Append(last.drawn, last.batch)

(* updateDesciptorSet.  All draw calls of a frame share one descriptor     *)
(* set.  Each writes its textures into the first slots while it is         *)
(* recorded and leaves the others as they are; the calls run once all are  *)
(* recorded, so what each of them samples in a slot is what the last call  *)
(* that filled the slot has written.                                       *)
descriptorSet(drawn, slot) ==
    LET fills == {b \in DOMAIN drawn : slot <= Len(drawn[b].textures)}
        last  == CHOOSE b \in fills : \A c \in fills : c <= b
    IN  drawn[last].textures[slot]

-----------------------------------------------------------------------------
Init ==
    /\ atlas = NewAtlas /\ count = 0
    /\ quads = <<>> /\ running = TRUE

Next ==
    /\ running
    /\ \/ /\ Len(quads) < MaxSprites
          /\ \E s \in Sizes :
                \/ AddToLast(s[1], s[2]) \/ AddFileToNew(s[1], s[2])
                \/ AddEmpty(s[1], s[2]) \/ AddDataToNew(s[1], s[2])
       \/ \E i \in DOMAIN quads : Lookup(i)

Spec == Init /\ [][Next]_vars

-----------------------------------------------------------------------------
(* Properties.                                                             *)

Apart(a, b) == a.x + a.w <= b.x \/ b.x + b.w <= a.x \/ a.y + a.h <= b.y \/ b.y + b.h <= a.y

Kept == {atlas.leftovers.nodes[k].value : k \in DOMAIN atlas.leftovers.nodes}

(* No two images of an atlas share a pixel and none leaves the atlas,      *)
(* whatever mix of shelves and leftovers they went to; the leftovers that  *)
(* are still to be filled lie in the atlas, outside every image and each   *)
(* other.                                                                  *)
ImagesApart ==
    LET last == {quads[i] : i \in {j \in DOMAIN quads : quads[j].texture = count}}
    IN  /\ \A i, j \in DOMAIN quads :
              i < j /\ quads[i].texture = quads[j].texture => Apart(quads[i], quads[j])
        /\ \A r \in ToSet(quads) \union Kept : r.x + r.w <= Width /\ r.y + r.h <= Height
        /\ \A r \in Kept : \A q \in last \union (Kept \ {r}) : Apart(r, q)

Leaves(n) == {n.kid[d] : d \in Dirs} \ {0}

(* Every leftover can be reached from the root of the tree, along child    *)
(* links that agree with the links to the parent: erasing a node and       *)
(* hanging its children elsewhere loses none and closes no loop.  What is  *)
(* reached is the smallest set with the root and the children of its       *)
(* members.                                                                *)
NoLeftoverLost ==
    LET nodes == atlas.leftovers.nodes
        root  == atlas.leftovers.root
    IN  /\ \A S \in SUBSET DOMAIN nodes :
              {root} \ {0} \subseteq S /\ (\A k \in S : Leaves(nodes[k]) \subseteq S)
                 => S = DOMAIN nodes
        /\ \A k \in DOMAIN nodes :
              /\ \A c \in Leaves(nodes[k]) : nodes[c].parent = k
              /\ nodes[k].parent = 0 <=> root = k

(* A draw call after b puts another texture into q's slot.                 *)
Overwritten(drawn, b, q) ==
    \E c \in DOMAIN drawn : /\ c > b /\ q[2] <= Len(drawn[c].textures)
                            /\ drawn[c].textures[q[2]] # q[1]

(* A frame draws every quad once and in order, in batches within the       *)
(* limits.  A quad is drawn with its own texture, unless a later draw call *)
(* of the frame puts another one into its slot of the descriptor set they  *)
(* share: always right in a frame of one draw call, not in every frame     *)
(* that needs a flush.                                                     *)
FrameDrawsAll ==
    Len(quads) <= MaxTextures + 1 =>
    \A commands \in UNION {[1 .. n -> {q.texture : q \in ToSet(quads)}] : n \in 0 .. MaxCommands} :
        LET drawn == renderScene(commands)
            shown == FlattenSeq([b \in DOMAIN drawn |-> drawn[b].quads])
        IN  /\ [i \in DOMAIN shown |-> shown[i][1]] = commands
            /\ \A b \in DOMAIN drawn :
                  /\ Len(drawn[b].quads) \in 1 .. MaxQuads
                  /\ Len(drawn[b].textures) <= MaxTextures
                  /\ \A q \in ToSet(drawn[b].quads) :
                        \/ q[1] = 0 /\ q[2] = 0
                        \/ q[1] # 0 /\ q[2] \in 1 .. MaxTextures
                              /\ (descriptorSet(drawn, q[2]) = q[1] \/ Overwritten(drawn, b, q))
=============================================================================
