\* Four entities and two files, one of them the scene of the next start.
CONSTANTS
    Entities = {e1, e2, e3, e4}
    Null = Null
    LeafDrops = TRUE
    LeafDestroys = TRUE
    Files = {f1, f2}
    Default = f1
    NoFile = NoFile
    MaxEdits = 3
SPECIFICATION Spec
SYMMETRY Symmetry
INVARIANTS DirtyTracksFile TreesIntact
PROPERTIES SelectionDangles
