\* Six images in atlases of eight by ten pixels, up to five quads in a frame.
CONSTANTS
    Width = 8
    Height = 10
    MINLOSIZE = 2
    Sizes <- SomeSizes
    MaxSprites = 6
    MaxQuads = 3
    MaxTextures = 2
    MaxCommands = 5
SPECIFICATION Spec
CHECK_DEADLOCK FALSE
INVARIANTS ImagesApart NoLeftoverLost FrameDrawsAll
