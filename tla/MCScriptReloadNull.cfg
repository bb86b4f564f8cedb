\* The compilation of Editor::init alone, racing the first frame.
CONSTANTS
    Names = {default}
    StartFile = default
    DefaultName = fallback
    MaxScenes = 1
    MaxCompiles = 1
SPECIFICATION Spec
CHECK_DEADLOCK FALSE
INVARIANTS CurrentSceneNotNull
