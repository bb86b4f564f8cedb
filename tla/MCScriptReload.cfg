\* The compilation of Editor::init, one from the menu, one scene opened.
CONSTANTS
    Names = {default, other}
    StartFile = default
    DefaultName = fallback
    MaxScenes = 2
    MaxCompiles = 2
SPECIFICATION FairSpec
CHECK_DEADLOCK FALSE
INVARIANTS TypeOK LoadedWhenQuiet DialogWhileCompiling FreshUnlessOvertaken NewestBuildLoaded
PROPERTIES EveryCompileReported
