SPECIFICATION Spec
CONSTANTS
    Keys = {k1}
    Buttons = {b1}
    Scrolls = {1, 2}
    Sizes = {1, 2}
    N = 3
    MaxEvents = 2
    MaxPending = 2
CHECK_DEADLOCK FALSE
INVARIANTS TypeOK InputSeen FrameBuffersFit PresentsWhatItDrew ResetWhenIdle
PROPERTY FramesGoOn
