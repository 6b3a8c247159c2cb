SPECIFICATION Spec
CONSTANTS
    ui1 = ui1
    ui2 = ui2
    Callers = {ui1, ui2}
    ImageSize = 2
    PipeSize = 2
    MaxCommands = 2
    MaxPulls = 1
    MaxRestarts = 1
INVARIANT NeverFindsPortTaken
CHECK_DEADLOCK FALSE
