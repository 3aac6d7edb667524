\* Framebuffer mode: the tick that falls into the switch window.
CONSTANTS
    MaxTasks = 4
    Interval = 3
    Launch = 2
    Sleepers = {1}
    Yielders = {2}
    Exiters = {}
SPECIFICATION FairSpec
INVARIANTS
    ContextsIntact
CHECK_DEADLOCK FALSE
