\* Framebuffer mode: kernel_main, the shell, which reads keys, and sysinfo,
\* which yields.  A lost context may stop the system, hence no deadlock check.
CONSTANTS
    MaxTasks = 4
    Interval = 3
    Launch = 2
    Sleepers = {1}
    Yielders = {2}
    Exiters = {}
    Reader = 1
    Item = {key}
    Capacity = 2
    NoItem = none
SPECIFICATION InputSpec
INVARIANTS
    NoDeafHalt
PROPERTIES
    OnlyTheWindowCorrupts
    EveryTaskRuns
    KeysAreRead
CHECK_DEADLOCK FALSE
