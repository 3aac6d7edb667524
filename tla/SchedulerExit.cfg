\* Tasks whose entry point returns, and slots that are used again.
\* A lost context may stop the system, hence no deadlock check.
CONSTANTS
    MaxTasks = 3
    Interval = 2
    Launch = 4
    Sleepers = {1}
    Yielders = {}
    Exiters = {1, 2}
SPECIFICATION Spec
PROPERTIES
    OnlyTheWindowCorrupts
    DeadStaysDead
CHECK_DEADLOCK FALSE
