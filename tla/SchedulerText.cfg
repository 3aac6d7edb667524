\* Text mode: kernel_main and the shell, and one call more than the table holds.
CONSTANTS
    MaxTasks = 3
    Interval = 3
    Launch = 3
    Sleepers = {1, 2}
    Yielders = {}
    Exiters = {}
SPECIFICATION FairSpec
INVARIANTS
    TypeOK
    ContextsIntact
    TableAgreesWithCpu
PROPERTIES
    TakesTurns
