\* kernel_main, the shell and sysinfo; timer, keyboard, and a device on the slave.
CONSTANTS
    Width = 4
    PIC1_OFFSET = 8
    PIC2_OFFSET = 12
    Bios1 = 2
    Bios2 = 20
    Drivers <- DriverSets
    Devices = {0, 1, 5}
    Tasks = {"kernel", "shell", "sysinfo"}
    First = "kernel"
    Yielders = {"sysinfo"}
    MaxNest = 2
SPECIFICATION FairSpec
INVARIANTS
    NothingStuck
    DriversRunThrough
    RightDriver
PROPERTIES
    InterruptsReturn
    Served
