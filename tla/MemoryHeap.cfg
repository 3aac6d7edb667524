\* The heap against the frames that the PMM gives to others.
CONSTANTS
    FrameSize = 4
    AddressSpace = 128
    KernelStart = 16
    KernelEnd = 22
    Maps <- OneMap
    EntriesPerTable = 4
    StaticTables = 2
    HeapSize = 8
    Requests <- Sizes
    Places <- HeapPlaces
    Screens <- OneScreen
SPECIFICATION Spec
INVARIANTS
    HeapIsCarvedOut
