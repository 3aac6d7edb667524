\* The boot with each of SomeMaps and each of SomeScreens.
CONSTANTS
    FrameSize = 4
    AddressSpace = 128
    KernelStart = 16
    KernelEnd = 22
    Maps <- SomeMaps
    EntriesPerTable = 4
    StaticTables = 2
    HeapSize = 8
    Requests <- Sizes
    Places <- HeapPlaces
    Screens <- SomeScreens
SPECIFICATION Spec
INVARIANTS
    TypeOK
    IdentityMapped
    TablesApart
    NoFaultAtBoot
    BlocksApart
    HeapUsable
PROPERTIES
    FbMapped
