\* Sixteen frames of four bytes; kernel in frames 4 and 5, bitmap behind it.
CONSTANTS
    FrameSize = 4
    AddressSpace = 64
    KernelStart = 16
    KernelEnd = 22
    Maps <- DisjointMaps
SPECIFICATION Spec
INVARIANTS
    FreeCountExact
    OnlyRamIsFree
PROPERTIES
    IsLot
