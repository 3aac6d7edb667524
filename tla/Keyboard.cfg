\* A ring of four places; both Shift keys, one letter and a silent key.
CONSTANTS
    BufferSize = 4
    ShiftKeys = {"lshift", "rshift"}
    CharKeys = {"a"}
    OtherKeys = {"f1"}
    WireSize = 1
SPECIFICATION FairSpec
INVARIANTS
    ShiftFollowsKeys
PROPERTIES
    IsQueue
    CharsReachTheShell
