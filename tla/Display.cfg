\* Painter 1 is the shell, painter 2 sysinfo.
CONSTANTS
    Windows = 2
    Size <- Sizes
    Chars = {"blank", "a"}
    Blank = "blank"
    Desktop = "desktop"
    Periodic = {2}
SPECIFICATION FairSpec
PROPERTIES
    OnlyAStaleReadMisleads
    TextComesBack
