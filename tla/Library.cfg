CONSTANTS
    MemSize = 4
    ByteMax = 2
    WordSize = 65536
    TmpDigits = 6
    Chars <- Ascii
    Prints <- SomePrints
    Width = 12
    Height = 10
    Pitch = 13
    Wrap = 1024
    FONT_WIDTH = 2
    FONT_HEIGHT = 2
    Glyphs <- Letters
    WM_MAX_WINDOWS = 2
    WM_BORDER = 1
    WM_TITLEBAR_HEIGHT = 4
    WM_TEXT_COLS = 3
    WM_TEXT_ROWS = 2
    TitleIndent = 1
    Requests <- SomeRequests
    StubAddress <- Linked
    IDT_ENTRIES = 50
    PIT_BASE_FREQ = 119
    TIMER_HZ = 2
    Byte = 16
    Sixty = 4
    Ten = 2
    TickWrap = 150
    MaxElapsed = 165
    MaxDelay = 3
SPECIFICATION LibSpec
INVARIANTS
    StringsKeepTheirPromise
    OnlySignsAndCharsDiffer
    DrawsWhatWasAsked
    HandlersSeeTheInterrupted
    ClockIsRight
PROPERTIES
    CallsReturn
CHECK_DEADLOCK FALSE
