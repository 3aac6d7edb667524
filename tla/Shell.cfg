\* Two rows of three cells; lines of up to four characters.
CONSTANTS
    Rows = 2
    Cols = 3
    TabStop = 8
    Letters = {"e", "c", ">"}
    MaxLine = 5
    MaxArgs = 2
    Prompt <- PromptText
    Report <- ReportText
    EchoName <- EchoWord
    ClearName <- ClearWord
    ReportNames <- ReportWords
    RebootName <- RebootWord
SPECIFICATION Spec
INVARIANTS
    TypeOK
    BlankAhead
    TokensAreWords
PROPERTIES
    OnlyTheMarginConfuses
CHECK_DEADLOCK FALSE
