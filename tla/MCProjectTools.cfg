SPECIFICATION FairSpec
CONSTANTS
    c1 = c1
    c2 = c2
    c3 = c3
    lint = lint
    docs = docs
    Call <- Calls
    Tool <- Tools
    ToolOf <- ToolOfCall
    Mcp <- JustDocs
    Optional <- JustDocs
    Lenient <- JustLint
    Sequenced <- Action1
    Stubborn <- Second
    Faults = {"log", "files", "death"}
    MaxFaults = 2
INVARIANTS TypeOK SuccessIsBacked EvidenceIsBacked NothingLeftOpen
PROPERTIES EveryCallEnds
CHECK_DEADLOCK FALSE
