\* A crash between the tracker's claim and the claim event leaves the bead in
\* progress for ever.
SPECIFICATION FairSpec
CONSTANTS
    b1 = b1
    b2 = b2
    w1 = w1
    w2 = w2
    w3 = w3
    Bead <- OneBead
    Worker <- TwoWorkers
    State <- ShortStates
    Action <- ShortIds
    Actions <- ShortActions
    ToolAction <- NoAction
    FreshAction <- FreshOnes
    Transition <- Short
    Session <- Sessions
    FirstSession = "A"
    NextSession <- SessionAfter
    Start = "Build"
    MaxSlots = 1
    MaxSignals = 1
    MaxMishaps = 1
    Kind = {"SUCCESS"}
    Fault = {"crash"}
PROPERTIES
    ResumesInProgress
