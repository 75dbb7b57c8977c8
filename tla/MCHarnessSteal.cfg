\* A claim made from an old read of the bead records a state the bead has
\* left.
SPECIFICATION Spec
CONSTANTS
    b1 = b1
    b2 = b2
    w1 = w1
    w2 = w2
    w3 = w3
    Bead <- OneBead
    Worker <- TwoWorkers
    State <- States
    Action <- ActionIds
    Actions <- ActionsOf
    ToolAction <- Tools
    FreshAction <- FreshOnes
    Transition <- Chain
    Session <- Sessions
    FirstSession = "A"
    NextSession <- SessionAfter
    Start = "Build"
    MaxSlots = 2
    MaxSignals = 1
    MaxMishaps = 0
    Kind = {"SUCCESS"}
    Fault = {}
PROPERTIES
    ClaimIsFresh
SYMMETRY WorkerSymmetry
