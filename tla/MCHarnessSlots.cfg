\* Two slots, two beads and three workers, one death or failing tracker,
\* leases that expire at any time: never more panes than slots, no bead with
\* two workers, and no closed bead is reopened by a stale scan.
SPECIFICATION Spec
CONSTANTS
    b1 = b1
    b2 = b2
    w1 = w1
    w2 = w2
    w3 = w3
    Bead <- TwoBeads
    Worker <- ThreeWorkers
    State <- ShortStates
    Action <- ShortIds
    Actions <- ShortActions
    ToolAction <- NoAction
    FreshAction <- FreshOnes
    Transition <- Short
    Session <- Sessions
    FirstSession = "A"
    NextSession <- SessionAfter
    Start = "Build"
    MaxSlots = 2
    MaxSignals = 1
    MaxMishaps = 1
    Kind = {"SUCCESS"}
    Fault = {"bd", "record", "death"}
INVARIANTS
    SlotBound
    OneWorkerPerBead
PROPERTIES
    ClosedStaysClosed
SYMMETRY FullSymmetry3
