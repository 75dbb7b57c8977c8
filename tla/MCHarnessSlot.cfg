\* One slot, every kind of signal, deaths, failing trackers, worktrees and
\* merges: the bookkeeping and the statechart stay consistent.
SPECIFICATION Spec
CONSTANTS
    b1 = b1
    b2 = b2
    w1 = w1
    w2 = w2
    w3 = w3
    Bead <- OneBead
    Worker <- TwoWorkers
    State <- States
    Action <- ActionIds
    Actions <- ActionsOf
    ToolAction <- Tools
    FreshAction <- FreshOnes
    Transition <- Chain
    Session <- Sessions
    FirstSession = "A"
    NextSession <- SessionAfter
    Start = "Build"
    MaxSlots = 1
    MaxSignals = 1
    MaxMishaps = 2
    Kind = {"SUCCESS", "FAILURE", "REJECTED", "BLOCKED", "RESTART", "EXITED"}
    Fault = {"bd", "record", "worktree", "merge", "init", "death"}
INVARIANTS
    WorkIsTracked
    ClosedIsQuiet
PROPERTIES
    OnlySignalsMove
    PhaseSignalsMatch
SYMMETRY WorkerSymmetry
