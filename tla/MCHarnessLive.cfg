\* Under fairness and one mishap, killed workers included: slots of lost
\* workers come back, their beads are resumed, every state is left complete
\* and every bead is closed or blocked.
SPECIFICATION FairSpec
CONSTANTS
    b1 = b1
    b2 = b2
    w1 = w1
    w2 = w2
    w3 = w3
    Bead <- OneBead
    Worker <- TwoWorkers
    State <- States
    Action <- ActionIds
    Actions <- ActionsOf
    ToolAction <- Tools
    FreshAction <- FreshOnes
    Transition <- Chain
    Session <- Sessions
    FirstSession = "A"
    NextSession <- SessionAfter
    Start = "Build"
    MaxSlots = 1
    MaxSignals = 1
    MaxMishaps = 1
    Kind = {"SUCCESS"}
    Fault = {"death", "vanish", "stall", "worktree", "tmux", "spawn", "late"}
PROPERTIES
    StateLeftWhenDone
    EveryBeadSettles
    ResumesInProgress
    SlotsComeBack
