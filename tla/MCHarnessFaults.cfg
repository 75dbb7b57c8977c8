\* A mishap of any kind, crashes and stops of the coordinator included, and
\* two SUCCESS signals per worker, some with one idempotency key: types hold,
\* and one handler runs per key.
SPECIFICATION Spec
CONSTANTS
    b1 = b1
    b2 = b2
    w1 = w1
    w2 = w2
    w3 = w3
    Bead <- OneBead
    Worker <- OneWorker
    State <- States
    Action <- ActionIds
    Actions <- ActionsOf
    ToolAction <- Tools
    FreshAction <- FreshOnes
    Transition <- Chain
    Session <- Sessions
    FirstSession = "A"
    NextSession <- SessionAfter
    Start = "Build"
    MaxSlots = 1
    MaxSignals = 2
    MaxMishaps = 1
    Kind = {"SUCCESS"}
    Fault = {"bd", "record", "worktree", "merge", "spawn", "tmux", "init", "tool", "stop", "crash", "death", "vanish", "stall", "late"}
INVARIANTS
    TypeOK
    OneHandlerPerKey
