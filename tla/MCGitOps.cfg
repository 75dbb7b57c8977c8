SPECIFICATION OpsSpec
CONSTANTS
    create1 = create1
    again1 = again1
    merge1 = merge1
    remove1 = remove1
    create2 = create2
    b1 = b1
    b2 = b2
    Call <- Calls
    MaxRetries = 2
    Faults = {"fn", "crash"}
    Bead <- Beads
    Op <- OpOf
    On <- BeadOfCall
    After <- Follows
    Worked <- NoWorktree
    OpsFaults = {"conflict", "log", "files"}
INVARIANTS OpsTypeOK HonestMerge
PROPERTIES NoWorkLost CreatedIsWhole ConflictBlocks KeepsLockProtocol ActsAsOne
CHECK_DEADLOCK FALSE
