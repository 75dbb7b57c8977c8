\* Three calls race; callbacks, writes, records, unlinks and processes may
\* fail at any await.
SPECIFICATION FairSpec
CONSTANTS
    c1 = c1
    c2 = c2
    c3 = c3
    Call <- Calls
    MaxRetries = 2
    Faults = {"fn", "write", "record", "unlink", "crash"}
INVARIANTS LockHasOwner HonestOutcome
PROPERTIES EveryCallSettles StaleForever
CHECK_DEADLOCK FALSE
