\* Two calls, no fault but a failing callback.
SPECIFICATION Spec
CONSTANTS
    c1 = c1
    c2 = c2
    c3 = c3
    Call <- TwoCalls
    MaxRetries = 2
    Faults = {"fn"}
INVARIANT MutualExclusion
CHECK_DEADLOCK FALSE
