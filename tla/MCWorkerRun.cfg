SPECIFICATION Spec
CONSTANTS
    c1 = c1
    c2 = c2
    i1 = i1
    Action <- TheActions
    Actions <- TheSequence
    FreshAction = {}
    ToolAction <- TheToolActions
    Tool <- TheTools
    ToolOf <- TheToolOf
    External = {"Test"}
    RequiredTool = {"Test"}
    RuleOf <- TheRules
    Item = {i1}
    GateItems <- Nothing
    StateItems <- Nothing
    ActionItems <- NoActionItems
    Outcome = {"SUCCESS"}
    Call = {c1, c2}
    RestartCompletes = TRUE
    Fault = {"log", "signal", "tool", "death", "agent"}
    MaxFaults = 1
    MaxSessions = 3
INVARIANTS
    TypeOK
    RunKnowsItems
    AddedIsEnforced
    EvidenceIsReal
    ChainIsAlive
PROPERTIES
    GateHolds
SYMMETRY CallSymmetry
CHECK_DEADLOCK FALSE
