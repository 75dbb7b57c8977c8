\* Every log of at most three of forty-four events.
SPECIFICATION Spec
CONSTANTS
    State <- States
    Action <- Actions
    Session <- Sessions
    Sample <- SampleEvents
    MaxLog = 3
INVARIANTS TypeOK ReplayMatches LayersAgree
PROPERTIES HeldStatus RestartHeld
CHECK_DEADLOCK FALSE
