----------------------------- MODULE MCHarness ------------------------------
(* Harness on a statechart of two states and three actions.                *)
EXTENDS Harness, TLC

CONSTANTS b1, b2, w1, w2, w3

OneBead == {b1}
TwoBeads == {b1, b2}
OneWorker == {w1}
TwoWorkers == {w1, w2}
ThreeWorkers == {w1, w2, w3}
WorkerSymmetry == Permutations(TwoWorkers)
FullSymmetry == Permutations(TwoBeads) \cup Permutations(TwoWorkers)
FullSymmetry3 == Permutations(TwoBeads) \cup Permutations(ThreeWorkers)

States == {"Build", "Review"}
\* design and check are prompts, code wants a fresh context, lint is a tool.
ActionIds == {"design", "code", "lint", "check"}
ActionsOf == [s \in States |-> IF s = "Build" THEN <<"design", "code">> ELSE <<"lint", "check">>]
Tools == {"lint"}
FreshOnes == {"code"}

\* Build -> Review -> completed; a rejected review goes back to Build.
Chain ==
    [Build  |-> [SUCCESS |-> "Review", FAILURE |-> "Build", REJECTED |-> None,
                 BLOCKED |-> "blocked", RESTART |-> "Build", EXITED |-> None],
     Review |-> [SUCCESS |-> "completed", FAILURE |-> "Build", REJECTED |-> "Build",
                 BLOCKED |-> "blocked", RESTART |-> "Review", EXITED |-> None]]

\* A statechart of one state: Build -> completed.
Short == [Build |-> [SUCCESS |-> "completed", FAILURE |-> "Build", REJECTED |-> None,
                     BLOCKED |-> "blocked", RESTART |-> "Build", EXITED |-> None]]
ShortStates == {"Build"}
ShortIds == {"design", "code"}
NoAction == {}
ShortActions == [s \in ShortStates |-> <<"design", "code">>]

Sessions == {"A", "B"}
SessionAfter == [A |-> "B", B |-> None]
=============================================================================
