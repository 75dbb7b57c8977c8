---------------------------- MODULE MCWorkerRun ----------------------------
(***************************************************************************)
(* A prompt between two tool actions that run Lint: the harness runs the   *)
(* first before the prompt, and hands out both to the agent in some runs.  *)
(* Test is a tool observed in Pi, required by the state, that may run only *)
(* after Lint has succeeded.  The one item is on no configured list.       *)
(***************************************************************************)
EXTENDS WorkerRun, TLC

CONSTANTS c1, c2, i1

TheSequence == <<"LintFirst", "Implement", "LintLast">>
TheActions == {"LintFirst", "Implement", "LintLast"}
TheToolActions == {"LintFirst", "LintLast"}
TheTools == {"Lint", "Test"}
TheToolOf == [LintFirst |-> "Lint", LintLast |-> "Lint"]
TheRules == [Lint |-> {}, Test |-> {<<"Lint", "SUCCEEDED">>}]
Nothing == [i \in {i1} |-> "absent"]
NoActionItems == [a \in TheActions |-> Nothing]
CallSymmetry == Permutations({c1, c2})
=============================================================================
