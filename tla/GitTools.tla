------------------------------ MODULE GitTools ------------------------------
(***************************************************************************)
(* What the git tools promise the poll step and the signal handlers, which *)
(* call them as if each were one operation (Harness models them so): a     *)
(* call takes effect at most once, and answers success only if it did.  A  *)
(* failure may hide an effect; a process may die without an answer.        *)
(***************************************************************************)
CONSTANTS Call, Bead, Op, On

VARIABLES
    effect,     \* effect[c]: call c has done its work, and did not answer failure
    answer,     \* answer[c]: none, success or failure
    worktree,   \* beads with a worktree directory
    target      \* beads merged into the target branch

vars == <<effect, answer, worktree, target>>

Init ==
    /\ effect = [c \in Call |-> FALSE] /\ answer = [c \in Call |-> "none"]
    /\ worktree \subseteq Bead /\ target = {}

Does(c) ==
    /\ worktree' = CASE Op[c] = "create" -> worktree \cup {On[c]}
                     [] Op[c] = "remove" -> worktree \ {On[c]}
                     [] Op[c] = "merge"  -> worktree
    /\ target' = IF Op[c] = "merge" THEN target \cup {On[c]} ELSE target

TakeEffect(c) ==
    /\ answer[c] = "none" /\ ~effect[c]
    /\ effect' = [effect EXCEPT ![c] = TRUE] /\ Does(c)

Work(c) == TakeEffect(c) /\ UNCHANGED answer

\* A call that finds its work done may answer in the same step.
Succeed(c) ==
    /\ answer[c] = "none" /\ answer' = [answer EXCEPT ![c] = "success"]
    /\ \/ TakeEffect(c)
       \/ effect[c] /\ UNCHANGED <<effect, worktree, target>>

\* After a failure the caller knows nothing of the effect.
Fail(c) ==
    /\ answer[c] = "none" /\ answer' = [answer EXCEPT ![c] = "failure"]
    /\ effect' = [effect EXCEPT ![c] = FALSE]
    /\ UNCHANGED <<worktree, target>>

\* Only a process that dies leaves half of a worktree behind.
LeaveHalf(c) ==
    /\ Op[c] = "create" /\ answer[c] = "none" /\ ~effect[c]
    /\ worktree' = worktree \cup {On[c]}
    /\ UNCHANGED <<effect, answer, target>>

Next == \E c \in Call : Work(c) \/ Succeed(c) \/ Fail(c) \/ LeaveHalf(c)

Spec == Init /\ [][Next]_vars
=============================================================================
