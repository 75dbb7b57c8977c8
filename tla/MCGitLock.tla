----------------------------- MODULE MCGitLock ------------------------------
(* GitLock on three calls, one retry fewer than would let them all wait.   *)
EXTENDS GitLock, TLC
CONSTANTS c1, c2, c3
Calls == {c1, c2, c3}
TwoCalls == {c1, c2}
CallSymmetry == Permutations(Calls)
=============================================================================
