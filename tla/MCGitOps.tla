------------------------------ MODULE MCGitOps ------------------------------
(* The worktree of b1 is created, in a second call if the first came to    *)
(* nothing, merged and removed, while the worktree of b2 is created.       *)
EXTENDS GitOps

CONSTANTS create1, again1, merge1, remove1, create2, b1, b2

Calls == {create1, again1, merge1, remove1, create2}
Beads == {b1, b2}
OpOf == [c \in Calls |-> CASE c = merge1 -> "merge" [] c = remove1 -> "remove" [] OTHER -> "create"]
BeadOfCall == [c \in Calls |-> IF c = create2 THEN b2 ELSE b1]
Follows == [c \in Calls |-> CASE c = again1 -> create1 [] c = merge1 -> again1
                              [] c = remove1 -> merge1 [] OTHER -> NoCall]
NoWorktree == {}
=============================================================================
