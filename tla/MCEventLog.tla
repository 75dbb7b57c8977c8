----------------------------- MODULE MCEventLog -----------------------------
(* EventLog over two states, one action and two coordinator sessions.      *)
EXTENDS EventLog

States == {"Planning", "Review"}
Actions == {"plan"}
Sessions == {"A", "B"}

Claims ==
    {[NoEvent EXCEPT !.type = "CLAIMED", !.state = s, !.session = k, !.restart = t # None, !.next = t] :
        s \in States, k \in Sessions, t \in {None, "Review"}}
Entries ==
    {[NoEvent EXCEPT !.type = ty, !.state = s, !.applies = ap] :
        ty \in {"RUN_INITIALIZED"}, s \in States, ap \in BOOLEAN}
Transitions ==
    {[NoEvent EXCEPT !.type = "TRANSITION_APPLIED", !.next = n, !.applies = ap,
                     !.success = su, !.action = "plan"] :
        n \in {"Review", "completed", "blocked"}, ap \in BOOLEAN, su \in BOOLEAN}
Restarts ==
    {[NoEvent EXCEPT !.type = "RESTART_REQUESTED", !.state = "Planning", !.next = n,
                     !.action = a, !.applies = ap] :
        n \in {None, "Planning", "Review"}, a \in {None, "plan"}, ap \in BOOLEAN}
Others ==
    {[NoEvent EXCEPT !.type = ty, !.state = s, !.action = a] :
        ty \in {"ACTION_COMPLETED", "SPAWNED", "WORKTREE_PROVISIONED", "WORKTREE_REMOVED",
                "CLOSED", "RELEASED"}, s \in {"Planning"}, a \in {"plan"}}
    \cup {[NoEvent EXCEPT !.type = "STATUS_UPDATED", !.state = s] : s \in {"ready", "blocked"}}

SampleEvents == Claims \cup Entries \cup Transitions \cup Restarts \cup Others
=============================================================================
