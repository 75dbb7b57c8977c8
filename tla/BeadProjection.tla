--------------------------- MODULE BeadProjection ---------------------------
(***************************************************************************)
(* How the harness learns the state of a bead: EventStore folds the bead's *)
(* recorded events into a statechart projection (here: Chart) and into a   *)
(* metadata projection (Meta), lets the first override the second, and the *)
(* bd plugin combines the result with the issue of the Beads tracker.      *)
(*                                                                         *)
(* An undefined field is None.  Fields that no scheduling decision reads   *)
(* (handovers, transitions, checkpoints, merge details, timestamps) are    *)
(* left out; checklist items belong to the worker's side.                  *)
(***************************************************************************)
CONSTANTS
    State,      \* states of the configured statechart
    Action,     \* actions of those states
    Session     \* coordinator session ids

None == "none"
Terminal == {"completed", "failed", "blocked", "deferred"}
Status == State \cup Terminal \cup {"ready", "in_progress"}

EventType ==
    {"CLAIMED", "RUN_INITIALIZED", "ACTION_COMPLETED", "SPAWNED", "TRANSITION_APPLIED",
     "RESTART_REQUESTED", "WORKTREE_PROVISIONED", "WORKTREE_REMOVED",
     "STATUS_UPDATED", "CLOSED", "RELEASED"}

\* applies: the event's actionKey carries the configured workflow version, or
\* no version is configured.
Event == [type : EventType, applies : BOOLEAN, state : Status \cup {None},
          next : Status \cup {None}, action : Action \cup {None}, success : BOOLEAN,
          session : Session \cup {None}, restart : BOOLEAN]

NoEvent == [type |-> None, applies |-> TRUE, state |-> None, next |-> None,
            action |-> None, success |-> FALSE, session |-> None, restart |-> FALSE]

Chart == [currentState : Status \cup {None}, beadStatus : Status \cup {None},
          completed : SUBSET Action, restart : BOOLEAN,
          restartTarget : Status \cup {None}, owned : BOOLEAN,
          lease : Session \cup {None}, worktree : BOOLEAN]

NewChart == [currentState |-> None, beadStatus |-> None, completed |-> {},
             restart |-> FALSE, restartTarget |-> None, owned |-> FALSE,
             lease |-> None, worktree |-> FALSE]

Or(x, y) == IF x # None THEN x ELSE y          \* x || y

\* Mutant: an event without an action id completes it all the same.
CompletingAny(done, e) == IF e.applies THEN done \cup {e.action} ELSE done

Completing(done, e) == IF e.applies /\ e.action # None THEN done \cup {e.action} ELSE done

-----------------------------------------------------------------------------
(* One operator per case of projectBeadStateChartFromEvents.               *)

\* Mutant: a claim forgets a status recorded by bd_update_status.
ChartClaimedReopens(p, e) ==
    [p EXCEPT !.currentState = Or(e.state, @), !.beadStatus = None, !.owned = TRUE,
              !.lease = Or(e.session, @), !.restart = e.restart, !.restartTarget = e.next]

ChartClaimed(p, e) ==
    [p EXCEPT !.currentState = Or(e.state, @), !.owned = TRUE,
              !.lease = Or(e.session, @),
              !.restart = e.restart, !.restartTarget = e.next]

\* Mutant: initialising a run consumes the restart request.
ChartEnteredConsumes(p, e) ==
    [p EXCEPT !.currentState = IF e.applies THEN Or(e.state, @) ELSE @, !.restart = FALSE]

ChartEntered(p, e) == [p EXCEPT !.currentState = IF e.applies THEN Or(e.state, @) ELSE @]

ChartSpawned(p, e) == [p EXCEPT !.currentState = Or(e.state, @), !.worktree = TRUE]

\* Mutant: a transition leaves the restart request standing.
ChartTransitionKeepsRestart(p, e) ==
    [p EXCEPT !.currentState = IF e.applies THEN Or(e.next, @) ELSE @,
              !.completed = IF e.success THEN Completing(@, e) ELSE @]

\* The restart request is cleared even when the event is another workflow's.
ChartTransition(p, e) ==
    [p EXCEPT !.currentState = IF e.applies THEN Or(e.next, @) ELSE @,
              !.completed = IF e.success THEN Completing(@, e) ELSE @,
              !.restart = FALSE, !.restartTarget = None]

\* applyRestart, for CONTEXT_ and HARNESS_RESTART_REQUESTED.
ChartRestart(p, e) ==
    [p EXCEPT !.currentState = Or(e.next, @), !.completed = Completing(@, e),
              !.restart = TRUE, !.restartTarget = Or(e.next, e.state)]

\* Mutant: a closed bead keeps its lease.
ChartClosedKeepsLease(p, e) ==
    [p EXCEPT !.beadStatus = "completed", !.currentState = Or(@, "completed")]

ChartClosed(p, e) ==
    [p EXCEPT !.beadStatus = "completed", !.currentState = Or(@, "completed"),
              !.lease = None]

ChartApply(p, e) ==
    CASE e.type = "CLAIMED"              -> ChartClaimed(p, e)
      [] e.type = "RUN_INITIALIZED"      -> ChartEntered(p, e)
      [] e.type = "ACTION_COMPLETED"     -> [p EXCEPT !.completed = Completing(@, e)]
      [] e.type = "SPAWNED"              -> ChartSpawned(p, e)
      [] e.type = "TRANSITION_APPLIED"   -> ChartTransition(p, e)
      [] e.type = "RESTART_REQUESTED"    -> ChartRestart(p, e)
      [] e.type = "WORKTREE_PROVISIONED" -> [p EXCEPT !.worktree = TRUE]
      [] e.type = "WORKTREE_REMOVED"     -> [p EXCEPT !.worktree = FALSE]
      [] e.type = "STATUS_UPDATED"       -> [p EXCEPT !.beadStatus = Or(e.state, @)]
      [] e.type = "CLOSED"               -> ChartClosed(p, e)
      [] e.type = "RELEASED"             -> [p EXCEPT !.lease = None]
      [] OTHER                           -> p

-----------------------------------------------------------------------------
(* projectBeadFromEvents: the metadata layer, then the chart's overrides.  *)

Meta == [status : Status \cup {None}, completed : SUBSET Action, restart : BOOLEAN,
         restartTarget : Status \cup {None}, owned : BOOLEAN,
         lease : Session \cup {None}, worktree : BOOLEAN]

NewMeta == [status |-> None, completed |-> {}, restart |-> FALSE, restartTarget |-> None,
            owned |-> FALSE, lease |-> None, worktree |-> FALSE]

\* Object.assign copies no deleted key: an earlier restart target survives here.
MetaClaimed(m, e) ==
    [m EXCEPT !.status = Or(e.state, @), !.owned = TRUE, !.lease = Or(e.session, @),
              !.restart = e.restart, !.restartTarget = Or(e.next, @)]

MetaTransition(m, e) ==
    [m EXCEPT !.status = IF e.applies THEN Or(e.next, @) ELSE @,
              !.completed = IF e.success THEN Completing(@, e) ELSE @,
              !.restart = FALSE, !.restartTarget = None]

\* Unlike the chart, the metadata layer completes no action on a restart.
MetaRestart(m, e) ==
    [m EXCEPT !.status = Or(e.next, @), !.restart = TRUE,
              !.restartTarget = Or(e.next, e.state)]

MetaApply(m, e) ==
    CASE e.type = "CLAIMED"              -> MetaClaimed(m, e)
      [] e.type = "RUN_INITIALIZED"      -> [m EXCEPT !.status = IF e.applies THEN Or(e.state, @) ELSE @]
      [] e.type = "ACTION_COMPLETED"     -> [m EXCEPT !.completed = Completing(@, e)]
      [] e.type = "SPAWNED"              -> [m EXCEPT !.status = Or(e.state, @), !.worktree = TRUE]
      [] e.type = "TRANSITION_APPLIED"   -> MetaTransition(m, e)
      [] e.type = "RESTART_REQUESTED"    -> MetaRestart(m, e)
      [] e.type = "WORKTREE_PROVISIONED" -> [m EXCEPT !.worktree = TRUE]
      [] e.type = "WORKTREE_REMOVED"     -> [m EXCEPT !.worktree = FALSE]
      [] e.type = "STATUS_UPDATED"       -> [m EXCEPT !.status = Or(e.state, @)]
      [] e.type = "CLOSED"               -> [m EXCEPT !.status = "completed", !.lease = None]
      [] e.type = "RELEASED"             -> [m EXCEPT !.lease = None]
      [] OTHER                           -> m

\* The status a projected bead shows: the tracker-side status, once recorded,
\* hides the statechart's current state.
ChartStatus(p, otherwise) == Or(p.beadStatus, Or(p.currentState, otherwise))

Combined(p, m) ==
    [m EXCEPT !.status = ChartStatus(p, @), !.worktree = p.worktree \/ @,
              !.completed = IF p.completed # {} THEN p.completed ELSE @,
              !.owned = p.owned \/ @, !.lease = Or(p.lease, @),
              !.restart = p.restart, !.restartTarget = p.restartTarget]

-----------------------------------------------------------------------------
(* The bd plugin's statusFor and the flow manager's stateForBead.          *)

IssueStatus == {"open", "in_progress", "closed", "blocked"}

StatusOfIssue == [open |-> "ready", in_progress |-> "in_progress",
                  closed |-> "completed", blocked |-> "blocked"]

StatusFor(issue, p) == ChartStatus(p, StatusOfIssue[issue])

\* None stands for the exception stateForBead throws.
StateForBead(issue, p, start) ==
    IF p.restart /\ p.restartTarget \in State THEN p.restartTarget
    ELSE IF StatusFor(issue, p) \in State THEN StatusFor(issue, p)
    ELSE IF StatusFor(issue, p) = "ready" THEN start
    ELSE None
=============================================================================
