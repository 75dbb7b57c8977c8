-------------------------- MODULE ProjectionLemmas --------------------------
(* Facts about the operators of BeadProjection that the proofs about the    *)
(* event log and about the coordinator share.                               *)
EXTENDS BeadProjection, TLAPS

\* Completing an action adds at most the event's own.
LEMMA CompletingTyped ==
    ASSUME NEW done \in SUBSET Action, NEW e \in Event
    PROVE  Completing(done, e) \in SUBSET Action
BY DEF Completing, Event

\* A projection of the statechart layer stays one under every event.
LEMMA ChartTyped ==
    ASSUME NEW p \in Chart, NEW e \in Event PROVE ChartApply(p, e) \in Chart
<1>1. /\ Completing(p.completed, e) \in SUBSET Action
      /\ Or(e.state, p.currentState) \in Status \cup {None}
      /\ Or(e.next, p.currentState) \in Status \cup {None}
      /\ Or(e.next, e.state) \in Status \cup {None}
      /\ Or(e.state, p.beadStatus) \in Status \cup {None}
      /\ Or(p.currentState, "completed") \in Status \cup {None}
      /\ Or(e.session, p.lease) \in Session \cup {None}
  BY CompletingTyped DEF Chart, Event, Or, Status, Terminal
<1>2. /\ p.completed \in SUBSET Action
      /\ p.currentState \in Status \cup {None}
      /\ e.next \in Status \cup {None}
      /\ e.restart \in BOOLEAN
      /\ "completed" \in Status
  BY DEF Chart, Event, Status, Terminal
<1>3. ChartClaimed(p, e) \in Chart
  BY <1>1, <1>2 DEF ChartClaimed, Chart
<1>4. ChartEntered(p, e) \in Chart /\ ChartSpawned(p, e) \in Chart /\ ChartClosed(p, e) \in Chart
  BY <1>1, <1>2 DEF ChartEntered, ChartSpawned, ChartClosed, Chart
<1>5. ChartTransition(p, e) \in Chart
  BY <1>1, <1>2 DEF ChartTransition, Chart
<1>6. ChartRestart(p, e) \in Chart
  BY <1>1, <1>2 DEF ChartRestart, Chart
<1>7. CASE e.type \in {"ACTION_COMPLETED", "WORKTREE_PROVISIONED", "WORKTREE_REMOVED",
                       "STATUS_UPDATED", "RELEASED"}
  BY <1>1, <1>2, <1>7 DEF ChartApply, Chart
<1>8. CASE e.type \in {"CLAIMED", "RUN_INITIALIZED", "SPAWNED", "TRANSITION_APPLIED",
                       "RESTART_REQUESTED", "CLOSED"}
  BY <1>3, <1>4, <1>5, <1>6, <1>8 DEF ChartApply
<1> QED
  BY <1>7, <1>8 DEF Event, EventType

\* The state stateForBead finds is one of the statechart, or it throws.
LEMMA StateTyped ==
    ASSUME NEW p \in Chart, NEW issue \in IssueStatus, NEW start \in State
    PROVE  StateForBead(issue, p, start) \in State \cup {None}
BY DEF StateForBead
=============================================================================
