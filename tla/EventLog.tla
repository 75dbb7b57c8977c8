------------------------------ MODULE EventLog ------------------------------
(***************************************************************************)
(* The event log of one bead, growing by one recorded event at a time, and *)
(* the two projections EventStore computes from it.  The folds of          *)
(* BeadProjection are kept up to date step by step and compared with       *)
(* definitions that read the whole log at once.                            *)
(***************************************************************************)
EXTENDS BeadProjection, Naturals, Sequences

CONSTANTS
    Sample,     \* the events that may be recorded
    MaxLog      \* bound on the length of the log

ASSUME SampleAssumption == Sample \subseteq Event

VARIABLES log, chart, meta

vars == <<log, chart, meta>>

Init == log = <<>> /\ chart = NewChart /\ meta = NewMeta

\* EventStore.record by any process that shares the log.
Record(e) ==
    /\ Len(log) < MaxLog
    /\ log' = Append(log, e)
    /\ chart' = ChartApply(chart, e)
    /\ meta' = MetaApply(meta, e)

Next == \E e \in Sample : Record(e)

Spec == Init /\ [][Next]_vars

-----------------------------------------------------------------------------
TypeOK == chart \in Chart /\ meta \in Meta

(* What the log says, read as a whole.                                     *)
StateSetBy(e) ==
    CASE e.type \in {"CLAIMED", "SPAWNED"}  -> e.state
      [] e.type = "RUN_INITIALIZED"         -> IF e.applies THEN e.state ELSE None
      [] e.type = "TRANSITION_APPLIED"      -> IF e.applies THEN e.next ELSE None
      [] e.type = "RESTART_REQUESTED"       -> e.next
      [] OTHER                              -> None

Types(ts) == {i \in DOMAIN log : log[i].type \in ts}
Latest(I) == CHOOSE i \in I : \A j \in I : j <= i
At(I, value(_), otherwise) == IF I = {} THEN otherwise ELSE value(log[Latest(I)])

LoggedState ==
    LET setters == {i \in DOMAIN log : StateSetBy(log[i]) # None}
    IN  At(setters, StateSetBy, IF Types({"CLOSED"}) # {} THEN "completed" ELSE None)

LoggedLease ==
    LET session(e) == IF e.type = "CLAIMED" THEN e.session ELSE None
    IN  At(Types({"CLAIMED", "CLOSED", "RELEASED"}), session, None)

LoggedRestart ==
    LET pending(e) == e.type = "RESTART_REQUESTED" \/ (e.type = "CLAIMED" /\ e.restart)
    IN  At(Types({"CLAIMED", "TRANSITION_APPLIED", "RESTART_REQUESTED"}), pending, FALSE)

LoggedCompleted ==
    {log[i].action : i \in {j \in DOMAIN log :
        /\ log[j].applies
        /\ \/ log[j].type \in {"ACTION_COMPLETED", "RESTART_REQUESTED"}
           \/ log[j].type = "TRANSITION_APPLIED" /\ log[j].success}} \ {None}

\* The incremental projection is the replay of the log: current state, lease,
\* pending restart and completed actions are those of the latest events that
\* say something about them (EventStore.projectBeadStateChartFromEvents).
ReplayMatches ==
    /\ chart.currentState = LoggedState
    /\ chart.lease = LoggedLease
    /\ chart.restart = LoggedRestart
    /\ chart.completed = LoggedCompleted

\* The two layers agree wherever a scheduling decision may read either, so
\* that it does not matter which one overrides the other.  They differ only in
\* the restart target left by a claim and in actions a restart "completes".
LayersAgree ==
    /\ meta.lease = chart.lease
    /\ meta.owned = chart.owned
    /\ meta.worktree = chart.worktree
    /\ meta.restart = chart.restart
    /\ chart.restart => meta.restartTarget = chart.restartTarget
    /\ chart.beadStatus = None => meta.status = chart.currentState
    /\ meta.completed \subseteq chart.completed

\* A status recorded by bd_update_status or bd close hides the statechart: no
\* claim, transition or restart changes the projected status any more, until
\* the next status update.
HeldStatus ==
    [][chart.beadStatus # None /\ log'[Len(log')].type \notin {"STATUS_UPDATED", "CLOSED"}
        => Combined(chart, meta)'.status = Combined(chart, meta).status]_vars

\* A requested restart decides the state of the next assignment: releases,
\* worktree events, run initialisations, spawns and status updates in between
\* do not redirect it; only a new claim, restart or transition does.
RestartHeld ==
    [][chart.restart /\ chart.restartTarget \in State
       /\ log'[Len(log')].type \notin {"CLAIMED", "TRANSITION_APPLIED", "RESTART_REQUESTED"}
        => \A issue \in IssueStatus, s \in State :
              StateForBead(issue, chart', s) = StateForBead(issue, chart, s)]_vars
=============================================================================
