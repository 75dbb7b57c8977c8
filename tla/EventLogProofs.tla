--------------------------- MODULE EventLogProofs ---------------------------
(* Proofs about the projections of a bead's event log, for every statechart *)
(* and every set of events that may be recorded.                            *)
EXTENDS EventLog, ProjectionLemmas, TLAPS

\* A projection of the metadata layer stays one under every event.
LEMMA MetaTyped ==
    ASSUME NEW m \in Meta, NEW e \in Event PROVE MetaApply(m, e) \in Meta
<1> USE DEF Meta, Event, Status, Terminal, Or
<1>0. Completing(m.completed, e) \in SUBSET Action
  BY CompletingTyped
<1>1. CASE e.type = "CLAIMED"
  BY <1>1 DEF MetaApply, MetaClaimed
<1>2. CASE e.type = "RUN_INITIALIZED"
  BY <1>2 DEF MetaApply
<1>8. CASE e.type = "ACTION_COMPLETED"
  BY <1>0, <1>8 DEF MetaApply
<1>9. CASE e.type = "SPAWNED"
  BY <1>9 DEF MetaApply
<1>3. CASE e.type = "TRANSITION_APPLIED"
  BY <1>0, <1>3 DEF MetaApply, MetaTransition
<1>4. CASE e.type = "RESTART_REQUESTED"
  BY <1>4 DEF MetaApply, MetaRestart
<1>5. CASE e.type \in {"WORKTREE_PROVISIONED", "WORKTREE_REMOVED"}
  BY <1>5 DEF MetaApply
<1>6. CASE e.type = "STATUS_UPDATED"
  BY <1>6 DEF MetaApply
<1>7. CASE e.type \in {"CLOSED", "RELEASED"}
  BY <1>7 DEF MetaApply
<1> QED
  BY <1>1, <1>2, <1>3, <1>4, <1>5, <1>6, <1>7, <1>8, <1>9 DEF EventType

\* The log is a log of events, and both projections have their types.
Typed == TypeOK /\ log \in Seq(Event)

\* Only bd_update_status and bd close touch the recorded status.
LEMMA StatusKept ==
    ASSUME NEW p \in Chart, NEW e \in Event, e.type \notin {"STATUS_UPDATED", "CLOSED"}
    PROVE  ChartApply(p, e).beadStatus = p.beadStatus
<1> USE DEF Chart
<1>1. CASE e.type \in {"CLAIMED", "RUN_INITIALIZED", "ACTION_COMPLETED"}
  BY <1>1 DEF ChartApply, ChartClaimed, ChartEntered
<1>2. CASE e.type \in {"SPAWNED", "TRANSITION_APPLIED", "RESTART_REQUESTED"}
  BY <1>2 DEF ChartApply, ChartSpawned, ChartTransition, ChartRestart
<1>3. CASE e.type \in {"WORKTREE_PROVISIONED", "WORKTREE_REMOVED", "RELEASED"}
  BY <1>3 DEF ChartApply
<1> QED
  BY <1>1, <1>2, <1>3 DEF Event, EventType

\* Only claims, transitions and restarts touch a restart request.
LEMMA RequestKept ==
    ASSUME NEW p \in Chart, NEW e \in Event,
           e.type \notin {"CLAIMED", "TRANSITION_APPLIED", "RESTART_REQUESTED"}
    PROVE  /\ ChartApply(p, e).restart = p.restart
           /\ ChartApply(p, e).restartTarget = p.restartTarget
<1> USE DEF Chart
<1>1. CASE e.type \in {"RUN_INITIALIZED", "ACTION_COMPLETED", "SPAWNED", "CLOSED"}
  BY <1>1 DEF ChartApply, ChartEntered, ChartSpawned, ChartClosed
<1>2. CASE e.type \in {"WORKTREE_PROVISIONED", "WORKTREE_REMOVED", "STATUS_UPDATED", "RELEASED"}
  BY <1>2 DEF ChartApply
<1> QED
  BY <1>1, <1>2 DEF Event, EventType

\* The event a step records is the last of the log.
LEMMA LastRecorded ==
    ASSUME Typed, NEW e \in Sample, Record(e)
    PROVE  /\ e \in Event /\ log' \in Seq(Event) /\ log'[Len(log')] = e
           /\ chart' = ChartApply(chart, e)
BY SampleAssumption DEF Record, Typed

\* Every recorded event keeps the log and both layers typed.
LEMMA TypedAlways == Spec => []Typed
<1>1. Init => Typed
  BY DEF Init, Typed, TypeOK, NewChart, NewMeta, Chart, Meta
<1>2. Typed /\ [Next]_vars => Typed'
  <2> SUFFICES ASSUME Typed, [Next]_vars PROVE Typed'
    OBVIOUS
  <2>1. CASE UNCHANGED vars
    BY <2>1 DEF vars, Typed, TypeOK
  <2>2. ASSUME NEW e \in Sample, Record(e) PROVE Typed'
    BY <2>2, LastRecorded, ChartTyped, MetaTyped DEF Typed, TypeOK, Record
  <2> QED
    BY <2>1, <2>2 DEF Next
<1> QED
  BY <1>1, <1>2, PTL DEF Spec

\* Type correctness of both layers of the projection.
THEOREM TypeCorrect == Spec => []TypeOK
<1>1. Typed => TypeOK
  BY DEF Typed
<1> QED
  BY <1>1, TypedAlways, PTL

\* Whatever is recorded, a status set by bd_update_status or bd close hides the
\* statechart until the next such event.
THEOREM StatusHeld == Spec => HeldStatus
<1>1. ASSUME Typed, [Next]_vars
      PROVE  [chart.beadStatus # None /\ log'[Len(log')].type \notin {"STATUS_UPDATED", "CLOSED"}
                => Combined(chart, meta)'.status = Combined(chart, meta).status]_vars
  <2>1. ASSUME NEW e \in Sample, Record(e), chart.beadStatus # None,
               log'[Len(log')].type \notin {"STATUS_UPDATED", "CLOSED"}
        PROVE  Combined(chart, meta)'.status = Combined(chart, meta).status
    <3>1. chart'.beadStatus = chart.beadStatus /\ meta \in Meta /\ meta' \in Meta
      BY <1>1, <2>1, LastRecorded, StatusKept, MetaTyped DEF Typed, TypeOK, Record
    <3> QED
      BY <2>1, <3>1 DEF Combined, ChartStatus, Or, Meta
  <2> QED
    BY <1>1, <2>1 DEF Next, vars
<1> QED
  BY <1>1, TypedAlways, PTL DEF Spec, HeldStatus

\* A pending restart request decides where the next worker starts, whatever is
\* recorded before the next claim, transition or restart.
THEOREM RestartDecides == Spec => RestartHeld
<1>1. ASSUME Typed, [Next]_vars
      PROVE  [chart.restart /\ chart.restartTarget \in State
              /\ log'[Len(log')].type \notin {"CLAIMED", "TRANSITION_APPLIED", "RESTART_REQUESTED"}
                => \A issue \in IssueStatus, s \in State :
                      StateForBead(issue, chart', s) = StateForBead(issue, chart, s)]_vars
  <2>1. ASSUME NEW e \in Sample, Record(e), chart.restart, chart.restartTarget \in State,
               log'[Len(log')].type
                 \notin {"CLAIMED", "TRANSITION_APPLIED", "RESTART_REQUESTED"},
               NEW issue \in IssueStatus, NEW s \in State
        PROVE  StateForBead(issue, chart', s) = StateForBead(issue, chart, s)
    <3>1. chart'.restart = chart.restart /\ chart'.restartTarget = chart.restartTarget
      BY <1>1, <2>1, LastRecorded, RequestKept DEF Typed, TypeOK
    <3> QED
      BY <2>1, <3>1 DEF StateForBead
  <2> QED
    BY <1>1, <2>1 DEF Next, vars
<1> QED
  BY <1>1, TypedAlways, PTL DEF Spec, RestartHeld

-----------------------------------------------------------------------------
(* The layers agree.                                                       *)

\* bd_claim records the restart request it read together with its target.
ClaimsNameTarget == \A e \in Sample : e.type = "CLAIMED" /\ e.restart => e.next # None

\* LayersAgree, of any two projections.
Agree(p, m) ==
    /\ m.lease = p.lease /\ m.owned = p.owned /\ m.worktree = p.worktree
    /\ m.restart = p.restart /\ (p.restart => m.restartTarget = p.restartTarget)
    /\ p.beadStatus = None => m.status = p.currentState
    /\ m.completed \subseteq p.completed

\* One event keeps the layers in agreement.
LEMMA LayersStep ==
    ASSUME NEW p \in Chart, NEW m \in Meta, NEW e \in Event,
           e.type = "CLAIMED" /\ e.restart => e.next # None, Agree(p, m)
    PROVE  Agree(ChartApply(p, e), MetaApply(m, e))
<1>0. e.type \in EventType
  BY DEF Event
<1> USE DEF Chart, Meta, Or, Event, Agree
<1>1. CASE e.type = "CLAIMED"
  BY <1>1 DEF ChartApply, MetaApply, ChartClaimed, MetaClaimed
<1>2. CASE e.type = "RUN_INITIALIZED"
  BY <1>2 DEF ChartApply, MetaApply, ChartEntered
<1>3. CASE e.type = "ACTION_COMPLETED"
  BY <1>3 DEF ChartApply, MetaApply, Completing
<1>4. CASE e.type = "SPAWNED"
  BY <1>4 DEF ChartApply, MetaApply, ChartSpawned
<1>5. CASE e.type = "TRANSITION_APPLIED"
  BY <1>5 DEF ChartApply, MetaApply, ChartTransition, MetaTransition, Completing
<1>6. CASE e.type = "RESTART_REQUESTED"
  BY <1>6 DEF ChartApply, MetaApply, ChartRestart, MetaRestart, Completing
<1>7. CASE e.type \in {"WORKTREE_PROVISIONED", "WORKTREE_REMOVED", "RELEASED"}
  BY <1>7 DEF ChartApply, MetaApply
<1>8. CASE e.type = "STATUS_UPDATED"
  BY <1>8 DEF ChartApply, MetaApply
<1>9. CASE e.type = "CLOSED"
  BY <1>9 DEF ChartApply, MetaApply, ChartClosed, None
<1> HIDE DEF Chart, Meta, Or, Event, Agree
<1> QED
  BY <1>0, <1>1, <1>2, <1>3, <1>4, <1>5, <1>6, <1>7, <1>8, <1>9 DEF EventType

\* In every log the layers agree wherever a decision may read either, so it does
\* not matter which one overrides the other.
THEOREM LayersAlwaysAgree == ASSUME ClaimsNameTarget PROVE Spec => []LayersAgree
<1>1. Init => LayersAgree
  BY DEF Init, LayersAgree, NewChart, NewMeta
<1>2. Typed /\ LayersAgree /\ [Next]_vars => LayersAgree'
  <2> SUFFICES ASSUME Typed, LayersAgree, [Next]_vars PROVE LayersAgree'
    OBVIOUS
  <2>1. CASE UNCHANGED vars
    BY <2>1 DEF vars, LayersAgree
  <2>2. ASSUME NEW e \in Sample, Record(e) PROVE LayersAgree'
    <3>1. chart \in Chart /\ meta \in Meta /\ e \in Event
      BY <2>2, SampleAssumption DEF Typed, TypeOK
    <3>2. e.type = "CLAIMED" /\ e.restart => e.next # None
      BY ClaimsNameTarget DEF ClaimsNameTarget
    <3> QED
      BY <2>2, <3>1, <3>2, LayersStep DEF LayersAgree, Record, Agree
  <2> QED
    BY <2>1, <2>2 DEF Next
<1> QED
  BY <1>1, <1>2, TypedAlways, PTL DEF Spec

-----------------------------------------------------------------------------
(* The projection is the replay of the log.                                *)

\* Every set of positions has a latest one.  It is part of the invariant, for it
\* grows with the log and needs no induction that way.
HasLatest == \A I \in SUBSET DOMAIN log : I # {} => \E i \in I : \A j \in I : j <= i

LEMMA LatestIn ==
    ASSUME Typed, HasLatest, NEW I \in SUBSET DOMAIN log, I # {} PROVE Latest(I) \in I
BY DEF HasLatest, Latest

LEMMA LatestNew ==
    ASSUME NEW n \in Nat, NEW I \in SUBSET (1 .. n) PROVE Latest(I \cup {n + 1}) = n + 1
<1> DEFINE L(i) == i \in I \cup {n + 1} /\ \A j \in I \cup {n + 1} : j <= i
<1>1. L(n + 1)
  OBVIOUS
<1>2. ASSUME NEW i, L(i) PROVE i = n + 1
  BY <1>2
<1> QED
  BY <1>1, <1>2 DEF Latest

\* What a record does to the log.
LEMMA LogGrows ==
    ASSUME Typed, NEW e \in Sample, Record(e)
    PROVE  LET n == Len(log)
           IN  /\ n \in Nat /\ DOMAIN log = 1 .. n /\ DOMAIN log' = (1 .. n) \cup {n + 1}
               /\ \A i \in 1 .. n : log'[i] = log[i]
               /\ log'[n + 1] = e /\ e \in Event
BY SampleAssumption DEF Record, Typed

LEMMA LatestStep ==
    ASSUME Typed, HasLatest, NEW e \in Sample, Record(e) PROVE HasLatest'
<1> DEFINE n == Len(log)
<1>1. n \in Nat /\ DOMAIN log = 1 .. n /\ DOMAIN log' = (1 .. n) \cup {n + 1}
  BY LogGrows
<1> SUFFICES ASSUME NEW I \in SUBSET DOMAIN log', I # {}
             PROVE  \E i \in I : \A j \in I : j <= i
  BY DEF HasLatest
<1>2. CASE n + 1 \in I
  BY <1>1, <1>2
<1>3. CASE n + 1 \notin I
  BY <1>1, <1>3 DEF HasLatest
<1> QED
  BY <1>2, <1>3

\* The events that say something, before and after a record.
LEMMA TypesGrow ==
    ASSUME Typed, NEW e \in Sample, Record(e), NEW ts
    PROVE  Types(ts)' = IF e.type \in ts THEN Types(ts) \cup {Len(log) + 1} ELSE Types(ts)
BY LogGrows DEF Types

Setters == {i \in DOMAIN log : StateSetBy(log[i]) # None}

LEMMA SettersGrow ==
    ASSUME Typed, NEW e \in Sample, Record(e)
    PROVE  Setters' = IF StateSetBy(e) # None THEN Setters \cup {Len(log) + 1} ELSE Setters
BY LogGrows DEF Setters

\* What one event says, in the terms the log is read with.
LEMMA StateSaid ==
    ASSUME NEW p \in Chart, NEW e \in Event
    PROVE  ChartApply(p, e).currentState =
             IF StateSetBy(e) # None THEN StateSetBy(e)
             ELSE IF e.type = "CLOSED" THEN Or(p.currentState, "completed") ELSE p.currentState
<1> USE DEF Chart, Or
<1>1. CASE e.type \in {"CLAIMED", "RUN_INITIALIZED", "SPAWNED"}
  BY <1>1 DEF ChartApply, ChartClaimed, ChartEntered, ChartSpawned, StateSetBy
<1>2. CASE e.type \in {"TRANSITION_APPLIED", "RESTART_REQUESTED", "CLOSED"}
  BY <1>2 DEF ChartApply, ChartTransition, ChartRestart, ChartClosed, StateSetBy, None
<1>3. CASE e.type \in {"ACTION_COMPLETED", "WORKTREE_PROVISIONED", "WORKTREE_REMOVED",
                       "STATUS_UPDATED", "RELEASED"}
  BY <1>3 DEF ChartApply, StateSetBy
<1> QED
  BY <1>1, <1>2, <1>3 DEF Event, EventType

LEMMA StateStep ==
    ASSUME Typed, HasLatest, NEW e \in Sample, Record(e), chart.currentState = LoggedState
    PROVE  chart'.currentState = LoggedState'
<1> DEFINE n == Len(log)
           said == StateSetBy(e)
           kept == IF Types({"CLOSED"}) # {} THEN "completed" ELSE None
<1>1. /\ n \in Nat /\ DOMAIN log = 1 .. n /\ log'[n + 1] = e /\ e \in Event
      /\ \A i \in 1 .. n : log'[i] = log[i]
  BY LogGrows
<1>2. Setters \subseteq 1 .. n
  BY <1>1 DEF Setters
<1>3. LoggedState = IF Setters = {} THEN kept ELSE StateSetBy(log[Latest(Setters)])
  BY DEF LoggedState, At, Setters
<1>4. LoggedState' = IF Setters' = {} THEN kept' ELSE StateSetBy(log'[Latest(Setters')])
  BY DEF LoggedState, At, Setters
<1>5. chart'.currentState = IF said # None THEN said
                            ELSE IF e.type = "CLOSED" THEN Or(chart.currentState, "completed")
                            ELSE chart.currentState
  BY <1>1, StateSaid DEF Typed, TypeOK, Record
<1>6. CASE said # None
  <2>1. Setters' = Setters \cup {n + 1} /\ Latest(Setters') = n + 1
    BY <1>1, <1>2, <1>6, SettersGrow, LatestNew
  <2> QED
    BY <1>1, <1>4, <1>5, <1>6, <2>1
<1>7. CASE said = None /\ Setters # {}
  <2>1. Setters' = Setters
    BY <1>7, SettersGrow
  <2>2. Latest(Setters) \in Setters
    BY <1>1, <1>2, <1>7, LatestIn
  <2>3. LoggedState' = LoggedState /\ LoggedState # None
    BY <1>1, <1>2, <1>3, <1>4, <1>7, <2>1, <2>2 DEF Setters
  <2> QED
    BY <1>5, <1>7, <2>3 DEF Or
<1>8. CASE said = None /\ Setters = {}
  <2>1. Setters' = {}
    BY <1>8, SettersGrow
  <2>2. kept' = IF e.type = "CLOSED" THEN "completed" ELSE kept
    BY TypesGrow
  <2> QED
    BY <1>3, <1>4, <1>5, <1>8, <2>1, <2>2 DEF Or, None
<1> QED
  BY <1>6, <1>7, <1>8

\* bd_claim always records a lease: its owner falls back to 'agent'.
ClaimsLease == \A e \in Sample : e.type = "CLAIMED" => e.session # None

LEMMA LeaseSaid ==
    ASSUME NEW p \in Chart, NEW e \in Event, e.type = "CLAIMED" => e.session # None
    PROVE  ChartApply(p, e).lease = IF e.type = "CLAIMED" THEN e.session
                                    ELSE IF e.type \in {"CLOSED", "RELEASED"} THEN None
                                    ELSE p.lease
<1> USE DEF Chart, Or
<1>1. CASE e.type \in {"CLAIMED", "CLOSED", "RELEASED"}
  BY <1>1 DEF ChartApply, ChartClaimed, ChartClosed
<1>2. CASE e.type \in {"RUN_INITIALIZED", "ACTION_COMPLETED", "SPAWNED", "TRANSITION_APPLIED",
                       "RESTART_REQUESTED"}
  BY <1>2 DEF ChartApply, ChartEntered, ChartSpawned, ChartTransition, ChartRestart
<1>3. CASE e.type \in {"WORKTREE_PROVISIONED", "WORKTREE_REMOVED", "STATUS_UPDATED"}
  BY <1>3 DEF ChartApply
<1> QED
  BY <1>1, <1>2, <1>3 DEF Event, EventType

Leases == {"CLAIMED", "CLOSED", "RELEASED"}

LEMMA LeaseStep ==
    ASSUME ClaimsLease, Typed, HasLatest, NEW e \in Sample, Record(e),
           chart.lease = LoggedLease
    PROVE  chart'.lease = LoggedLease'
<1> DEFINE n == Len(log)
           I == Types(Leases)
           Held(x) == IF x.type = "CLAIMED" THEN x.session ELSE None
<1>1. /\ n \in Nat /\ DOMAIN log = 1 .. n /\ log'[n + 1] = e /\ e \in Event
      /\ \A i \in 1 .. n : log'[i] = log[i]
  BY LogGrows
<1>2. I \subseteq 1 .. n
  BY <1>1 DEF Types
<1>3. LoggedLease = IF I = {} THEN None ELSE Held(log[Latest(I)])
  BY DEF LoggedLease, At, Leases
<1>4. LoggedLease' = IF I' = {} THEN None ELSE Held(log'[Latest(I')])
  BY DEF LoggedLease, At, Leases
<1>5. chart'.lease = IF e.type \in Leases THEN Held(e) ELSE chart.lease
  BY <1>1, LeaseSaid DEF Typed, TypeOK, Record, ClaimsLease, Leases
<1>6. CASE e.type \in Leases
  <2>1. I' = I \cup {n + 1} /\ Latest(I') = n + 1
    BY <1>1, <1>2, <1>6, TypesGrow, LatestNew
  <2> QED
    BY <1>1, <1>4, <1>5, <1>6, <2>1
<1>7. CASE e.type \notin Leases
  <2>1. I' = I
    BY <1>7, TypesGrow
  <2>2. I # {} => Latest(I) \in I
    BY <1>1, <1>2, LatestIn
  <2> QED
    BY <1>1, <1>2, <1>3, <1>4, <1>5, <1>7, <2>1, <2>2
<1> QED
  BY <1>6, <1>7

LEMMA RestartSaid ==
    ASSUME NEW p \in Chart, NEW e \in Event
    PROVE  ChartApply(p, e).restart =
             IF e.type \in {"CLAIMED", "TRANSITION_APPLIED", "RESTART_REQUESTED"}
             THEN e.type = "RESTART_REQUESTED" \/ (e.type = "CLAIMED" /\ e.restart)
             ELSE p.restart
<1>1. CASE e.type \in {"CLAIMED", "TRANSITION_APPLIED", "RESTART_REQUESTED"}
  BY <1>1 DEF ChartApply, ChartClaimed, ChartTransition, ChartRestart, Chart, Event
<1>2. CASE e.type \notin {"CLAIMED", "TRANSITION_APPLIED", "RESTART_REQUESTED"}
  BY <1>2, RequestKept
<1> QED
  BY <1>1, <1>2

Requests == {"CLAIMED", "TRANSITION_APPLIED", "RESTART_REQUESTED"}

LEMMA RestartStep ==
    ASSUME Typed, HasLatest, NEW e \in Sample, Record(e), chart.restart = LoggedRestart
    PROVE  chart'.restart = LoggedRestart'
<1> DEFINE n == Len(log)
           I == Types(Requests)
           Asks(x) == x.type = "RESTART_REQUESTED" \/ (x.type = "CLAIMED" /\ x.restart)
<1>1. /\ n \in Nat /\ DOMAIN log = 1 .. n /\ log'[n + 1] = e /\ e \in Event
      /\ \A i \in 1 .. n : log'[i] = log[i]
  BY LogGrows
<1>2. I \subseteq 1 .. n
  BY <1>1 DEF Types
<1>3. LoggedRestart = IF I = {} THEN FALSE ELSE Asks(log[Latest(I)])
  BY DEF LoggedRestart, At, Requests
<1>4. LoggedRestart' = IF I' = {} THEN FALSE ELSE Asks(log'[Latest(I')])
  BY DEF LoggedRestart, At, Requests
<1>5. chart'.restart = IF e.type \in Requests THEN Asks(e) ELSE chart.restart
  BY <1>1, RestartSaid DEF Typed, TypeOK, Record, Requests
<1>6. CASE e.type \in Requests
  <2>1. I' = I \cup {n + 1} /\ Latest(I') = n + 1
    BY <1>1, <1>2, <1>6, TypesGrow, LatestNew
  <2> QED
    BY <1>1, <1>4, <1>5, <1>6, <2>1
<1>7. CASE e.type \notin Requests
  <2>1. I' = I
    BY <1>7, TypesGrow
  <2>2. I # {} => Latest(I) \in I
    BY <1>1, <1>2, LatestIn
  <2> QED
    BY <1>1, <1>2, <1>3, <1>4, <1>5, <1>7, <2>1, <2>2
<1> QED
  BY <1>6, <1>7

\* The action an event completes, if any.
Completes(e) == /\ e.applies
                /\ \/ e.type \in {"ACTION_COMPLETED", "RESTART_REQUESTED"}
                   \/ e.type = "TRANSITION_APPLIED" /\ e.success

LEMMA CompletedSaid ==
    ASSUME NEW p \in Chart, NEW e \in Event
    PROVE  ChartApply(p, e).completed =
             IF Completes(e) /\ e.action # None THEN p.completed \cup {e.action} ELSE p.completed
<1> USE DEF Chart, Completes, Completing
<1>1. CASE e.type \in {"CLAIMED", "RUN_INITIALIZED", "ACTION_COMPLETED", "SPAWNED", "CLOSED"}
  BY <1>1 DEF ChartApply, ChartClaimed, ChartEntered, ChartSpawned, ChartClosed
<1>2. CASE e.type \in {"TRANSITION_APPLIED", "RESTART_REQUESTED"}
  BY <1>2 DEF ChartApply, ChartTransition, ChartRestart
<1>3. CASE e.type \in {"WORKTREE_PROVISIONED", "WORKTREE_REMOVED", "STATUS_UPDATED", "RELEASED"}
  BY <1>3 DEF ChartApply
<1> QED
  BY <1>1, <1>2, <1>3 DEF Event, EventType

LEMMA CompletedStep ==
    ASSUME Typed, NEW e \in Sample, Record(e), chart.completed = LoggedCompleted
    PROVE  chart'.completed = LoggedCompleted'
<1> DEFINE n == Len(log)
           Done == {log[i].action : i \in {j \in DOMAIN log : Completes(log[j])}}
<1>1. /\ n \in Nat /\ DOMAIN log = 1 .. n /\ DOMAIN log' = (1 .. n) \cup {n + 1}
      /\ \A i \in 1 .. n : log'[i] = log[i]
      /\ log'[n + 1] = e /\ e \in Event
  BY LogGrows
<1>2. LoggedCompleted = Done \ {None} /\ LoggedCompleted' = Done' \ {None}
  BY DEF LoggedCompleted, Completes
<1>3. Done' = IF Completes(e) THEN Done \cup {e.action} ELSE Done
  BY <1>1
<1>4. chart'.completed = IF Completes(e) /\ e.action # None
                         THEN chart.completed \cup {e.action} ELSE chart.completed
  BY <1>1, CompletedSaid DEF Typed, TypeOK, Record
<1> QED
  BY <1>2, <1>3, <1>4

\* For logs of any length, the projection that EventStore computes event by
\* event says what the log says when it is read as a whole.
THEOREM ReplayAlwaysMatches ==
    ASSUME ClaimsLease PROVE Spec => []ReplayMatches
<1> DEFINE Inv == HasLatest /\ ReplayMatches
<1>1. Init => Inv
  BY DEF Init, HasLatest, ReplayMatches, NewChart, LoggedState, LoggedLease, LoggedRestart,
         LoggedCompleted, At, Types
<1>2. Typed /\ Inv /\ [Next]_vars => Inv'
  <2> SUFFICES ASSUME Typed, Inv, [Next]_vars PROVE Inv'
    OBVIOUS
  <2>1. CASE UNCHANGED vars
    BY <2>1 DEF vars, HasLatest, ReplayMatches, LoggedState, LoggedLease, LoggedRestart,
                LoggedCompleted, At, Types
  <2>2. ASSUME NEW e \in Sample, Record(e) PROVE Inv'
    <3>1. HasLatest'
      BY <2>2, LatestStep
    <3>2. chart'.currentState = LoggedState'
      BY <2>2, StateStep DEF ReplayMatches
    <3>3. chart'.lease = LoggedLease'
      BY <2>2, LeaseStep, ClaimsLease DEF ReplayMatches
    <3>4. chart'.restart = LoggedRestart'
      BY <2>2, RestartStep DEF ReplayMatches
    <3>5. chart'.completed = LoggedCompleted'
      BY <2>2, CompletedStep DEF ReplayMatches
    <3> QED
      BY <3>1, <3>2, <3>3, <3>4, <3>5 DEF ReplayMatches
  <2> QED
    BY <2>1, <2>2 DEF Next
<1>3. Inv => ReplayMatches
  OBVIOUS
<1> QED
  BY <1>1, <1>2, <1>3, TypedAlways, PTL DEF Spec
=============================================================================
