------------------------------ MODULE Harness -------------------------------
(***************************************************************************)
(* The coordinator at work: the Supervisor's poll loop, the Orchestrator's *)
(* selection, the bd plugin's claim, release and close, the tmux panes     *)
(* with their workers, and the handlers of the workers' signals, which run *)
(* interleaved with the poll loop at every await.                          *)
(*                                                                         *)
(* A program counter names the await a task stands at; an action is what   *)
(* the code does from one await to the next.  The Beads tracker, tmux, git *)
(* and the agent are the environment.  Whatever the environment does to    *)
(* the harness (stalls, deaths, failing commands, crashes of the           *)
(* coordinator, further signals) costs one of MaxMishaps.                  *)
(***************************************************************************)
EXTENDS BeadProjection, Integers, FiniteSets, Sequences

CONSTANTS
    Bead,
    Worker,       \* tmux panes; an identity is used again once it is dead
    MaxSlots,     \* settings.maxConcurrentSlots
    MaxSignals,   \* signals one worker posts in its life
    MaxMishaps,   \* bound on what the environment may spoil
    Start,        \* settings.startState
    Actions,      \* Actions[s]: the sequence of actions of state s
    ToolAction,   \* actions the harness runs itself (parent-context tool actions)
    FreshAction,  \* actions that want a worker of their own (fresh context)
    Transition,   \* Transition[s][k]: the state or status outcome k leads to
    Kind,         \* the signals workers send
    Fault,        \* what may fail
    FirstSession, \* session id of the first coordinator process
    NextSession   \* NextSession[s]: id of the process after s, None after the last

SignalKind == {"SUCCESS", "FAILURE", "REJECTED", "BLOCKED", "RESTART", "EXITED"}
FaultKind  == {"bd", "record", "worktree", "merge", "spawn", "tmux", "init", "tool", "late",
              "stall", "death", "vanish", "stop", "crash"}
ReapThreshold == 3                        \* Defaults.TEAMMATE_MISSING_REAP_THRESHOLD

ASSUME HarnessAssumption ==
    /\ MaxSlots \in Nat \ {0} /\ MaxSignals \in Nat \ {0} /\ MaxMishaps \in Nat
    /\ Start \in State /\ {None, "skip"} \cap State = {} /\ None \notin Action
    /\ \A s \in State : Actions[s] \in Seq(Action) /\ Actions[s] # <<>>
    /\ ToolAction \subseteq Action /\ FreshAction \subseteq Action \ ToolAction
    /\ \A s \in State, k \in SignalKind : Transition[s][k] \in Status \cup {None}
    /\ Kind \subseteq SignalKind /\ Fault \subseteq FaultKind
    /\ FirstSession \in Session /\ NextSession \in [Session -> Session \cup {None}]
    /\ IsFiniteSet(Worker) /\ IsFiniteSet(Bead)

VARIABLES
    sup,        \* "up", "stopping" (stop called in mid-step) or "down"
    session,    \* the session id of the running coordinator process
    pc,         \* where the poll step stands
    slots,      \* free slots found by the step
    seen,       \* seen[b]: what selection read about b
    todo,       \* assignments still to be made in this step
    cur,        \* the bead being assigned or recovered
    carry,      \* the restart target the claim read and will record again
    after,      \* where the poll step goes on when bd_release returns
    inactive,   \* beads still to be recovered in this step
    started,    \* Supervisor.startedBeads
    missing,    \* Supervisor.missingStartedBeadChecks
    paused,     \* schedulingPausedUntilMs lies in the future
    processed   \* Supervisor.processedSignals

supVars == <<sup, session, pc, slots, seen, todo, cur, carry, after, inactive>>
memVars == <<started, missing, paused, processed>>

VARIABLES
    issue,      \* issue[b]: its status in the Beads tracker
    chart,      \* chart[b]: the projection of its recorded events
    leaseLive,  \* leaseLive[b]: the recorded lease has not expired
    merged      \* merged[b]: its branch is in the target branch

bdVars == <<issue, chart, leaseLive, merged>>

VARIABLES
    pane,       \* pane[w]: none, boot, tools, work, stall, wait or exiting
    run,        \* run[w]: the bead, state and action of the pane's worker
    hpc,        \* hpc[w][i]: where the handler of w's i-th signal stands
    signal,     \* signal[w][i]: what it says, and the state its handler will record
    mishaps     \* misfortunes left

workerVars  == <<pane, run>>
handlerVars == <<hpc, signal>>
vars == <<supVars, memVars, bdVars, workerVars, handlerVars, mishaps>>

Signal  == 1 .. MaxSignals
Live(w) == pane[w] # "none"
LivePanes == {w \in Worker : Live(w)}
LiveBeads == {run[w].bead : w \in LivePanes}
Working == {w \in Worker : pane[w] \in {"boot", "tools", "work", "stall"}}
HandlerBusy(w, i) == hpc[w][i] \notin {"none", "done", "failed"}
NoRun == [bead |-> None, state |-> None, action |-> None]
NoSignal == [kind |-> None, key |-> 0, bead |-> None, state |-> None, action |-> None,
             next |-> None]

NothingSeen == [b \in Bead |-> "skip"]
Least(a, b) == IF a < b THEN a ELSE b
Mishap(f) == f \in Fault /\ mishaps > 0 /\ mishaps' = mishaps - 1

\* EventStore.record of one event of bead b, and the projection it leads to.
Log(b, e) == chart' = [chart EXCEPT ![b] = ChartApply(@, e)]

Init ==
    /\ sup = "up" /\ session = FirstSession /\ pc = "idle" /\ slots = 0
    /\ seen = NothingSeen /\ todo = <<>> /\ cur = None
    /\ carry = None /\ after = None /\ inactive = {}
    /\ started = {} /\ missing = [b \in Bead |-> 0] /\ paused = FALSE /\ processed = {}
    /\ issue = [b \in Bead |-> "open"] /\ chart = [b \in Bead |-> NewChart]
    /\ leaseLive = [b \in Bead |-> FALSE] /\ merged = [b \in Bead |-> FALSE]
    /\ pane = [w \in Worker |-> "none"] /\ run = [w \in Worker |-> NoRun]
    /\ hpc = [w \in Worker |-> [i \in Signal |-> "none"]]
    /\ signal = [w \in Worker |-> [i \in Signal |-> NoSignal]]
    /\ mishaps = MaxMishaps

-----------------------------------------------------------------------------
(* The poll step, from the timer to the end of the selection.              *)

\* The locals of the scan go out of scope where it ends.
ScanEnds(to) ==
    /\ pc' = to /\ slots' = 0 /\ seen' = NothingSeen /\ todo' = <<>>
    /\ cur' = None /\ carry' = None /\ after' = None

\* Defaults of Init also set when a coordinator process starts afresh.
FreshMemory ==
    /\ ScanEnds("idle") /\ inactive' = {}
    /\ started' = {} /\ missing' = [b \in Bead |-> 0] /\ paused' = FALSE /\ processed' = {}

\* Supervisor.step: the stopping and stepInProgress guards.
Poll ==
    /\ sup = "up" /\ pc = "idle"
    /\ pc' = IF started = {} THEN "slots" ELSE "reconcile"
    /\ UNCHANGED <<sup, session, slots, seen, todo, cur, carry, after, inactive>>
    /\ UNCHANGED <<memVars, bdVars, workerVars, handlerVars, mishaps>>

\* The beads of the live panes as tmux list-panes shows them; an error of tmux
\* reads as an empty list.
PanesRead(live) ==
    \/ live = LiveBeads /\ UNCHANGED mishaps
    \/ live = {} /\ LiveBeads # {} /\ Mishap("tmux")

Missed(live, b) == IF b \in started \ live THEN missing[b] + 1 ELSE 0

\* Mutant: a started bead is never given up.
ReconcileNever ==
    /\ pc = "reconcile"
    /\ \E live \in SUBSET Bead : PanesRead(live)
    /\ pc' = "slots"
    /\ UNCHANGED <<sup, session, slots, seen, todo, cur, carry, after, inactive>>
    /\ UNCHANGED <<memVars, bdVars, workerVars, handlerVars>>

\* Mutant: the count of a bead that is given up is not cleared.
ReconcileKeepsCount ==
    /\ pc = "reconcile"
    /\ \E live \in SUBSET Bead :
        /\ PanesRead(live)
        /\ started' = {b \in started : Missed(live, b) < ReapThreshold}
        /\ missing' = [b \in Bead |-> IF b \in started THEN Missed(live, b) ELSE missing[b]]
    /\ pc' = "slots"
    /\ UNCHANGED <<sup, session, slots, seen, todo, cur, carry, after, inactive>>
    /\ UNCHANGED <<paused, processed, bdVars, workerVars, handlerVars>>

\* reconcileStartedBeads: a bead is given up at its third check without a pane.
Reconcile ==
    /\ pc = "reconcile"
    /\ \E live \in SUBSET Bead :
        /\ PanesRead(live)
        /\ started' = {b \in started : Missed(live, b) < ReapThreshold}
        /\ missing' = [b \in Bead |-> IF b \notin started THEN missing[b]
                                      ELSE Missed(live, b) % ReapThreshold]
    /\ pc' = "slots"
    /\ UNCHANGED <<sup, session, slots, seen, todo, cur, carry, after, inactive>>
    /\ UNCHANGED <<paused, processed, bdVars, workerVars, handlerVars>>

\* Mutant: the panes of workers that reported already are not counted.
PaneCountReadWorking(n) ==
    \/ n = Cardinality(Working) /\ UNCHANGED mishaps
    \/ n = 0 /\ Working # {} /\ Mishap("tmux")

\* The number of panes as tmux list-panes shows it.
PaneCountRead(n) ==
    \/ n = Cardinality(LivePanes) /\ UNCHANGED mishaps
    \/ n = 0 /\ LivePanes # {} /\ Mishap("tmux")

\* min(maxSlots - startedBeads.size, maxSlots - live panes), at least 0.
FreeSlots(n) ==
    LET free == Least(MaxSlots - Cardinality(started), MaxSlots - n)
    IN  IF free < 0 THEN 0 ELSE free

FindSlots ==
    /\ pc = "slots"
    /\ \E n \in 0 .. Cardinality(Worker) :
        /\ PaneCountRead(n)
        /\ IF paused \/ FreeSlots(n) = 0 THEN ScanEnds("health")
           ELSE /\ pc' = "ready" /\ slots' = FreeSlots(n)
                /\ UNCHANGED <<seen, todo, cur, carry, after>>
    /\ UNCHANGED <<sup, session, inactive>>
    /\ UNCHANGED <<memVars, bdVars, workerVars, handlerVars>>

\* What a Bead's status and lease say to the Orchestrator.
ActiveLease(b) == leaseLive[b] /\ chart[b].lease = session
Read(b) == IF StatusFor(issue[b], chart[b]) \in Terminal THEN "skip"
           ELSE StateForBead(issue[b], chart[b], Start)

\* The records of bd_list carry no restart request.
ReadListed(b) == IF StatusFor(issue[b], chart[b]) \in Terminal THEN "skip"
                 ELSE StateForBead(issue[b], [chart[b] EXCEPT !.restart = FALSE], Start)

\* bd ready, then the projections of the beads it listed.
ScanReady ==
    /\ pc = "ready"
    /\ seen' = [b \in Bead |-> IF issue[b] = "open" THEN Read(b) ELSE "skip"]
    /\ pc' = "listed"
    /\ UNCHANGED <<sup, session, slots, todo, cur, carry, after, inactive>>
    /\ UNCHANGED <<memVars, bdVars, workerVars, handlerVars, mishaps>>

\* Mutant: only a released bead is resumed, an expired lease still counts.
ScanInProgressReleased ==
    /\ pc = "listed"
    /\ seen' = [b \in Bead |->
                  IF /\ seen[b] = "skip" /\ issue[b] = "in_progress"
                     /\ chart[b].owned /\ chart[b].lease = None
                  THEN ReadListed(b) ELSE seen[b]]
    /\ pc' = "select"
    /\ UNCHANGED <<sup, session, slots, todo, cur, carry, after, inactive>>
    /\ UNCHANGED <<memVars, bdVars, workerVars, handlerVars, mishaps>>

\* bd list --status in_progress, filtered by isResumableInProgress.
ScanInProgress ==
    /\ pc = "listed"
    /\ seen' = [b \in Bead |->
                  IF /\ seen[b] = "skip" /\ issue[b] = "in_progress"
                     /\ chart[b].owned /\ ~ActiveLease(b)
                  THEN ReadListed(b) ELSE seen[b]]
    /\ pc' = "select"
    /\ UNCHANGED <<sup, session, slots, todo, cur, carry, after, inactive>>
    /\ UNCHANGED <<memVars, bdVars, workerVars, handlerVars, mishaps>>

\* Every order the scheduler may put the candidates in.
Orders(S) == {q \in [1 .. Cardinality(S) -> S] : {q[i] : i \in DOMAIN q} = S}

\* selectAssignments: the best candidates that are not started; a candidate
\* whose state cannot be told makes stateForBead throw and ends the step.
Select ==
    /\ pc = "select"
    /\ \E q \in Orders({b \in Bead \ started : seen[b] # "skip"}) :
        LET chosen == SubSeq(q, 1, Least(slots, Len(q)))
        IN  IF \E i \in DOMAIN chosen : seen[chosen[i]] = None
            THEN ScanEnds("idle")
            ELSE pc' = "assign" /\ todo' = chosen /\ UNCHANGED <<slots, seen, cur, carry, after>>
    /\ UNCHANGED <<sup, session, inactive>>
    /\ UNCHANGED <<memVars, bdVars, workerVars, handlerVars, mishaps>>

\* Any command of the tracker may fail during the scan: the step is abandoned.
ScanFails ==
    /\ pc \in {"ready", "listed"} /\ Mishap("bd")
    /\ ScanEnds("idle")
    /\ UNCHANGED <<sup, session, inactive>>
    /\ UNCHANGED <<memVars, bdVars, workerVars, handlerVars>>

-----------------------------------------------------------------------------
(* One assignment of the step: claim, worktree, tmux pane.                 *)

\* Mutant: the slot is not marked as taken.
NextAssignmentUnmarked ==
    /\ pc = "assign"
    /\ \E n \in 0 .. Cardinality(Worker) :
        /\ PaneCountRead(n)
        /\ IF todo = <<>> \/ sup = "stopping" \/ FreeSlots(n) = 0
           THEN ScanEnds("health")
           ELSE /\ pc' = "claim" /\ todo' = Tail(todo) /\ cur' = Head(todo)
                /\ UNCHANGED <<slots, seen, carry, after>>
    /\ UNCHANGED <<sup, session, inactive>>
    /\ UNCHANGED <<memVars, bdVars, workerVars, handlerVars>>

NextAssignment ==
    /\ pc = "assign"
    /\ \E n \in 0 .. Cardinality(Worker) :
        /\ PaneCountRead(n)
        /\ IF todo = <<>> \/ sup = "stopping" \/ FreeSlots(n) = 0
           THEN ScanEnds("health") /\ UNCHANGED started
           ELSE /\ pc' = "claim" /\ todo' = Tail(todo) /\ cur' = Head(todo)
                /\ started' = started \cup {Head(todo)}
                /\ UNCHANGED <<slots, seen, carry, after>>
    /\ UNCHANGED <<sup, session, inactive>>
    /\ UNCHANGED <<missing, paused, processed, bdVars, workerVars, handlerVars>>

RestartOf(b) == IF chart[b].restart THEN chart[b].restartTarget ELSE None

\* Mutant: the claim takes over a bead whatever its status.
ClaimAlways ==
    /\ pc = "claim"
    /\ issue' = [issue EXCEPT ![cur] = "in_progress"]
    /\ pc' = "claimrecord" /\ carry' = RestartOf(cur)
    /\ UNCHANGED <<sup, session, slots, seen, todo, cur, after, inactive>>
    /\ UNCHANGED <<memVars, chart, leaseLive, merged, workerVars, handlerVars, mishaps>>

\* bd update --claim succeeds on an open issue only.  It counts as failed too when
\* it has succeeded and the record of that, or the projection after it, fails.
Claim ==
    /\ pc = "claim"
    /\ \/ /\ issue[cur] = "open"
          /\ issue' = [issue EXCEPT ![cur] = "in_progress"]
          /\ pc' = "claimrecord" /\ carry' = RestartOf(cur)
          /\ UNCHANGED mishaps
       \/ /\ issue[cur] # "open"
          /\ pc' = "claimread"
          /\ UNCHANGED <<issue, carry, mishaps>>
       \/ /\ Mishap("bd")
          /\ pc' = "claimread"
          /\ UNCHANGED <<issue, carry>>
       \/ /\ issue[cur] = "open" /\ Mishap("record")
          /\ issue' = [issue EXCEPT ![cur] = "in_progress"]
          /\ pc' = "claimread"
          /\ UNCHANGED carry
    /\ UNCHANGED <<sup, session, slots, seen, todo, cur, after, inactive>>
    /\ UNCHANGED <<memVars, chart, leaseLive, merged, workerVars, handlerVars>>

\* The claim failed: an issue that is in progress is taken over all the same, if
\* it can be read.
ClaimRead ==
    /\ pc = "claimread"
    /\ \/ /\ pc' = IF issue[cur] = "in_progress" THEN "claimrecord" ELSE "failed"
          /\ carry' = RestartOf(cur)
          /\ UNCHANGED mishaps
       \/ pc' = "failed" /\ Mishap("bd") /\ UNCHANGED carry
    /\ UNCHANGED <<sup, session, slots, seen, todo, cur, after, inactive>>
    /\ UNCHANGED <<memVars, bdVars, workerVars, handlerVars>>

\* Mutant: the claim sends the bead back to the start state.
ClaimEventAtStart == [NoEvent EXCEPT !.type = "CLAIMED", !.state = Start, !.session = session,
                              !.restart = carry # None, !.next = carry]

ClaimEvent == [NoEvent EXCEPT !.type = "CLAIMED", !.state = seen[cur], !.session = session,
                              !.restart = carry # None, !.next = carry]

\* BEAD_CLAIMED and the final show; then the stopping check of the loop.  A claim
\* that fails here is not released.
ClaimRecord ==
    /\ pc = "claimrecord"
    /\ carry' = None
    /\ \/ /\ pc' = "failed" /\ after' = after /\ Mishap("record")
          /\ UNCHANGED <<chart, leaseLive>>
       \/ /\ Log(cur, ClaimEvent)
          /\ leaseLive' = [leaseLive EXCEPT ![cur] = TRUE]
          /\ \/ pc' = "failed" /\ after' = after /\ Mishap("bd")
             \/ /\ IF sup = "stopping" THEN pc' = "relget" /\ after' = "stopped"
                                       ELSE pc' = "worktree" /\ after' = after
                /\ UNCHANGED mishaps
    /\ UNCHANGED <<sup, session, slots, seen, todo, cur, inactive>>
    /\ UNCHANGED <<memVars, issue, merged, workerVars, handlerVars>>

ReleaseThen(next) == pc' = "relget" /\ after' = next

\* create_worktree answers success or failure, it never throws; its failure
\* releases the bead, and that of WORKTREE_PROVISIONED does not.
CreateWorktree ==
    /\ pc = "worktree"
    /\ \/ /\ pc' = "spawn" /\ after' = after
          /\ Log(cur, [NoEvent EXCEPT !.type = "WORKTREE_PROVISIONED"])
          /\ UNCHANGED mishaps
       \/ /\ ReleaseThen("failed") /\ Mishap("worktree")
          /\ UNCHANGED chart
       \/ /\ pc' = "failed" /\ after' = after /\ Mishap("record")
          /\ UNCHANGED chart
    /\ UNCHANGED <<sup, session, slots, seen, todo, cur, carry, inactive>>
    /\ UNCHANGED <<memVars, issue, leaseLive, merged, workerVars, handlerVars>>

\* spawnTeammateInTmuxInner counts the panes again.
SpawnCheck ==
    /\ pc = "spawn"
    /\ \E n \in 0 .. Cardinality(Worker) :
        /\ PaneCountRead(n)
        /\ IF n < MaxSlots THEN pc' = "split" /\ after' = after
                           ELSE ReleaseThen("failed")
    /\ UNCHANGED <<sup, session, slots, seen, todo, cur, carry, inactive>>
    /\ UNCHANGED <<memVars, bdVars, workerVars, handlerVars>>

\* A worker identity is free again when its pane is dead and its signals are
\* handled; the real ones are never used twice.
Reusable(w) == ~Live(w) /\ \A i \in Signal : ~HandlerBusy(w, i)

\* tmux split-window starts the worker.
SplitWindow ==
    /\ pc = "split"
    /\ \/ /\ \E w \in Worker :
              /\ Reusable(w)
              /\ pane' = [pane EXCEPT ![w] = "boot"]
              /\ run' = [run EXCEPT ![w] = [bead |-> cur, state |-> seen[cur], action |-> None]]
              /\ hpc' = [hpc EXCEPT ![w] = [i \in Signal |-> "none"]]
              /\ signal' = [signal EXCEPT ![w] = [i \in Signal |-> NoSignal]]
              /\ processed' = {p \in processed : p[1] # w}
          /\ pc' = "titled" /\ after' = after /\ UNCHANGED mishaps
       \/ /\ ReleaseThen("failed") /\ Mishap("spawn")
          /\ UNCHANGED <<workerVars, handlerVars, processed>>
    /\ UNCHANGED <<sup, session, slots, seen, todo, cur, carry, inactive>>
    /\ UNCHANGED <<started, missing, paused, bdVars>>

\* The pane's title and TEAMMATE_SPAWNED.  Either may fail after the worker has
\* started, and the title does when the pane is gone.
RecordSpawned ==
    /\ pc = "titled"
    /\ \/ /\ pc' = "assign" /\ after' = after
          /\ Log(cur, [NoEvent EXCEPT !.type = "SPAWNED", !.state = seen[cur]])
          /\ UNCHANGED mishaps
       \/ /\ ReleaseThen("failed")
          /\ (cur \notin LiveBeads /\ UNCHANGED mishaps) \/ Mishap("spawn")
          /\ UNCHANGED chart
    /\ UNCHANGED <<sup, session, slots, seen, todo, cur, carry, inactive>>
    /\ UNCHANGED <<memVars, issue, leaseLive, merged, workerVars, handlerVars>>

-----------------------------------------------------------------------------
(* bd_release, called by the poll step: read, reopen if in progress, record. *)

ReleaseRead ==
    /\ pc = "relget"
    /\ \/ pc' = (IF issue[cur] = "in_progress" THEN "relset" ELSE "relrecord") /\ UNCHANGED mishaps
       \/ pc' = after /\ Mishap("bd")
    /\ UNCHANGED <<sup, session, slots, seen, todo, cur, carry, after, inactive>>
    /\ UNCHANGED <<memVars, bdVars, workerVars, handlerVars>>

\* bd update --status open does not look at the status again.  It may have
\* succeeded when the record of its success fails.
ReleaseReopen ==
    /\ pc = "relset"
    /\ \/ pc' = "relrecord" /\ issue' = [issue EXCEPT ![cur] = "open"] /\ UNCHANGED mishaps
       \/ pc' = after /\ Mishap("bd") /\ UNCHANGED issue
       \/ pc' = after /\ Mishap("record") /\ issue' = [issue EXCEPT ![cur] = "open"]
    /\ UNCHANGED <<sup, session, slots, seen, todo, cur, carry, after, inactive>>
    /\ UNCHANGED <<memVars, chart, leaseLive, merged, workerVars, handlerVars>>

ReleaseRecord ==
    /\ pc = "relrecord"
    /\ \/ Log(cur, [NoEvent EXCEPT !.type = "RELEASED"]) /\ UNCHANGED mishaps
       \/ Mishap("record") /\ UNCHANGED chart
    /\ pc' = after
    /\ UNCHANGED <<sup, session, slots, seen, todo, cur, carry, after, inactive>>
    /\ UNCHANGED <<memVars, issue, leaseLive, merged, workerVars, handlerVars>>

\* The catch block of the loop, or its break after stop().
AssignmentFailed ==
    /\ started' = started \ {cur}
    /\ \/ pc = "failed" /\ pc' = "assign" /\ after' = None
          /\ UNCHANGED <<slots, seen, todo, cur, carry>>
       \/ pc = "stopped" /\ ScanEnds("health")
    /\ UNCHANGED <<sup, session, inactive>>
    /\ UNCHANGED <<missing, paused, processed, bdVars, workerVars, handlerVars, mishaps>>

(* recordSlotHealth and recoverInactiveBeads.  A bead has made no progress   *)
(* for the whole timeout when none of its live workers has; the 30 s         *)
(* throttle of the check is part of the time it takes to call one stalled.   *)

Stalled(b) == \A w \in LivePanes : run[w].bead = b => pane[w] = "stall"

CheckHealth ==
    /\ pc = "health"
    /\ \E f \in [{b \in LiveBeads : Stalled(b)} -> State] :
        /\ \A b \in DOMAIN f : \E w \in LivePanes : run[w].bead = b /\ run[w].state = f[b]
        /\ inactive' = {<<b, f[b]>> : b \in DOMAIN f}
    /\ pc' = "recover"
    /\ UNCHANGED <<sup, session, slots, seen, todo, cur, carry, after>>
    /\ UNCHANGED <<memVars, bdVars, workerVars, handlerVars, mishaps>>

\* HARNESS_RESTART_REQUESTED for an inactive bead, naming no action; the worker is
\* killed even if it cannot be recorded.
Recover ==
    /\ pc = "recover"
    /\ \/ /\ inactive = {} /\ pc' = "idle"
          /\ UNCHANGED <<cur, inactive, chart, mishaps>>
       \/ \E i \in inactive :
          /\ cur' = i[1] /\ inactive' = inactive \ {i} /\ pc' = "kill"
          /\ \/ /\ Log(i[1], [NoEvent EXCEPT !.type = "RESTART_REQUESTED", !.state = i[2],
                                               !.next = i[2]])
                /\ UNCHANGED mishaps
             \/ Mishap("record") /\ UNCHANGED chart
    /\ UNCHANGED <<sup, session, slots, seen, todo, carry, after>>
    /\ UNCHANGED <<memVars, issue, leaseLive, merged, workerVars, handlerVars>>

\* terminateTeammatesForBead; its errors are only logged.
Kill ==
    /\ pc = "kill" /\ ReleaseThen("recovered")
    /\ \/ /\ pane' = [w \in Worker |-> IF run[w].bead = cur THEN "none" ELSE pane[w]]
          /\ run' = [w \in Worker |-> IF run[w].bead = cur THEN NoRun ELSE run[w]]
          /\ UNCHANGED mishaps
       \/ Mishap("tmux") /\ UNCHANGED workerVars
    /\ UNCHANGED <<sup, session, slots, seen, todo, cur, carry, inactive>>
    /\ UNCHANGED <<memVars, bdVars, handlerVars>>

Exited(b) == started' = started \ {b} /\ missing' = [missing EXCEPT ![b] = 0]

Recovered ==
    /\ pc = "recovered" /\ pc' = "recover" /\ after' = None /\ cur' = None
    /\ Exited(cur)
    /\ UNCHANGED <<sup, session, slots, seen, todo, carry, inactive>>
    /\ UNCHANGED <<paused, processed, bdVars, workerVars, handlerVars, mishaps>>

SupervisorStep ==
    \/ Poll \/ Reconcile \/ FindSlots \/ ScanReady \/ ScanInProgress \/ Select \/ ScanFails
    \/ NextAssignment \/ Claim \/ ClaimRead \/ ClaimRecord \/ CreateWorktree \/ SpawnCheck
    \/ SplitWindow \/ RecordSpawned \/ ReleaseRead \/ ReleaseReopen \/ ReleaseRecord
    \/ AssignmentFailed \/ CheckHealth \/ Recover \/ Kill \/ Recovered

-----------------------------------------------------------------------------
(* The workers.                                                            *)

First(I) == CHOOSE i \in I : \A j \in I : i <= j

ActionsBefore(s, a) ==
    SubSeq(Actions[s], 1, First({j \in DOMAIN Actions[s] : Actions[s][j] = a}) - 1)

\* selectActiveAction: of the pending actions, or of all when none is, the first
\* prompt, else the first that wants a fresh context, else the first.
ActiveAction(s, done) ==
    LET q       == Actions[s]
        pending == {j \in DOMAIN q : q[j] \notin done}
        space   == IF pending # {} THEN pending ELSE DOMAIN q
        prompts == {j \in space : q[j] \notin ToolAction \cup FreshAction}
        fresh   == {j \in space : q[j] \in FreshAction}
    IN  q[First(IF prompts # {} THEN prompts ELSE IF fresh # {} THEN fresh ELSE space)]

\* Mutant: a worker starts over at the start state.
WorkerInitAtStart(w) ==
    /\ pane[w] = "boot"
    /\ LET b == run[w].bead
           s == run[w].state
           a == ActiveAction(s, chart[b].completed)
       IN  /\ run' = [run EXCEPT ![w].action = a]
           /\ pane' = [pane EXCEPT ![w] = IF ActionsBefore(s, a) = <<>> THEN "work" ELSE "tools"]
           /\ Log(b, [NoEvent EXCEPT !.type = "RUN_INITIALIZED", !.state = Start])
    /\ UNCHANGED <<supVars, memVars, issue, leaseLive, merged, handlerVars, mishaps>>

\* initializeWorkerRun and STATE_RUN_INITIALIZED.  If the record, or one of the
\* worker's files before it, fails, Pi reports the exception of the session start
\* and the agent goes on with the run, without the tool actions.
WorkerInit(w) ==
    /\ pane[w] = "boot"
    /\ LET b == run[w].bead
           s == run[w].state
           a == ActiveAction(s, chart[b].completed)
       IN  /\ run' = [run EXCEPT ![w].action = a]
           /\ \/ /\ pane' = [pane EXCEPT ![w] = IF ActionsBefore(s, a) = <<>> THEN "work"
                                                                            ELSE "tools"]
                 /\ Log(b, [NoEvent EXCEPT !.type = "RUN_INITIALIZED", !.state = s])
                 /\ UNCHANGED mishaps
              \/ /\ pane' = [pane EXCEPT ![w] = "work"]
                 /\ Mishap("init") /\ UNCHANGED chart
    /\ UNCHANGED <<supVars, memVars, issue, leaseLive, merged, handlerVars>>

\* The tool actions that stand before the active action and before any other
\* action: runParentSequenceActionsBeforeActive throws at the first of those.
ToolsFirst(w) ==
    LET q == ActionsBefore(run[w].state, run[w].action)
    IN  {j \in DOMAIN q : \A i \in 1 .. j : q[i] \in ToolAction}

\* runParentSequenceActionsBeforeActive.  A tool that fails, or whose completion
\* cannot be recorded, ends it, those before it are recorded as completed.
RunToolActions(w) ==
    /\ pane[w] = "tools"
    /\ \E ran \in SUBSET ToolsFirst(w) :
        /\ \/ ran = ToolsFirst(w) /\ UNCHANGED mishaps
           \/ (\E n \in ToolsFirst(w) : ran = 1 .. n - 1) /\ Mishap("tool")
        /\ chart' = [chart EXCEPT ![run[w].bead].completed =
                        @ \cup {Actions[run[w].state][j] : j \in ran}]
    /\ pane' = [pane EXCEPT ![w] = "work"]
    /\ UNCHANGED <<supVars, memVars, issue, leaseLive, merged, run, handlerVars>>

SetPane(w, from, to) ==
    /\ pane[w] \in from /\ pane' = [pane EXCEPT ![w] = to]
    /\ run' = IF to = "none" THEN [run EXCEPT ![w] = NoRun] ELSE run
    /\ UNCHANGED <<supVars, memVars, bdVars, handlerVars>>

Stall(w)    == SetPane(w, {"work"}, "stall") /\ Mishap("stall")
Resume(w)   == SetPane(w, {"stall"}, "work") /\ UNCHANGED mishaps
Die(w)      == SetPane(w, {"boot", "tools", "work", "stall"}, "none") /\ Mishap("death")
Vanish(w)   == SetPane(w, {"wait"}, "none") /\ Mishap("vanish")   \* with its handler under way
Shutdown(w) == SetPane(w, {"exiting"}, "none") /\ UNCHANGED mishaps

\* signal_completion refuses an outcome without a transition; the lifecycle
\* observers and restart requests send theirs unchecked.
Allowed(w, k) ==
    k \in {"SUCCESS", "FAILURE", "REJECTED"} => Transition[run[w].state][k] # None

\* The factory is about to title the pane and to record TEAMMATE_SPAWNED.
SpawnPending(w) == pc = "titled" /\ run[w].bead = cur

\* A POST of the i-th signal while the coordinator listens.  A worker whose
\* signal is being or has been handled may still post another one before it
\* shuts down.  The key holds the time in milliseconds: two signals of one kind
\* sent in the same millisecond share it.  A signal before the end of its own
\* spawn, two tmux commands after the start of the process, is a mishap.
Post(w, i, k) ==
    /\ sup = "up" /\ pane[w] \in {"work", "wait", "exiting"}
    /\ hpc[w][i] = "none" /\ \A j \in 1 .. i - 1 : hpc[w][j] # "none"
    /\ k \in Kind /\ Allowed(w, k)
    /\ pane' = [pane EXCEPT ![w] = "wait"]
    /\ \E key \in {i} \cup {signal[w][j].key : j \in {x \in 1 .. i - 1 : signal[w][x].kind = k}} :
          signal' = [signal EXCEPT ![w][i] =
                       [kind |-> k, key |-> key, bead |-> run[w].bead, state |-> run[w].state,
                        action |-> run[w].action, next |-> None]]
    /\ hpc' = [hpc EXCEPT ![w][i] = "received"]
    /\ (~SpawnPending(w) /\ UNCHANGED mishaps) \/ (SpawnPending(w) /\ Mishap("late"))
    /\ UNCHANGED <<supVars, memVars, bdVars, run>>

\* The HTTP answer: the first 200 makes the worker shut down, whatever else it
\* has under way; after an error it works on.
Answered(w) ==
    /\ pane[w] = "wait"
    /\ \/ /\ \E i \in Signal : hpc[w][i] = "done"
          /\ pane' = [pane EXCEPT ![w] = "exiting"]
       \/ /\ \A i \in Signal : hpc[w][i] \in {"none", "failed"}
          /\ pane' = [pane EXCEPT ![w] = "work"]
    /\ UNCHANGED <<supVars, memVars, bdVars, run, handlerVars, mishaps>>

\* The worker could not reach the coordinator or got an error, and its lifecycle
\* observer shuts it down all the same.
GiveUp(w) ==
    /\ pane[w] = "work" /\ (sup # "up" \/ \E i \in Signal : hpc[w][i] = "failed")
    /\ pane' = [pane EXCEPT ![w] = "exiting"]
    /\ UNCHANGED <<supVars, memVars, bdVars, run, handlerVars, mishaps>>

-----------------------------------------------------------------------------
(* handleTeammateEvent, one step per await.                                *)

KindOf(w, i) == signal[w][i].kind
BeadOf(w, i) == signal[w][i].bead
HandlerKeeps(w, i, from, to, next) ==
    /\ hpc[w][i] = from /\ hpc' = [hpc EXCEPT ![w][i] = to]
    /\ signal' = [signal EXCEPT ![w][i] = IF to \in {"done", "failed"} THEN NoSignal
                                          ELSE [@ EXCEPT !.next = next]]
Handler(w, i, from, to) == HandlerKeeps(w, i, from, to, None)
HandlerOnly == UNCHANGED <<supVars, workerVars>>

\* Mutant: the search for the next action starts one too late.
RestOfSkipsOne(s, a) ==
    LET q == Actions[s]
    IN  {q[j] : j \in {x \in DOMAIN q : \E y \in 1 .. x - 2 : q[y] = a}}

\* The nextState of the flow manager, and the action that follows in sequence.
RestOf(s, a) ==
    LET q == Actions[s]
    IN  {q[j] : j \in {x \in DOMAIN q : \E y \in 1 .. x - 1 : q[y] = a}}
NextActions(s, a, done) == RestOf(s, a) \ (done \cup {a})

\* Mutant: a signal of a duplicate key is handled again.
ReceiveAgain(w, i) ==
    /\ Handler(w, i, "received", IF KindOf(w, i) = "EXITED" THEN "relget" ELSE "getbead")
    /\ HandlerOnly
    /\ UNCHANGED <<memVars, bdVars, mishaps>>

\* TEAMMATE_EVENT is recorded, and if that fails the key is not taken for processed;
\* a stopped coordinator or a processed key drops the signal with a 200.
\* TEAMMATE_EXITED (the worker met a usage limit) frees
\* the slot before the release, and pauses the scheduling until the limit's end
\* unless that has passed.
Receive(w, i) ==
    LET k == <<w, signal[w][i].key>>
        b == BeadOf(w, i)
    IN  \/ /\ k \in processed \/ sup # "up"
           /\ Handler(w, i, "received", "done")
           /\ HandlerOnly
           /\ UNCHANGED <<memVars, bdVars, mishaps>>
        \/ /\ k \notin processed
           /\ processed' = processed \cup {k}
           /\ IF KindOf(w, i) = "EXITED"
              THEN /\ Handler(w, i, "received", "relget")
                   /\ Exited(b)
                   /\ paused' \in {paused, TRUE}
              ELSE /\ Handler(w, i, "received", "getbead")
                   /\ UNCHANGED <<started, missing, paused>>
           /\ HandlerOnly
           /\ UNCHANGED <<bdVars, mishaps>>
        \/ /\ Handler(w, i, "received", "failed") /\ Mishap("record")
           /\ HandlerOnly
           /\ UNCHANGED <<memVars, bdVars>>

\* What the signal leads to.  Only a completion looks the bead up, and only a
\* SUCCESS looks for a further action of the state.
GetBead(w, i) ==
    LET b == BeadOf(w, i)  s == signal[w][i].state  k == KindOf(w, i)
        more == k = "SUCCESS" /\ NextActions(s, signal[w][i].action, chart[b].completed) # {}
        next == IF more THEN s ELSE Transition[s][k]
    IN  /\ \/ /\ HandlerKeeps(w, i, "getbead", IF next = None THEN "failed" ELSE "record", next)
              /\ UNCHANGED mishaps
           \/ /\ k \in {"SUCCESS", "REJECTED"} /\ Mishap("bd")
              /\ Handler(w, i, "getbead", "failed")
        /\ HandlerOnly
        /\ UNCHANGED <<memVars, bdVars>>

\* Mutant: a completed bead is released like any other.
RecordOutcomeNoMerge(w, i) ==
    LET e == [NoEvent EXCEPT !.type = "TRANSITION_APPLIED", !.state = signal[w][i].state,
                !.next = signal[w][i].next, !.action = signal[w][i].action, !.success = TRUE]
    IN  /\ Handler(w, i, "record", "relget")
        /\ Log(BeadOf(w, i), e)
        /\ HandlerOnly
        /\ UNCHANGED <<memVars, issue, leaseLive, merged, mishaps>>

\* STATE_TRANSITION_APPLIED, or CONTEXT_/HARNESS_RESTART_REQUESTED with the
\* action that was interrupted.
RecordOutcome(w, i) ==
    LET k == KindOf(w, i)
        e == [NoEvent EXCEPT
                !.type = IF k = "RESTART" THEN "RESTART_REQUESTED" ELSE "TRANSITION_APPLIED",
                !.state = signal[w][i].state, !.next = signal[w][i].next,
                !.action = signal[w][i].action, !.success = k = "SUCCESS"]
        terminal == k = "SUCCESS" /\ signal[w][i].next = "completed"
    IN  /\ \/ /\ Handler(w, i, "record", IF terminal THEN "merge" ELSE "relget")
              /\ Log(BeadOf(w, i), e)
              /\ UNCHANGED mishaps
           \/ Handler(w, i, "record", "failed") /\ Mishap("record") /\ UNCHANGED chart
        /\ HandlerOnly
        /\ UNCHANGED <<memVars, issue, leaseLive, merged>>

\* Mutant: the bead is closed whatever the merge answered.
MergeIgnored(w, i) ==
    /\ Handler(w, i, "merge", "close")
    /\ \/ merged' = [merged EXCEPT ![BeadOf(w, i)] = TRUE] /\ UNCHANGED mishaps
       \/ Mishap("merge") /\ UNCHANGED merged
    /\ HandlerOnly
    /\ UNCHANGED <<memVars, issue, chart, leaseLive>>

\* merge_and_commit answers success or failure, it never throws.
Merge(w, i) ==
    /\ \/ /\ Handler(w, i, "merge", "close")
          /\ merged' = [merged EXCEPT ![BeadOf(w, i)] = TRUE]
          /\ UNCHANGED mishaps
       \/ /\ Handler(w, i, "merge", "block") /\ Mishap("merge")
          /\ UNCHANGED merged
    /\ HandlerOnly
    /\ UNCHANGED <<memVars, issue, chart, leaseLive>>

\* bd_update_status: the tracker first (close, or update --status blocked), and the
\* record of the command's success ...
SetIssue(w, i, from, to, status) ==
    /\ \/ /\ Handler(w, i, from, to)
          /\ issue' = [issue EXCEPT ![BeadOf(w, i)] = status]
          /\ UNCHANGED mishaps
       \/ /\ Handler(w, i, from, "failed") /\ Mishap("bd")
          /\ UNCHANGED issue
       \/ /\ Handler(w, i, from, "failed") /\ Mishap("record")
          /\ issue' = [issue EXCEPT ![BeadOf(w, i)] = status]
    /\ HandlerOnly
    /\ UNCHANGED <<memVars, chart, leaseLive, merged>>

\* ... then the event, and a last look at the issue that may fail.
RecordIssue(w, i, from, to, e) ==
    /\ \/ Handler(w, i, from, to) /\ Log(BeadOf(w, i), e) /\ UNCHANGED mishaps
       \/ Handler(w, i, from, "failed") /\ Log(BeadOf(w, i), e) /\ Mishap("bd")
       \/ Handler(w, i, from, "failed") /\ Mishap("record") /\ UNCHANGED chart
    /\ HandlerOnly
    /\ UNCHANGED <<memVars, issue, leaseLive, merged>>

Close(w, i)       == SetIssue(w, i, "close", "closerecord", "closed")
CloseRecord(w, i) == RecordIssue(w, i, "closerecord", "rmtree", [NoEvent EXCEPT !.type = "CLOSED"])
Block(w, i)       == SetIssue(w, i, "block", "blockrecord", "blocked")
BlockRecord(w, i) == RecordIssue(w, i, "blockrecord", "relget",
                        [NoEvent EXCEPT !.type = "STATUS_UPDATED", !.state = "blocked"])

\* remove_worktree answers success or failure, and its answer is ignored.
RemoveWorktree(w, i) ==
    /\ Handler(w, i, "rmtree", "exit")
    /\ \/ Log(BeadOf(w, i), [NoEvent EXCEPT !.type = "WORKTREE_REMOVED"]) /\ UNCHANGED mishaps
       \/ Mishap("worktree") /\ UNCHANGED chart
    /\ HandlerOnly
    /\ UNCHANGED <<memVars, issue, leaseLive, merged>>

\* bd_release; its errors are only logged.
AfterRelease(w, i) == IF KindOf(w, i) = "EXITED" THEN "done" ELSE "exit"

HandlerReleaseRead(w, i) ==
    /\ \/ /\ Handler(w, i, "relget",
                     IF issue[BeadOf(w, i)] = "in_progress" THEN "relset" ELSE "relrecord")
          /\ UNCHANGED mishaps
       \/ Handler(w, i, "relget", AfterRelease(w, i)) /\ Mishap("bd")
    /\ HandlerOnly
    /\ UNCHANGED <<memVars, bdVars>>

HandlerReleaseReopen(w, i) ==
    /\ \/ /\ Handler(w, i, "relset", "relrecord")
          /\ issue' = [issue EXCEPT ![BeadOf(w, i)] = "open"]
          /\ UNCHANGED mishaps
       \/ /\ Handler(w, i, "relset", AfterRelease(w, i)) /\ Mishap("bd")
          /\ UNCHANGED issue
       \/ /\ Handler(w, i, "relset", AfterRelease(w, i)) /\ Mishap("record")
          /\ issue' = [issue EXCEPT ![BeadOf(w, i)] = "open"]
    /\ HandlerOnly
    /\ UNCHANGED <<memVars, chart, leaseLive, merged>>

HandlerReleaseRecord(w, i) ==
    /\ Handler(w, i, "relrecord", AfterRelease(w, i))
    /\ \/ Log(BeadOf(w, i), [NoEvent EXCEPT !.type = "RELEASED"]) /\ UNCHANGED mishaps
       \/ Mishap("record") /\ UNCHANGED chart
    /\ HandlerOnly
    /\ UNCHANGED <<memVars, issue, leaseLive, merged>>

\* markBeadExited frees the bead's scheduler slot.
HandlerExit(w, i) ==
    /\ Handler(w, i, "exit", "done")
    /\ Exited(BeadOf(w, i))
    /\ HandlerOnly
    /\ UNCHANGED <<paused, processed, bdVars, mishaps>>

HandlerStep(w, i) ==
    \/ Receive(w, i) \/ GetBead(w, i) \/ RecordOutcome(w, i) \/ Merge(w, i)
    \/ Close(w, i) \/ CloseRecord(w, i) \/ Block(w, i) \/ BlockRecord(w, i)
    \/ RemoveWorktree(w, i) \/ HandlerReleaseRead(w, i) \/ HandlerReleaseReopen(w, i)
    \/ HandlerReleaseRecord(w, i) \/ HandlerExit(w, i)

-----------------------------------------------------------------------------
(* Time, commands of the user, and crashes.                                *)

LeaseExpires(b) ==
    /\ leaseLive[b] /\ leaseLive' = [leaseLive EXCEPT ![b] = FALSE]
    /\ UNCHANGED <<supVars, memVars, issue, chart, merged, workerVars, handlerVars, mishaps>>

PauseEnds ==
    /\ paused /\ paused' = FALSE
    /\ UNCHANGED <<supVars, started, missing, processed, bdVars, workerVars, handlerVars, mishaps>>

SupOnly ==
    /\ UNCHANGED <<session, pc, slots, seen, todo, cur, carry, after, inactive>>
    /\ UNCHANGED <<memVars, bdVars, workerVars, handlerVars>>

\* /orr-else stop: no new step begins, the one under way runs on to its next
\* look at the flag.
Stop == sup = "up" /\ sup' = "stopping" /\ Mishap("stop") /\ SupOnly

Stopped == sup = "stopping" /\ pc = "idle" /\ sup' = "down" /\ SupOnly /\ UNCHANGED mishaps

\* /orr-else again: a new Supervisor with empty sets.  (A second Supervisor that
\* overlaps the end of the first one's step or handlers is not modelled.)
StartAgain ==
    /\ sup = "down" /\ \A w \in Worker, i \in Signal : ~HandlerBusy(w, i)
    /\ sup' = "up" /\ FreshMemory
    /\ UNCHANGED <<session, bdVars, workerVars, handlerVars, mishaps>>

\* The coordinator process dies at any await; tmux, its panes, the tracker and
\* the event log survive, and the next process has a session id of its own.
Crash ==
    /\ sup # "down" /\ NextSession[session] # None /\ Mishap("crash")
    /\ sup' = "down" /\ session' = NextSession[session] /\ FreshMemory
    /\ hpc' = [w \in Worker |-> [i \in Signal |->
                  IF HandlerBusy(w, i) THEN "failed" ELSE hpc[w][i]]]
    /\ signal' = [w \in Worker |-> [i \in Signal |-> NoSignal]]
    /\ UNCHANGED <<bdVars, workerVars>>

WorkerStep(w) ==
    \/ WorkerInit(w) \/ RunToolActions(w) \/ Answered(w) \/ Shutdown(w)
    \/ \E i \in Signal, k \in Kind : Post(w, i, k)

Misfortune == \/ \E w \in Worker : Stall(w) \/ Resume(w) \/ Die(w) \/ Vanish(w) \/ GiveUp(w)
              \/ Stop \/ Crash

Next ==
    \/ SupervisorStep \/ Stopped \/ StartAgain \/ PauseEnds
    \/ \E w \in Worker : WorkerStep(w) \/ \E i \in Signal : HandlerStep(w, i)
    \/ \E b \in Bead : LeaseExpires(b)
    \/ Misfortune

Spec == Init /\ [][Next]_vars

\* The timer fires, every awaited command and request returns, every live worker
\* comes to its end, and the clock advances.  No misfortune is fair.
Fairness ==
    /\ WF_vars(SupervisorStep) /\ WF_vars(Stopped) /\ WF_vars(StartAgain)
    /\ WF_vars(PauseEnds)
    /\ \A b \in Bead : WF_vars(LeaseExpires(b))
    /\ \A w \in Worker : WF_vars(WorkerStep(w)) /\ \A i \in Signal : WF_vars(HandlerStep(w, i))

FairSpec == Spec /\ Fairness

-----------------------------------------------------------------------------
PollPC ==
    {"idle", "reconcile", "slots", "ready", "listed", "select", "assign", "claim", "claimread",
     "claimrecord", "worktree", "spawn", "split", "titled", "relget", "relset", "relrecord",
     "failed", "stopped", "health", "recover", "kill", "recovered"}
PaneState == {"none", "boot", "tools", "work", "stall", "wait", "exiting"}
HandlerPC ==
    {"none", "received", "getbead", "record", "merge", "close", "closerecord", "rmtree", "block",
     "blockrecord", "relget", "relset", "relrecord", "exit", "done", "failed"}
Run == [bead : Bead \cup {None}, state : State \cup {None}, action : Action \cup {None}]
Sent == [kind : SignalKind \cup {None}, key : 0 .. MaxSignals, bead : Bead \cup {None},
         state : State \cup {None}, action : Action \cup {None}, next : Status \cup {None}]

TypeOK ==
    /\ sup \in {"up", "stopping", "down"} /\ session \in Session /\ pc \in PollPC
    /\ slots \in 0 .. MaxSlots /\ seen \in [Bead -> State \cup {None, "skip"}]
    /\ todo \in Seq(Bead) /\ cur \in Bead \cup {None} /\ carry \in Status \cup {None}
    /\ after \in {None, "failed", "stopped", "recovered"} /\ inactive \subseteq Bead \X State
    /\ started \subseteq Bead /\ missing \in [Bead -> 0 .. ReapThreshold - 1]
    /\ paused \in BOOLEAN /\ processed \subseteq Worker \X Signal
    /\ issue \in [Bead -> IssueStatus] /\ chart \in [Bead -> Chart]
    /\ leaseLive \in [Bead -> BOOLEAN] /\ merged \in [Bead -> BOOLEAN]
    /\ pane \in [Worker -> PaneState] /\ run \in [Worker -> Run]
    /\ hpc \in [Worker -> [Signal -> HandlerPC]] /\ signal \in [Worker -> [Signal -> Sent]]
    /\ mishaps \in 0 .. MaxMishaps

\* Never more panes than slots, although the poll step, the handlers and the
\* workers' exits change the two counts the supervisor and the factory read, at
\* different awaits.  (Runs without "tmux" faults: an error of list-panes reads
\* as "no panes".)
SlotBound == Cardinality(LivePanes) <= MaxSlots

\* Of the requests that carry one idempotency key a single one is handled.
OneHandlerPerKey ==
    \A w \in Worker, i, j \in Signal :
        signal[w][i].key = signal[w][j].key /\ signal[w][i].key # 0
          /\ {hpc[w][i], hpc[w][j]} \cap {"none", "received"} = {}
        => i = j

\* At most one worker works on a bead: release, expiry of the lease, reaping
\* and recovery never hand a bead out while its worker is still at it.
OneWorkerPerBead ==
    \A v, w \in Working : run[v].bead = run[w].bead => v = w

\* The slot bookkeeping knows every working worker: markBeadExited and the
\* reaping of missing panes never free a slot that is in use.
WorkIsTracked == sup = "up" => {run[w].bead : w \in Working} \subseteq started

\* A bead closes after its branch was merged, and a closed bead is left alone:
\* nobody works on it, but a worker that was told an error in closing it, and no
\* assignment of it is under way.
ClosedIsQuiet ==
    \A b \in Bead : issue[b] = "closed" =>
        /\ merged[b]
        /\ \A w \in Working : run[w].bead = b => \E i \in Signal : hpc[w][i] = "failed"
        /\ cur = b => pc \notin {"claimrecord", "worktree", "spawn", "split"}

\* A closed bead stays closed.
ClosedStaysClosed == [][\A b \in Bead : issue[b] = "closed" => issue'[b] = "closed"]_vars

Applies(w, i) == hpc[w][i] = "record" /\ hpc'[w][i] \in {"merge", "relget"}

\* Only an applied signal moves a bead in the statechart: what claims, spawns,
\* run initialisations and closings record is where the bead already stands.
OnlySignalsMove ==
    [][\A b \in Bead :
        chart[b].currentState \notin {None, chart'[b].currentState}
        => \E w \in Worker, i \in Signal : Applies(w, i) /\ BeadOf(w, i) = b]_vars

\* A signal is applied only in the state the bead is in (the comment of
\* decideTeammateEventProcessing, TeammateEvents.ts:139).
PhaseSignalsMatch ==
    [][\A w \in Worker, i \in Signal :
        Applies(w, i) => chart[BeadOf(w, i)].currentState = signal[w][i].state]_vars

\* A SUCCESS that leaves a state leaves no action of it undone: the worker's
\* choice of its action and the handler's choice of the next one, made from
\* two reads of the log, cover the whole sequence.
StateLeftWhenDone ==
    [][\A w \in Worker, i \in Signal :
        Applies(w, i) /\ signal[w][i].kind = "SUCCESS" /\ signal[w][i].next # signal[w][i].state
        => {Actions[signal[w][i].state][j] : j \in DOMAIN Actions[signal[w][i].state]}
              \subseteq chart'[BeadOf(w, i)].completed]_vars

ClaimRecorded == pc = "claimrecord" /\ pc' \in {"worktree", "relget", "failed"}

\* The statechart moves a claimed bead to the state it is in: the state the
\* selection read is still its state when the claim is recorded.
ClaimIsFresh ==
    [][ClaimRecorded => seen[cur] = StateForBead("open", chart[cur], Start)]_vars

\* An in-progress bead without a worker does not stay that way: the slot is
\* reaped, the lease runs out, and the recovery scan resumes it (the test
\* "resumes Orr Else-owned in-progress beads without a current-session active
\* lease", orchestrator.test.ts:6).
ResumesInProgress ==
    \A b \in Bead :
        (issue[b] = "in_progress" /\ b \notin LiveBeads)
          ~> (issue[b] # "in_progress" \/ b \in LiveBeads)

\* Every bead is closed or blocked in the end.
EveryBeadSettles == \A b \in Bead : <>(issue[b] \in {"closed", "blocked"})

\* A scheduler slot is not lost to a bead without a worker.
SlotsComeBack ==
    \A b \in Bead : (b \in started /\ b \notin LiveBeads) ~> (b \notin started \/ b \in LiveBeads)
=============================================================================
