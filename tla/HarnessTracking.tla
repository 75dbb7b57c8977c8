-------------------------- MODULE HarnessTracking ---------------------------
(***************************************************************************)
(* Proofs about the bookkeeping of the coordinator: who works on a bead,   *)
(* which slot that takes, and what the tracker and the log say of the bead *)
(* meanwhile.                                                              *)
(*                                                                         *)
(* A worker holds its bead from its start until the handler of its signal  *)
(* gives the slot back.  The supervisor's set of started beads covers the  *)
(* holders, and a bead has one holder at most (TrackInv): the poll step    *)
(* hands out no bead that is started, and a bead leaves the set when its   *)
(* holder ends or has none.  What follows rests on that: only its holder   *)
(* closes a bead or moves it in the statechart, and nobody else is at it   *)
(* then.                                                                   *)
(*                                                                         *)
(* With one slot the scan, too, finds nobody at work, so that what it has  *)
(* read still holds when the claim and the spawn record it.                *)
(***************************************************************************)
EXTENDS HarnessProofs

\* What the theorems on the bookkeeping assume: a worker posts one signal, and
\* nothing takes a pane from its bead behind the coordinator's back.
OneSignal == MaxSignals = 1
Tame == Fault \cap {"tmux", "spawn", "stall", "vanish", "stop", "crash"} = {}

\* The handler of w's signal has given the slot back.
FreedBy(w) ==
    \/ hpc[w][1] = "done"
    \/ KindOf(w, 1) = "EXITED" /\ hpc[w][1] \in Releasing

\* The worker holds its bead's slot: it works, or waits for an answer that may
\* still send it back to work.
Holds(w) == w \in Working \/ (pane[w] = "wait" /\ ~FreedBy(w))

BeadHeld(b) == \E w \in Worker : Holds(w) /\ run[w].bead = b

\* Nobody stops the coordinator and there is nothing to recover.
PollTame ==
    /\ sup = "up" /\ inactive = {} /\ after \in {None, "failed"}
    /\ pc \notin {"stopped", "kill", "recovered"}

\* The pane's state and the handler's progress.
WorkersTame ==
    \A w \in Worker :
        /\ pane[w] # "stall"
        /\ pane[w] \in {"boot", "tools", "work"} => hpc[w][1] \in {"none", "failed"}
        /\ pane[w] \in {"wait", "exiting"} => hpc[w][1] # "none"
        /\ HandlerBusy(w, 1) =>
              /\ pane[w] = "wait"
              /\ BeadOf(w, 1) = run[w].bead /\ signal[w][1].state = run[w].state
              /\ KindOf(w, 1) \in Kind
              /\ KindOf(w, 1) = "EXITED" => hpc[w][1] \in {"received"} \cup Releasing

\* A bead waits for its assignment unstarted, is started before its worker is,
\* and has no holder until then, nor when its assignment fails.
BeforeSplit == {"claim", "claimread", "claimrecord", "worktree", "spawn", "split"}

AssignTracked ==
    /\ \A i, j \in 1 .. Len(todo) : todo[i] = todo[j] => i = j
    /\ \A i \in 1 .. Len(todo) : todo[i] \notin started
    /\ pc \in BeforeSplit => cur \in started
    /\ pc \in BeforeSplit \cup Releasing \cup {"failed"} => ~BeadHeld(cur)

HoldersTracked ==
    /\ \A w \in Worker : Holds(w) => run[w].bead \in started
    /\ \A v, w \in Worker : Holds(v) /\ Holds(w) /\ run[v].bead = run[w].bead => v = w

\* No new holder: those there are keep their bead and state, or end.
HoldersStay ==
    \A w \in Worker : Holds(w)' => /\ Holds(w) /\ run'[w].bead = run[w].bead
                                   /\ run'[w].state = run[w].state

TrackInv == PollTame /\ WorkersTame /\ AssignTracked /\ HoldersTracked

-----------------------------------------------------------------------------
LEMMA SignalIsOne == ASSUME OneSignal PROVE Signal = {1}
BY DEF OneSignal, Signal

\* What may not fail does not.
LEMMA NoSuchMishap ==
    ASSUME Tame, NEW f \in {"tmux", "spawn", "stall", "vanish", "stop", "crash"}
    PROVE  ~Mishap(f)
BY DEF Tame, Mishap

LEMMA TrackInit == ASSUME OneSignal, Init PROVE TrackInv
<1>1. PollTame
  BY DEF Init, PollTame
<1>2. WorkersTame
  BY SignalIsOne DEF Init, WorkersTame, HandlerBusy
<1>3. \A w \in Worker : ~Holds(w)
  BY DEF Init, Holds, Working
<1>4. AssignTracked /\ HoldersTracked
  BY <1>3 DEF Init, AssignTracked, HoldersTracked, BeforeSplit, Releasing
<1> QED
  BY <1>1, <1>2, <1>4 DEF TrackInv

\* Holders that stay as they are or end leave the bookkeeping right, as long as
\* no bead of theirs leaves `started'.
LEMMA FewerHolders ==
    ASSUME HoldersTracked,
           \A w \in Worker : Holds(w)' => Holds(w) /\ run'[w].bead = run[w].bead,
           \A w \in Worker : Holds(w)' /\ run[w].bead \in started => run[w].bead \in started'
    PROVE  HoldersTracked' /\ \A b : BeadHeld(b)' => BeadHeld(b)
BY DEF HoldersTracked, BeadHeld

\* The poll loop's bookkeeping when the assignment goes on or ends.
LEMMA AssignKept ==
    ASSUME AssignTracked, cur' = cur, todo' = todo, started' \subseteq started,
           pc' \in BeforeSplit => pc \in BeforeSplit /\ cur \in started',
           pc' \in Releasing \cup {"failed"} => pc \in BeforeSplit \cup Releasing \cup {"failed"},
           \A b : BeadHeld(b)' => BeadHeld(b)
    PROVE  AssignTracked'
BY DEF AssignTracked

\* Outside the assignment only the beads still to be assigned matter.
LEMMA AssignOver ==
    ASSUME AssignTracked, todo' \in {todo, <<>>}, started' \subseteq started,
           pc' \notin BeforeSplit \cup Releasing \cup {"failed"}
    PROVE  AssignTracked'
<1>1. Len(<<>>) = 0
  OBVIOUS
<1> QED BY <1>1 DEF AssignTracked

\* With the panes and the handlers the holders stay.
LEMMA SameHolders ==
    ASSUME UNCHANGED <<workerVars, handlerVars>>
    PROVE  /\ \A w \in Worker : Holds(w)' = Holds(w) /\ run'[w].bead = run[w].bead
           /\ \A b : BeadHeld(b)' = BeadHeld(b)
           /\ WorkersTame => WorkersTame'
BY DEF workerVars, handlerVars, Holds, Working, FreedBy, KindOf, BeadHeld, WorkersTame,
       HandlerBusy, BeadOf

-----------------------------------------------------------------------------
\* The poll step up to the selection and after the assignments.
LEMMA LoopTracked ==
    ASSUME TrackInv, Tame,
           \/ Poll \/ FindSlots \/ ScanReady \/ ScanInProgress \/ ScanFails \/ CheckHealth
           \/ Recover
    PROVE  TrackInv'
<1>1. UNCHANGED <<workerVars, handlerVars, started, sup>>
  BY DEF Poll, FindSlots, ScanReady, ScanInProgress, ScanFails, CheckHealth, Recover, memVars
<1>2. /\ pc' \notin BeforeSplit \cup Releasing \cup {"failed", "stopped", "kill", "recovered"}
      /\ todo' \in {todo, <<>>} /\ after' \in {after, None}
  BY DEF Poll, FindSlots, ScanReady, ScanInProgress, ScanFails, CheckHealth, Recover, ScanEnds,
         BeforeSplit, Releasing, TrackInv, PollTame
<1>3. inactive' = {}
  <2>1. CASE CheckHealth
    <3>1. {b \in LiveBeads : Stalled(b)} = {}
      BY DEF TrackInv, WorkersTame, Stalled, LiveBeads, LivePanes
    <3> QED BY <2>1, <3>1 DEF CheckHealth
  <2>2. CASE ~CheckHealth
    BY <2>2 DEF Poll, FindSlots, ScanReady, ScanInProgress, ScanFails, Recover, TrackInv, PollTame
  <2> QED BY <2>1, <2>2
<1>4. PollTame'
  BY <1>1, <1>2, <1>3 DEF TrackInv, PollTame
<1>5. AssignTracked'
  BY <1>1, <1>2, AssignOver DEF TrackInv
<1> QED
  BY <1>1, <1>4, <1>5, SameHolders, FewerHolders DEF TrackInv

\* A bead whose pane shows is not given up, and every holder's pane shows.
LEMMA ReconcileTracked == ASSUME TypeInv, TrackInv, Tame, Reconcile PROVE TrackInv'
<1>1. PICK live \in SUBSET Bead :
        /\ PanesRead(live) /\ started' = {b \in started : Missed(live, b) < ReapThreshold}
  BY DEF Reconcile
<1>2. live = LiveBeads
  BY <1>1, NoSuchMishap DEF PanesRead
<1>3. \A b \in started : b \in LiveBeads => b \in started'
  BY <1>1, <1>2 DEF Missed, ReapThreshold
<1>4. \A w \in Worker : Holds(w) => run[w].bead \in LiveBeads
  BY DEF Holds, Working, LiveBeads, LivePanes, Live
<1>5. UNCHANGED <<workerVars, handlerVars>> /\ started' \subseteq started
  BY <1>1 DEF Reconcile
<1>6. PollTame' /\ AssignTracked'
  BY <1>5, AssignOver DEF Reconcile, TrackInv, PollTame, BeforeSplit, Releasing
<1> QED
  BY <1>3, <1>4, <1>5, <1>6, SameHolders, FewerHolders DEF TrackInv

\* An order of a finite set names every element once.
LEMMA OrderDistinct ==
    ASSUME NEW S, IsFiniteSet(S), NEW q \in Orders(S)
    PROVE  /\ Len(q) = Cardinality(S) /\ Len(q) \in Nat
           /\ \A i \in 1 .. Len(q) : q[i] \in S
           /\ \A i, j \in 1 .. Len(q) : q[i] = q[j] => i = j
<1> DEFINE n == Cardinality(S)
<1>1. n \in Nat
  BY FS_CardinalityType
<1>2. q \in [1 .. n -> S] /\ {q[i] : i \in DOMAIN q} = S
  BY DEF Orders
<1>3. IsFiniteSet(1 .. n) /\ Cardinality(1 .. n) = n
  BY <1>1, FS_Interval
<1>4. q \in Surjection(1 .. n, S)
  <2>1. \A t \in S : \E i \in 1 .. n : q[i] = t
    BY <1>2
  <2> HIDE DEF n
  <2> QED BY <1>2, <2>1 DEF Surjection
<1>5. q \in Injection(1 .. n, S)
  BY <1>3, <1>4, FS_SurjSameCardinalityImpliesInj
<1>6. Len(q) = n
  <2> HIDE DEF n
  <2>1. q \in Seq(S)
    BY <1>1, <1>2, SeqDef
  <2> QED BY <1>1, <1>2, <2>1, LenProperties
<1>7. Len(q) = Cardinality(S)
  BY <1>6
<1> HIDE DEF n
<1>8. DOMAIN q = 1 .. Len(q)
  BY <1>2, <1>6
<1>9. \A i, j \in 1 .. Len(q) : q[i] = q[j] => i = j
  BY <1>5, <1>8 DEF Injection, IsInjective
<1> QED
  BY <1>1, <1>2, <1>6, <1>7, <1>9

\* The selection chooses different beads that are not started, at most as many
\* as there are slots.
LEMMA SelectChooses ==
    ASSUME TypeInv, Select
    PROVE  \/ ScanEnds("idle")
           \/ /\ pc' = "assign" /\ UNCHANGED <<slots, seen, cur, carry, after>>
              /\ Len(todo') \in Nat /\ Len(todo') <= slots
              /\ \A i \in 1 .. Len(todo') : todo'[i] \notin started
              /\ \A i, j \in 1 .. Len(todo') : todo'[i] = todo'[j] => i = j
<1> DEFINE S == {b \in Bead \ started : seen[b] # "skip"}
<1>1. PICK q \in Orders(S) :
        \/ ScanEnds("idle")
        \/ /\ pc' = "assign" /\ UNCHANGED <<slots, seen, cur, carry, after>>
           /\ todo' = SubSeq(q, 1, Least(slots, Len(q)))
  BY DEF Select
<1> DEFINE m == Least(slots, Len(q))
<1>2. IsFiniteSet(S)
  BY HarnessAssumption, FS_Subset
<1>3. /\ Len(q) \in Nat /\ \A i \in 1 .. Len(q) : q[i] \in S
      /\ \A i, j \in 1 .. Len(q) : q[i] = q[j] => i = j
  <2> HIDE DEF S
  <2> QED BY <1>2, OrderDistinct
<1>4. m \in Nat /\ m <= Len(q) /\ m <= slots
  BY <1>3, HarnessAssumption DEF TypeInv, SupTyped, Least
<1>5. \A i \in 1 .. m : q[i] \in S
  <2> HIDE DEF S, m
  <2> QED BY <1>3, <1>4
<1>6. /\ Len(SubSeq(q, 1, m)) = m
      /\ \A i \in 1 .. m : SubSeq(q, 1, m)[i] = q[i]
  <2> HIDE DEF S, m
  <2> QED BY <1>4, <1>5, SubSeqProperties
<1>7. S \cap started = {}
  OBVIOUS
<1> HIDE DEF S, m
<1>8. todo' = SubSeq(q, 1, m) =>
        /\ Len(todo') \in Nat /\ Len(todo') <= slots
        /\ \A i \in 1 .. Len(todo') : todo'[i] \notin started
        /\ \A i, j \in 1 .. Len(todo') : todo'[i] = todo'[j] => i = j
  BY <1>3, <1>4, <1>5, <1>6, <1>7
<1> QED
  BY <1>1, <1>8 DEF m

LEMMA SelectTracked == ASSUME TypeInv, TrackInv, Select PROVE TrackInv'
<1>1. UNCHANGED <<workerVars, handlerVars, started, sup, inactive>>
  BY DEF Select, memVars
<1>2. /\ pc' \in {"idle", "assign"} /\ after' \in {after, None}
      /\ \/ todo' = <<>>
         \/ /\ \A i, j \in 1 .. Len(todo') : todo'[i] = todo'[j] => i = j
            /\ \A i \in 1 .. Len(todo') : todo'[i] \notin started
  BY SelectChooses DEF ScanEnds
<1>3. PollTame'
  BY <1>1, <1>2 DEF TrackInv, PollTame
<1>4. AssignTracked'
  BY <1>1, <1>2 DEF AssignTracked, BeforeSplit, Releasing
<1> QED
  BY <1>1, <1>3, <1>4, SameHolders, FewerHolders DEF TrackInv

\* The bead is started before its worker is; nobody held it.
LEMMA NextAssignmentTracked == ASSUME TypeInv, TrackInv, NextAssignment PROVE TrackInv'
<1>1. UNCHANGED <<workerVars, handlerVars, sup, inactive>> /\ after' \in {after, None}
  BY DEF NextAssignment, ScanEnds
<1>2. CASE ScanEnds("health") /\ UNCHANGED started
  <2>1. PollTame' /\ AssignTracked'
    BY <1>1, <1>2, AssignOver DEF ScanEnds, TrackInv, PollTame, BeforeSplit, Releasing
  <2> QED BY <1>1, <1>2, <2>1, SameHolders, FewerHolders DEF TrackInv
<1>3. CASE /\ todo # <<>> /\ pc' = "claim" /\ todo' = Tail(todo) /\ cur' = Head(todo)
           /\ started' = started \cup {Head(todo)}
  <2>1. todo \in Seq(Bead) /\ Len(todo) \in Nat \ {0}
    BY <1>3, EmptySeq, LenProperties DEF TypeInv, SupTyped
  <2>2. /\ Head(todo) = todo[1] /\ Len(Tail(todo)) = Len(todo) - 1
        /\ \A i \in 1 .. Len(Tail(todo)) : Tail(todo)[i] = todo[i + 1]
    BY <1>3, <2>1, HeadTailProperties, SMT
  <2>3. ~BeadHeld(Head(todo))
    BY <2>1, <2>2 DEF TrackInv, AssignTracked, HoldersTracked, BeadHeld
  <2>4. PollTame'
    BY <1>1, <1>3 DEF TrackInv, PollTame
  <2>5. AssignTracked'
    <3>1. ~BeadHeld(cur)'
      BY <1>1, <1>3, <2>3, SameHolders
    <3>2. \A i \in 1 .. Len(todo') : todo'[i] \notin started'
      BY <1>3, <2>1, <2>2 DEF TrackInv, AssignTracked
    <3>3. \A i, j \in 1 .. Len(todo') : todo'[i] = todo'[j] => i = j
      BY <1>3, <2>1, <2>2 DEF TrackInv, AssignTracked
    <3> QED BY <1>3, <3>1, <3>2, <3>3 DEF AssignTracked
  <2> QED
    BY <1>1, <1>3, <2>4, <2>5, SameHolders, FewerHolders DEF TrackInv
<1> QED
  BY <1>2, <1>3 DEF NextAssignment

\* The claim, the worktree and the check of the panes: the bead stays started
\* and without a holder.
LEMMA ClaimTracked ==
    ASSUME TrackInv, Claim \/ ClaimRead \/ ClaimRecord \/ CreateWorktree \/ SpawnCheck
    PROVE  TrackInv'
<1>1. UNCHANGED <<workerVars, handlerVars, started, sup, inactive, todo, cur>>
  BY DEF Claim, ClaimRead, ClaimRecord, CreateWorktree, SpawnCheck, memVars
<1>2. /\ pc \in BeforeSplit /\ pc' \in BeforeSplit \cup {"relget", "failed"}
      /\ after' \in {after, "failed"}
  BY DEF Claim, ClaimRead, ClaimRecord, CreateWorktree, SpawnCheck, BeforeSplit, ReleaseThen,
         TrackInv, PollTame
<1>3. PollTame'
  BY <1>1, <1>2 DEF TrackInv, PollTame, BeforeSplit
<1>4. AssignTracked'
  <2>1. pc \in BeforeSplit => cur \in started
    BY DEF TrackInv, AssignTracked
  <2>2. pc' \in BeforeSplit => pc \in BeforeSplit /\ cur \in started'
    BY <1>1, <1>2, <2>1
  <2>3. \A b : BeadHeld(b)' => BeadHeld(b)
    BY <1>1, SameHolders
  <2>4. pc' \in Releasing \cup {"failed"} => pc \in BeforeSplit
    BY <1>2
  <2> QED BY <1>1, <2>2, <2>3, <2>4, AssignKept DEF TrackInv
<1> QED
  BY <1>1, <1>3, <1>4, SameHolders, FewerHolders DEF TrackInv

\* The new worker is the only holder of its bead, which is started.
LEMMA SplitWindowTracked ==
    ASSUME TypeInv, TrackInv, OneSignal, Tame, SplitWindow PROVE TrackInv'
<1>1. /\ pc = "split" /\ pc' = "titled"
      /\ UNCHANGED <<after, sup, started, inactive, todo, cur>>
  BY NoSuchMishap DEF SplitWindow
<1>2. PICK w \in Worker :
        /\ pane' = [pane EXCEPT ![w] = "boot"]
        /\ run' = [run EXCEPT ![w] = [bead |-> cur, state |-> seen[cur], action |-> None]]
        /\ hpc' = [hpc EXCEPT ![w] = [i \in Signal |-> "none"]]
        /\ signal' = [signal EXCEPT ![w] = [i \in Signal |-> NoSignal]]
  BY NoSuchMishap DEF SplitWindow
<1>3. /\ \A v \in Worker \ {w} : /\ pane'[v] = pane[v] /\ run'[v] = run[v]
                                /\ hpc'[v] = hpc[v] /\ signal'[v] = signal[v]
      /\ pane'[w] = "boot" /\ run'[w].bead = cur /\ hpc'[w][1] = "none"
  BY <1>2, SignalIsOne DEF TypeInv, WorkTyped, HandTyped
<1>4. \A v \in Worker \ {w} : Holds(v)' = Holds(v)
  BY <1>3 DEF Holds, Working, FreedBy, KindOf
<1>5. cur \in started /\ ~BeadHeld(cur)
  BY <1>1 DEF TrackInv, AssignTracked, BeforeSplit
<1>6. HoldersTracked'
  BY <1>1, <1>3, <1>4, <1>5 DEF TrackInv, HoldersTracked, BeadHeld
<1>7. WorkersTame'
  BY <1>3 DEF TrackInv, WorkersTame, HandlerBusy, BeadOf, KindOf
<1>8. PollTame' /\ AssignTracked'
  BY <1>1, AssignOver DEF TrackInv, PollTame, BeforeSplit, Releasing
<1> QED
  BY <1>6, <1>7, <1>8 DEF TrackInv

\* The title fails when no live worker has the bead.
LEMMA RecordSpawnedTracked == ASSUME TrackInv, Tame, RecordSpawned PROVE TrackInv'
<1>1. UNCHANGED <<workerVars, handlerVars, started, sup, inactive, todo, cur>>
  BY DEF RecordSpawned, memVars
<1>2. \/ pc' = "assign" /\ after' = after
      \/ pc' = "relget" /\ after' = "failed" /\ cur \notin LiveBeads
  BY NoSuchMishap DEF RecordSpawned, ReleaseThen
<1>3. cur \notin LiveBeads => ~BeadHeld(cur)
  BY DEF BeadHeld, Holds, Working, LiveBeads, LivePanes, Live
<1>4. PollTame'
  BY <1>1, <1>2 DEF TrackInv, PollTame
<1>5. AssignTracked'
  BY <1>1, <1>2, <1>3, SameHolders DEF TrackInv, AssignTracked, BeforeSplit, Releasing
<1> QED
  BY <1>1, <1>4, <1>5, SameHolders, FewerHolders DEF TrackInv

\* The release of an assignment that failed, and its end: the bead that leaves
\* `started' has no holder.
LEMMA ReleaseTracked ==
    ASSUME TypeInv, TrackInv, ReleaseRead \/ ReleaseReopen \/ ReleaseRecord \/ AssignmentFailed
    PROVE  TrackInv'
<1>1. UNCHANGED <<workerVars, handlerVars, sup, inactive>>
  BY DEF ReleaseRead, ReleaseReopen, ReleaseRecord, AssignmentFailed, memVars
<1>2. CASE ReleaseRead \/ ReleaseReopen \/ ReleaseRecord
  <2>1. UNCHANGED <<started, todo, cur, after>> /\ pc \in Releasing
    BY <1>2 DEF ReleaseRead, ReleaseReopen, ReleaseRecord, memVars, Releasing
  <2>2. after = "failed"
    BY <2>1 DEF TypeInv, SupTyped, TrackInv, PollTame, None
  <2>3. pc' \in Releasing \cup {"failed"}
    BY <1>2, <2>2 DEF ReleaseRead, ReleaseReopen, ReleaseRecord, Releasing
  <2>4. PollTame'
    BY <1>1, <2>1, <2>3 DEF TrackInv, PollTame, Releasing
  <2>5. AssignTracked'
    <3>1. \A b : BeadHeld(b)' => BeadHeld(b)
      BY <1>1, SameHolders
    <3>2. pc' \notin BeforeSplit
      BY <2>3 DEF BeforeSplit, Releasing
    <3> QED BY <2>1, <3>1, <3>2, AssignKept DEF TrackInv
  <2> QED
    BY <1>1, <2>1, <2>4, <2>5, SameHolders, FewerHolders DEF TrackInv
<1>3. CASE AssignmentFailed
  <2>1. /\ pc = "failed" /\ pc' = "assign" /\ after' = None /\ UNCHANGED <<todo, cur>>
        /\ started' = started \ {cur}
    BY <1>3 DEF AssignmentFailed, TrackInv, PollTame
  <2>2. ~BeadHeld(cur)
    BY <2>1 DEF TrackInv, AssignTracked
  <2>3. PollTame' /\ AssignTracked'
    BY <1>1, <2>1, AssignOver DEF TrackInv, PollTame, BeforeSplit, Releasing
  <2> QED
    BY <1>1, <2>1, <2>2, <2>3, SameHolders, FewerHolders DEF TrackInv, BeadHeld
<1> QED BY <1>2, <1>3

\* The poll step of a coordinator that nobody stops.
LEMMA SupervisorTracked ==
    ASSUME TypeInv, TrackInv, OneSignal, Tame, SupervisorStep PROVE TrackInv'
<1>1. ~Kill /\ ~Recovered
  BY DEF Kill, Recovered, TrackInv, PollTame
<1> QED
  BY <1>1, LoopTracked, ReconcileTracked, SelectTracked, NextAssignmentTracked, ClaimTracked,
     SplitWindowTracked, RecordSpawnedTracked, ReleaseTracked DEF SupervisorStep

-----------------------------------------------------------------------------
\* A worker that goes on, waits, ends or dies; only its own pane changes.
LEMMA PaneTracked ==
    ASSUME TypeInv, TrackInv, NEW w \in Worker, NEW p,
           pane' = [pane EXCEPT ![w] = p], UNCHANGED <<supVars, started>>,
           run' = [run EXCEPT ![w] = run'[w]], p # "none" => run'[w].bead = run[w].bead /\ run'[w].state = run[w].state,
           \A v \in Worker \ {w} : hpc'[v] = hpc[v] /\ signal'[v] = signal[v],
           Holds(w)' => Holds(w), Holds(w)' => p # "none", WorkersTame'
    PROVE  TrackInv' /\ HoldersStay
<1>1. \A v \in Worker \ {w} : pane'[v] = pane[v] /\ run'[v] = run[v]
  BY DEF TypeInv, WorkTyped
<1>2. \A v \in Worker \ {w} : Holds(v)' = Holds(v)
  BY <1>1 DEF Holds, Working, FreedBy, KindOf
<1>3. HoldersStay
  BY <1>1, <1>2 DEF HoldersStay
<1>4. HoldersTracked' /\ \A b : BeadHeld(b)' => BeadHeld(b)
  BY <1>3, FewerHolders DEF TrackInv, HoldersStay, supVars
<1>5. PollTame'
  BY DEF supVars, TrackInv, PollTame
<1>6. AssignTracked'
  BY <1>4 DEF supVars, TrackInv, AssignTracked
<1> QED
  BY <1>3, <1>4, <1>5, <1>6 DEF TrackInv

\* The same without a change of the handlers.
LEMMA PaneMoves ==
    ASSUME TypeInv, TrackInv, NEW w \in Worker, NEW p \in PaneState \ {"stall"},
           pane' = [pane EXCEPT ![w] = p], UNCHANGED <<supVars, started, handlerVars>>,
           run' = [run EXCEPT ![w] = run'[w]],
           p # "none" => run'[w].bead = run[w].bead /\ run'[w].state = run[w].state,
           Holds(w)' => Holds(w), pane[w] # "wait" \/ ~HandlerBusy(w, 1),
           p # "wait", p \in {"boot", "tools", "work"} => hpc[w][1] \in {"none", "failed"},
           p = "exiting" => hpc[w][1] # "none"
    PROVE  TrackInv' /\ HoldersStay
<1>1. pane'[w] = p /\ \A v \in Worker \ {w} : pane'[v] = pane[v] /\ run'[v] = run[v]
  BY DEF TypeInv, WorkTyped
<1>2. ~HandlerBusy(w, 1)
  BY DEF TrackInv, WorkersTame
<1>3. WorkersTame'
  BY <1>1, <1>2 DEF TrackInv, WorkersTame, handlerVars, HandlerBusy, BeadOf, KindOf
<1>4. Holds(w)' => p # "none"
  BY <1>1 DEF Holds, Working
<1> QED
  BY <1>3, <1>4, PaneTracked DEF handlerVars

\* The steps of a worker that leave its handler alone.
LEMMA WorkerMoves ==
    ASSUME TypeInv, TrackInv, OneSignal, NEW w \in Worker,
           WorkerInit(w) \/ RunToolActions(w) \/ Answered(w) \/ Shutdown(w) \/ Die(w) \/ GiveUp(w)
    PROVE  TrackInv' /\ HoldersStay
<1>1. UNCHANGED <<supVars, started, handlerVars>>
  BY DEF WorkerInit, RunToolActions, Answered, Shutdown, Die, GiveUp, SetPane, memVars
<1>2. /\ pane[w] \in PaneState /\ run \in [Worker -> Run] /\ pane \in [Worker -> PaneState]
      /\ Signal = {1}
  BY SignalIsOne DEF TypeInv, WorkTyped
<1>3. CASE WorkerInit(w) \/ RunToolActions(w)
  <2>1. PICK p \in {"tools", "work"} : pane' = [pane EXCEPT ![w] = p]
    BY <1>3 DEF WorkerInit, RunToolActions
  <2>2. pane[w] \in {"boot", "tools"}
    BY <1>3 DEF WorkerInit, RunToolActions
  <2>3. /\ run' = [run EXCEPT ![w] = run'[w]]
        /\ run'[w].bead = run[w].bead /\ run'[w].state = run[w].state
    <3>1. CASE WorkerInit(w)
      <4>1. PICK a : run' = [run EXCEPT ![w].action = a]
        BY <3>1 DEF WorkerInit
      <4> QED BY <1>2, <4>1 DEF Run
    <3>2. CASE RunToolActions(w)
      BY <1>2, <3>2 DEF RunToolActions
    <3> QED BY <1>3, <3>1, <3>2
  <2>4. hpc[w][1] \in {"none", "failed"} /\ Holds(w)
    BY <2>2 DEF TrackInv, WorkersTame, Holds, Working
  <2> QED
    BY <1>1, <2>1, <2>2, <2>3, <2>4, PaneMoves DEF PaneState
<1>4. CASE Answered(w)
  <2>1. /\ pane[w] = "wait" /\ UNCHANGED run
        /\ \/ hpc[w][1] = "done" /\ pane' = [pane EXCEPT ![w] = "exiting"]
           \/ hpc[w][1] \in {"none", "failed"} /\ pane' = [pane EXCEPT ![w] = "work"]
    BY <1>2, <1>4 DEF Answered
  <2>2. run' = [run EXCEPT ![w] = run'[w]] /\ ~HandlerBusy(w, 1)
    BY <1>2, <2>1 DEF HandlerBusy
  <2>3. pane'[w] = "exiting" => ~Holds(w)'
    BY DEF Holds, Working
  <2>4. hpc[w][1] \in {"none", "failed"} => Holds(w)
    BY <2>1 DEF Holds, FreedBy, Releasing
  <2>5. CASE hpc[w][1] = "done" /\ pane' = [pane EXCEPT ![w] = "exiting"]
    BY <1>1, <1>2, <2>1, <2>2, <2>3, <2>5, PaneMoves DEF PaneState
  <2>6. CASE hpc[w][1] \in {"none", "failed"} /\ pane' = [pane EXCEPT ![w] = "work"]
    BY <1>1, <2>1, <2>2, <2>4, <2>6, PaneMoves DEF PaneState
  <2> QED BY <2>1, <2>5, <2>6
<1>5. CASE Shutdown(w) \/ Die(w)
  <2>1. /\ pane[w] \in {"exiting", "boot", "tools", "work", "stall"}
        /\ pane' = [pane EXCEPT ![w] = "none"] /\ run' = [run EXCEPT ![w] = NoRun]
    BY <1>5 DEF Shutdown, Die, SetPane
  <2>2. run' = [run EXCEPT ![w] = run'[w]] /\ pane'[w] = "none"
    BY <1>2, <2>1
  <2>3. ~Holds(w)'
    BY <2>2 DEF Holds, Working
  <2> QED
    BY <1>1, <2>1, <2>2, <2>3, PaneMoves DEF PaneState
<1>6. CASE GiveUp(w)
  <2>1. /\ pane[w] = "work" /\ hpc[w][1] = "failed" /\ UNCHANGED run
        /\ pane' = [pane EXCEPT ![w] = "exiting"]
    BY <1>2, <1>6 DEF GiveUp, TrackInv, PollTame
  <2>2. run' = [run EXCEPT ![w] = run'[w]] /\ pane'[w] = "exiting"
    BY <1>2, <2>1
  <2>3. ~Holds(w)'
    BY <2>2 DEF Holds, Working
  <2> QED
    BY <1>1, <2>1, <2>2, <2>3, PaneMoves DEF PaneState
<1> QED BY <1>3, <1>4, <1>5, <1>6

\* A signal is posted by a worker at work, which then waits.
LEMMA PostTracked ==
    ASSUME TypeInv, TrackInv, OneSignal, NEW w \in Worker, NEW i \in Signal, NEW k \in Kind,
           Post(w, i, k)
    PROVE  TrackInv' /\ HoldersStay
<1>1. i = 1 /\ Signal = {1}
  BY SignalIsOne
<1>2. PICK key :
        /\ pane[w] \in {"work", "wait", "exiting"} /\ hpc[w][1] = "none"
        /\ pane' = [pane EXCEPT ![w] = "wait"] /\ UNCHANGED <<supVars, memVars, run>>
        /\ signal' = [signal EXCEPT ![w][1] =
                        [kind |-> k, key |-> key, bead |-> run[w].bead, state |-> run[w].state,
                         action |-> run[w].action, next |-> None]]
        /\ hpc' = [hpc EXCEPT ![w][1] = "received"]
  BY <1>1 DEF Post
<1>3. /\ pane'[w] = "wait" /\ hpc'[w][1] = "received"
      /\ signal'[w][1].bead = run[w].bead /\ signal'[w][1].state = run[w].state
      /\ signal'[w][1].kind = k
      /\ \A v \in Worker \ {w} : /\ pane'[v] = pane[v] /\ run'[v] = run[v]
                                /\ hpc'[v] = hpc[v] /\ signal'[v] = signal[v]
  BY <1>1, <1>2 DEF TypeInv, WorkTyped, HandTyped
<1>4. pane[w] = "work" /\ Holds(w)
  BY <1>2 DEF TrackInv, WorkersTame, Holds, Working
<1>5. WorkersTame'
  BY <1>2, <1>3 DEF TrackInv, WorkersTame, HandlerBusy, BeadOf, KindOf
<1>6. run' = [run EXCEPT ![w] = run'[w]]
  BY <1>2 DEF TypeInv, WorkTyped
<1> QED
  BY <1>2, <1>3, <1>4, <1>5, <1>6, PaneTracked DEF memVars

-----------------------------------------------------------------------------
\* What the steps of a handler have in common.  A bead leaves `started' when a
\* handler that still holds it ends, or goes on to the release of an EXITED.
LEMMA HandlerGoes ==
    ASSUME TypeInv, TrackInv, OneSignal, NEW w \in Worker, NEW i \in Signal, HandlerStep(w, i)
    PROVE  \E to \in HandlerPC \ {"none", "received"} : \E next :
              /\ HandlerKeeps(w, 1, hpc[w][1], to, next) /\ HandlerBusy(w, 1)
              /\ KindOf(w, 1) = "EXITED" =>
                    to \in Releasing \cup {"done"} \/ (to = "failed" /\ hpc[w][1] = "received")
              /\ \/ started' = started
                 \/ /\ hpc[w][1] \in {"received", "exit"} /\ started' = started \ {BeadOf(w, 1)}
                    /\ to = "done" \/ (to = "relget" /\ KindOf(w, 1) = "EXITED")
<1>1. i = 1
  BY SignalIsOne
<1>2. ASSUME HandlerBusy(w, 1), KindOf(w, 1) = "EXITED"
      PROVE  hpc[w][1] \in {"received"} \cup Releasing
  BY <1>2 DEF TrackInv, WorkersTame
<1>3. CASE Receive(w, i)
  BY <1>1, <1>3 DEF Receive, Handler, HandlerKeeps, HandlerBusy, HandlerPC, Exited, Releasing, memVars
<1>4. CASE GetBead(w, i)
  BY <1>1, <1>2, <1>4 DEF GetBead, Handler, HandlerKeeps, HandlerBusy, HandlerPC, Releasing, memVars
<1>5. CASE RecordOutcome(w, i) \/ Merge(w, i)
  BY <1>1, <1>2, <1>5 DEF RecordOutcome, Merge, Handler, HandlerKeeps, HandlerBusy, HandlerPC,
                          Releasing, memVars
<1>6. CASE Close(w, i) \/ CloseRecord(w, i) \/ Block(w, i) \/ BlockRecord(w, i)
           \/ RemoveWorktree(w, i)
  BY <1>1, <1>2, <1>6 DEF Close, CloseRecord, Block, BlockRecord, RemoveWorktree, SetIssue,
                          RecordIssue, Handler, HandlerKeeps, HandlerBusy, HandlerPC, Releasing,
                          memVars
<1>7. CASE HandlerReleaseRead(w, i) \/ HandlerReleaseReopen(w, i) \/ HandlerReleaseRecord(w, i)
  BY <1>1, <1>7 DEF HandlerReleaseRead, HandlerReleaseReopen, HandlerReleaseRecord, AfterRelease,
                    Handler, HandlerKeeps, HandlerBusy, HandlerPC, Releasing, memVars
<1>8. CASE HandlerExit(w, i)
  BY <1>1, <1>2, <1>8 DEF HandlerExit, Exited, Handler, HandlerKeeps, HandlerBusy, HandlerPC,
                          Releasing
<1> QED
  BY <1>3, <1>4, <1>5, <1>6, <1>7, <1>8 DEF HandlerStep

\* A handler's place and what it knows of the signal, after its step.
LEMMA HandlerPlace ==
    ASSUME TypeInv, OneSignal, NEW w \in Worker, NEW to \in HandlerPC, NEW next,
           HandlerBusy(w, 1), HandlerKeeps(w, 1, hpc[w][1], to, next)
    PROVE  /\ hpc'[w][1] = to
           /\ to \notin {"done", "failed"} =>
                 /\ signal'[w][1].kind = signal[w][1].kind
                 /\ signal'[w][1].bead = signal[w][1].bead
                 /\ signal'[w][1].state = signal[w][1].state
                 /\ signal'[w][1].action = signal[w][1].action
                 /\ signal'[w][1].next = next
           /\ \A v \in Worker \ {w} : hpc'[v] = hpc[v] /\ signal'[v] = signal[v]
<1>1. Signal = {1} /\ hpc \in [Worker -> [Signal -> HandlerPC]]
      /\ signal \in [Worker -> [Signal -> Sent]]
  BY SignalIsOne DEF TypeInv, HandTyped
<1>2. hpc'[w][1] = to /\ \A v \in Worker \ {w} : hpc'[v] = hpc[v] /\ signal'[v] = signal[v]
  BY <1>1 DEF HandlerKeeps
<1>3. to \notin {"done", "failed"} => signal'[w][1] = [signal[w][1] EXCEPT !.next = next]
  BY <1>1 DEF HandlerKeeps
<1>4. signal[w][1] \in Sent
  BY <1>1
<1> QED
  BY <1>2, <1>3, <1>4 DEF Sent

LEMMA HandlerOnlyMoves ==
    ASSUME NEW w, NEW i, HandlerStep(w, i) PROVE UNCHANGED <<supVars, workerVars>>
BY DEF HandlerStep, Receive, GetBead, RecordOutcome, Merge, Close, CloseRecord, Block,
       BlockRecord, SetIssue, RecordIssue, RemoveWorktree, HandlerReleaseRead,
       HandlerReleaseReopen, HandlerReleaseRecord, HandlerExit, HandlerOnly

LEMMA HandlerTracked ==
    ASSUME TypeInv, TrackInv, OneSignal, NEW w \in Worker, NEW i \in Signal, HandlerStep(w, i)
    PROVE  TrackInv'
<1>1. PICK to \in HandlerPC \ {"none", "received"} : \E next :
        /\ HandlerKeeps(w, 1, hpc[w][1], to, next) /\ HandlerBusy(w, 1)
        /\ KindOf(w, 1) = "EXITED" =>
              to \in Releasing \cup {"done"} \/ (to = "failed" /\ hpc[w][1] = "received")
        /\ \/ started' = started
           \/ /\ hpc[w][1] \in {"received", "exit"} /\ started' = started \ {BeadOf(w, 1)}
              /\ to = "done" \/ (to = "relget" /\ KindOf(w, 1) = "EXITED")
  BY HandlerGoes
<1>2. UNCHANGED <<supVars, workerVars>>
  BY HandlerOnlyMoves
<1>3. /\ hpc'[w][1] = to
      /\ to \notin {"done", "failed"} =>
            /\ KindOf(w, 1)' = KindOf(w, 1) /\ BeadOf(w, 1)' = BeadOf(w, 1)
            /\ signal'[w][1].state = signal[w][1].state
      /\ \A v \in Worker \ {w} : hpc'[v] = hpc[v] /\ signal'[v] = signal[v]
  BY <1>1, HandlerPlace DEF KindOf, BeadOf
<1>4. pane[w] = "wait" /\ BeadOf(w, 1) = run[w].bead
  BY <1>1 DEF TrackInv, WorkersTame
<1>5. \A v \in Worker \ {w} : Holds(v)' = Holds(v)
  BY <1>2, <1>3 DEF Holds, Working, FreedBy, KindOf, workerVars
<1>6. Holds(w)' => Holds(w)
  BY <1>1, <1>2, <1>3, <1>4 DEF Holds, Working, FreedBy, HandlerBusy, Releasing, workerVars
<1>7. \A v \in Worker : Holds(v)' => Holds(v) /\ run'[v].bead = run[v].bead
  BY <1>2, <1>5, <1>6 DEF workerVars
<1>8. \A v \in Worker : Holds(v)' /\ run[v].bead \in started => run[v].bead \in started'
  <2>1. CASE started' = started
    BY <2>1
  <2>2. CASE /\ hpc[w][1] \in {"received", "exit"} /\ started' = started \ {run[w].bead}
             /\ to = "done" \/ (to = "relget" /\ KindOf(w, 1) = "EXITED")
    <3>1. Holds(w)
      BY <2>2, <1>4 DEF Holds, FreedBy, Releasing
    <3>2. ~Holds(w)'
      BY <2>2, <1>2, <1>3, <1>4 DEF Holds, Working, FreedBy, Releasing, workerVars
    <3>3. \A v \in Worker : Holds(v)' => run[v].bead # run[w].bead
      BY <1>7, <3>1, <3>2 DEF TrackInv, HoldersTracked
    <3> QED BY <2>2, <3>3
  <2> QED BY <1>1, <1>4, <2>1, <2>2
<1>9. HoldersTracked' /\ \A b : BeadHeld(b)' => BeadHeld(b)
  BY <1>7, <1>8, FewerHolders DEF TrackInv
<1>10. PollTame'
  BY <1>2 DEF TrackInv, PollTame, supVars
<1>11. AssignTracked'
  <2>1. started' \subseteq started
    BY <1>1
  <2>2. pc \in BeforeSplit => cur \in started'
    BY <1>1, <1>4 DEF TrackInv, AssignTracked, BeadHeld, Holds, FreedBy, Releasing
  <2> QED
    BY <1>2, <1>9, <2>1, <2>2, AssignKept DEF TrackInv, supVars
<1>12. WorkersTame'
  BY <1>1, <1>2, <1>3, <1>4 DEF TrackInv, WorkersTame, HandlerBusy, BeadOf, KindOf, workerVars
<1> QED
  BY <1>9, <1>10, <1>11, <1>12 DEF TrackInv

\* Time and stutters.
LEMMA ClockTracked ==
    ASSUME TrackInv, PauseEnds \/ UNCHANGED vars \/ \E b \in Bead : LeaseExpires(b)
    PROVE  TrackInv'
<1>1. UNCHANGED <<supVars, started, workerVars, handlerVars>>
  BY DEF PauseEnds, LeaseExpires, vars, memVars
<1>2. PollTame' /\ AssignTracked'
  BY <1>1, SameHolders DEF TrackInv, PollTame, AssignTracked, supVars
<1> QED
  BY <1>1, <1>2, SameHolders, FewerHolders DEF TrackInv

\* The steps that remain when nothing stops, stalls or takes away a worker.
LEMMA TameSteps ==
    ASSUME Tame, TrackInv, [Next]_vars
    PROVE  \/ SupervisorStep
           \/ \E w \in Worker : \/ WorkerInit(w) \/ RunToolActions(w) \/ Answered(w)
                                \/ Shutdown(w) \/ Die(w) \/ GiveUp(w)
           \/ \E w \in Worker, i \in Signal, k \in Kind : Post(w, i, k)
           \/ \E w \in Worker, i \in Signal : HandlerStep(w, i)
           \/ PauseEnds \/ UNCHANGED vars \/ \E b \in Bead : LeaseExpires(b)
<1>1. ~Stopped /\ ~StartAgain
  BY DEF TrackInv, PollTame, Stopped, StartAgain
<1>2. ~Stop /\ ~Crash /\ \A w \in Worker : ~Stall(w) /\ ~Vanish(w)
  BY NoSuchMishap DEF Stop, Crash, Stall, Vanish
<1>3. \A w \in Worker : ~Resume(w)
  BY DEF TrackInv, WorkersTame, Resume, SetPane
<1> QED
  BY <1>1, <1>2, <1>3 DEF Next, WorkerStep, Misfortune

LEMMA TrackStep ==
    ASSUME TypeInv, TrackInv, OneSignal, Tame, [Next]_vars PROVE TrackInv'
BY TameSteps, SupervisorTracked, WorkerMoves, PostTracked, HandlerTracked, ClockTracked

LEMMA TrackHolds == ASSUME OneSignal, Tame PROVE Spec => []TrackInv
<1>1. Init => TrackInv
  BY TrackInit
<1>2. TypeInv /\ TrackInv /\ [Next]_vars => TrackInv'
  BY TrackStep
<1> QED
  BY <1>1, <1>2, TypeInvHolds, PTL DEF Spec

\* markBeadExited, the reaping of missing panes and the catch block of the
\* assignments never free a slot that is in use: every working worker's bead is
\* in startedBeads, whatever commands of bd, git and the tools fail and whichever
\* workers die.
THEOREM WorkTracked == ASSUME OneSignal, Tame PROVE Spec => []WorkIsTracked
<1>1. TrackInv => WorkIsTracked
  <2> SUFFICES ASSUME TrackInv, NEW w \in Working PROVE run[w].bead \in started
    BY DEF WorkIsTracked
  <2> QED BY DEF TrackInv, HoldersTracked, Holds, Working
<1> QED BY <1>1, TrackHolds, PTL

\* Two workers never work on one bead, with any number of slots, beads and
\* workers, although leases run out and scans are stale.
THEOREM WorkersAlone == ASSUME OneSignal, Tame PROVE Spec => []OneWorkerPerBead
<1>1. TrackInv => OneWorkerPerBead
  BY DEF TrackInv, HoldersTracked, Holds, OneWorkerPerBead, Working
<1> QED BY <1>1, TrackHolds, PTL

-----------------------------------------------------------------------------
(* Closed beads.                                                           *)

\* Where a handler that may have closed its bead stands.
Closing == {"closerecord", "rmtree", "exit", "failed"}

\* Where the poll step relies on its bead's not being closed.
Unclosed == {"claimrecord", "worktree", "spawn", "split", "relset"}

ClosedInv ==
    /\ \A w \in Worker : hpc[w][1] = "close" => merged[BeadOf(w, 1)]
    /\ \A b \in Bead : issue[b] = "closed" => merged[b]
    /\ \A w \in Worker : Holds(w) /\ issue[run[w].bead] = "closed" => hpc[w][1] \in Closing
    /\ pc \in Unclosed => issue[cur] # "closed"

\* A holder's bead is one, and a busy handler of no EXITED holds it.
LEMMA HolderTyped == ASSUME TypeInv, NEW w \in Worker, Holds(w) PROVE run[w].bead \in Bead
BY DEF TypeInv, WorkTyped, Holds, Working

LEMMA BusyHolds ==
    ASSUME TrackInv, NEW w \in Worker, HandlerBusy(w, 1),
           KindOf(w, 1) # "EXITED" \/ hpc[w][1] \notin Releasing
    PROVE  Holds(w) /\ BeadOf(w, 1) = run[w].bead /\ pane[w] = "wait"
BY DEF TrackInv, WorkersTame, Holds, FreedBy, HandlerBusy

\* Nothing closes: the issues may only open.
LEMMA NothingCloses ==
    ASSUME TypeInv, ClosedInv, NEW W, W = Worker,
           \A w \in W : Holds(w)' => /\ Holds(w) /\ run'[w].bead = run[w].bead
                                     /\ hpc[w][1] \in Closing => hpc'[w][1] \in Closing,
           \A w \in W : hpc'[w][1] = "close" =>
                            hpc[w][1] = "close" /\ signal'[w][1].bead = signal[w][1].bead,
           \A b \in Bead : issue'[b] = "closed" => issue[b] = "closed", UNCHANGED merged,
           pc' \in Unclosed => issue'[cur'] # "closed"
    PROVE  ClosedInv'
<1>1. \A w \in Worker : Holds(w)' /\ issue'[run'[w].bead] = "closed" => hpc'[w][1] \in Closing
  BY HolderTyped DEF ClosedInv
<1>2. \A w \in Worker : hpc'[w][1] = "close" => merged'[BeadOf(w, 1)']
  BY DEF ClosedInv, BeadOf
<1> QED
  BY <1>1, <1>2 DEF ClosedInv

LEMMA ClosedInit == ASSUME Init, OneSignal PROVE ClosedInv
<1>1. \A w \in Worker : hpc[w][1] = "none" /\ ~Holds(w)
  BY SignalIsOne DEF Init, Holds, Working
<1> QED
  BY <1>1 DEF Init, ClosedInv, Unclosed

\* The poll step never closes a bead, and it claims and reopens none that is.
LEMMA SupervisorCloses ==
    ASSUME TypeInv, TrackInv, ClosedInv, OneSignal, Tame, SupervisorStep PROVE ClosedInv'
<1>1. UNCHANGED merged
  BY DEF SupervisorStep, Poll, Reconcile, FindSlots, ScanReady, ScanInProgress, Select, ScanFails,
         NextAssignment, Claim, ClaimRead, ClaimRecord, CreateWorktree, SpawnCheck, SplitWindow,
         RecordSpawned, ReleaseRead, ReleaseReopen, ReleaseRecord, AssignmentFailed, CheckHealth,
         Recover, Kill, Recovered, bdVars
<1>2. ASSUME UNCHANGED <<workerVars, handlerVars>>,
             \A b \in Bead : issue'[b] = "closed" => issue[b] = "closed",
             pc' \in Unclosed => issue'[cur'] # "closed"
      PROVE  ClosedInv'
  BY <1>1, <1>2, NothingCloses, SameHolders DEF handlerVars
<1>3. CASE Poll \/ Reconcile \/ FindSlots \/ ScanReady \/ ScanInProgress \/ Select \/ ScanFails
           \/ NextAssignment \/ RecordSpawned \/ ReleaseRecord \/ AssignmentFailed \/ CheckHealth
           \/ Recover
  <2>1. UNCHANGED <<workerVars, handlerVars, issue>>
    BY <1>3 DEF Poll, Reconcile, FindSlots, ScanReady, ScanInProgress, Select, ScanFails,
                NextAssignment, RecordSpawned, ReleaseRecord, AssignmentFailed, CheckHealth,
                Recover, bdVars
  <2>2. pc = "relrecord" => after = "failed"
    BY DEF TypeInv, SupTyped, TrackInv, PollTame, Releasing, None
  <2>3. pc' \notin Unclosed
    BY <1>3, <2>2 DEF Poll, Reconcile, FindSlots, ScanReady, ScanInProgress, Select, ScanFails,
                NextAssignment, RecordSpawned, ReleaseRecord, AssignmentFailed, CheckHealth,
                Recover, ScanEnds, ReleaseThen, Unclosed
  <2> QED BY <1>2, <2>1, <2>3
<1>4. CASE ClaimRead \/ ClaimRecord \/ CreateWorktree \/ SpawnCheck \/ ReleaseRead
  <2>1. UNCHANGED <<workerVars, handlerVars, issue, cur>>
    BY <1>4 DEF ClaimRead, ClaimRecord, CreateWorktree, SpawnCheck, ReleaseRead, bdVars
  <2>2. pc = "relget" => after = "failed"
    BY DEF TypeInv, SupTyped, TrackInv, PollTame, Releasing, None
  <2>3. pc' \in Unclosed => pc \in Unclosed \/ issue[cur] = "in_progress"
    BY <1>4, <2>2 DEF ClaimRead, ClaimRecord, CreateWorktree, SpawnCheck, ReleaseRead, ReleaseThen,
                      Unclosed
  <2> QED BY <1>2, <2>1, <2>3 DEF ClosedInv
<1>5. CASE Claim
  <2>1. \/ UNCHANGED issue /\ pc' = "claimread"
        \/ issue' = [issue EXCEPT ![cur] = "in_progress"] /\ pc' \in {"claimread", "claimrecord"}
    BY <1>5 DEF Claim
  <2>2. cur \in Bead /\ issue \in [Bead -> IssueStatus] /\ cur' = cur
    BY <1>5 DEF Claim, TypeInv, SupTyped, BdTyped, Claiming
  <2>3. \A b \in Bead : issue'[b] = "closed" => issue[b] = "closed"
    BY <2>1, <2>2
  <2>4. pc' \in Unclosed => issue'[cur'] # "closed"
    BY <2>1, <2>2 DEF Unclosed
  <2> QED BY <1>2, <1>5, <2>3, <2>4 DEF Claim
<1>6. CASE ReleaseReopen
  <2>1. cur \in Bead /\ issue \in [Bead -> IssueStatus]
    BY <1>6 DEF ReleaseReopen, TypeInv, SupTyped, BdTyped, Releasing
  <2>2. issue' \in {issue, [issue EXCEPT ![cur] = "open"]} /\ after = "failed"
        /\ pc' \in {"relrecord", after}
    BY <1>6 DEF ReleaseReopen, TypeInv, SupTyped, TrackInv, PollTame, Releasing, None
  <2>3. (\A b \in Bead : issue'[b] = "closed" => issue[b] = "closed") /\ pc' \notin Unclosed
    BY <2>1, <2>2 DEF Unclosed
  <2> QED BY <1>2, <1>6, <2>3 DEF ReleaseReopen
<1>7. CASE SplitWindow
  <2>1. PICK w \in Worker :
        /\ pane' = [pane EXCEPT ![w] = "boot"]
        /\ run' = [run EXCEPT ![w] = [bead |-> cur, state |-> seen[cur], action |-> None]]
        /\ hpc' = [hpc EXCEPT ![w] = [i \in Signal |-> "none"]]
        /\ signal' = [signal EXCEPT ![w] = [i \in Signal |-> NoSignal]]
    BY <1>7, NoSuchMishap DEF SplitWindow
  <2>2. pc = "split" /\ pc' = "titled" /\ UNCHANGED <<issue, merged, cur>>
    BY <1>7, NoSuchMishap DEF SplitWindow, bdVars
  <2>3. /\ \A v \in Worker \ {w} : /\ pane'[v] = pane[v] /\ run'[v] = run[v]
                                  /\ hpc'[v] = hpc[v] /\ signal'[v] = signal[v]
        /\ run'[w].bead = cur /\ hpc'[w][1] = "none"
    BY <2>1, SignalIsOne DEF TypeInv, WorkTyped, HandTyped
  <2>4. \A v \in Worker \ {w} : Holds(v)' = Holds(v)
    BY <2>3 DEF Holds, Working, FreedBy, KindOf
  <2>5. issue[cur] # "closed"
    BY <2>2 DEF ClosedInv, Unclosed
  <2>6. \A v \in Worker : Holds(v)' /\ issue'[run'[v].bead] = "closed" => hpc'[v][1] \in Closing
    BY <2>2, <2>3, <2>4, <2>5 DEF ClosedInv
  <2>7. \A v \in Worker : hpc'[v][1] = "close" => merged'[BeadOf(v, 1)']
    BY <2>2, <2>3 DEF ClosedInv, BeadOf
  <2> QED BY <2>2, <2>6, <2>7 DEF ClosedInv, Unclosed
<1>8. ~Kill /\ ~Recovered
  BY DEF Kill, Recovered, TrackInv, PollTame
<1> QED
  BY <1>3, <1>4, <1>5, <1>6, <1>7, <1>8 DEF SupervisorStep

\* What the workers' own steps leave alone.
LEMMA WorkersClose ==
    ASSUME TypeInv, TrackInv, ClosedInv, OneSignal, NEW w \in Worker,
           \/ WorkerInit(w) \/ RunToolActions(w) \/ Answered(w) \/ Shutdown(w) \/ Die(w)
           \/ GiveUp(w) \/ \E i \in Signal, k \in Kind : Post(w, i, k)
    PROVE  ClosedInv'
<1>1. UNCHANGED <<supVars, issue, merged>>
  BY DEF WorkerInit, RunToolActions, Answered, Shutdown, Die, GiveUp, Post, SetPane, bdVars
<1>2. CASE WorkerInit(w) \/ RunToolActions(w) \/ Answered(w) \/ Shutdown(w) \/ Die(w) \/ GiveUp(w)
  <2>1. UNCHANGED handlerVars
    BY <1>2 DEF WorkerInit, RunToolActions, Answered, Shutdown, Die, GiveUp, SetPane
  <2>2. \A v \in Worker : Holds(v)' => Holds(v) /\ run'[v].bead = run[v].bead
    BY <1>2, WorkerMoves DEF HoldersStay
  <2> QED BY <1>1, <2>1, <2>2, NothingCloses DEF handlerVars, supVars, ClosedInv
<1>3. CASE \E i \in Signal, k \in Kind : Post(w, i, k)
  <2>1. /\ hpc[w][1] = "none" /\ hpc' = [hpc EXCEPT ![w][1] = "received"]
        /\ \E m : signal' = [signal EXCEPT ![w][1] = m]
    <3>1. PICK i \in Signal, k \in Kind : Post(w, i, k)
      BY <1>3
    <3>2. PICK key : signal' = [signal EXCEPT ![w][i] =
                        [kind |-> k, key |-> key, bead |-> run[w].bead, state |-> run[w].state,
                         action |-> run[w].action, next |-> None]]
      BY <3>1 DEF Post
    <3>3. i = 1
      BY SignalIsOne
    <3> QED BY <3>1, <3>2, <3>3 DEF Post
  <2>2. hpc'[w][1] = "received" /\ \A v \in Worker \ {w} : hpc'[v] = hpc[v] /\ signal'[v] = signal[v]
    BY <2>1, SignalIsOne DEF TypeInv, HandTyped
  <2>3. \A v \in Worker : Holds(v)' => Holds(v) /\ run'[v].bead = run[v].bead
    BY <1>3, PostTracked DEF HoldersStay
  <2> QED BY <1>1, <2>1, <2>2, <2>3, NothingCloses DEF supVars, Closing, ClosedInv
<1> QED BY <1>2, <1>3

\* What a handler's step does to its issue and its merge.
LEMMA HandlerIssues ==
    ASSUME TypeInv, OneSignal, NEW w \in Worker, NEW i \in Signal, HandlerStep(w, i)
    PROVE  \E to \in HandlerPC \ {"none", "received"} : \E next :
              /\ HandlerKeeps(w, 1, hpc[w][1], to, next) /\ HandlerBusy(w, 1)
              /\ hpc[w][1] \in Closing => to \in Closing \cup {"done"}
              /\ \/ /\ UNCHANGED <<issue, merged>> /\ to # "close"
                    /\ to = "relset" => issue[BeadOf(w, 1)] = "in_progress"
                 \/ /\ hpc[w][1] = "merge" /\ to = "close" /\ UNCHANGED issue
                    /\ merged' = [merged EXCEPT ![BeadOf(w, 1)] = TRUE]
                 \/ /\ hpc[w][1] = "close" /\ to \in {"closerecord", "failed"} /\ UNCHANGED merged
                    /\ issue' = [issue EXCEPT ![BeadOf(w, 1)] = "closed"]
                 \/ /\ UNCHANGED merged
                    /\ \/ hpc[w][1] = "block" /\ to \in {"blockrecord", "failed"}
                          /\ issue' = [issue EXCEPT ![BeadOf(w, 1)] = "blocked"]
                       \/ hpc[w][1] = "relset" /\ to \in {"relrecord", "exit", "done"}
                          /\ issue' = [issue EXCEPT ![BeadOf(w, 1)] = "open"]
<1>1. i = 1
  BY SignalIsOne
<1> USE DEF Handler, HandlerKeeps, HandlerBusy, HandlerPC, Closing
<1>2. CASE Receive(w, i) \/ GetBead(w, i) \/ RecordOutcome(w, i) \/ HandlerExit(w, i)
  <2>1. CASE Receive(w, i) \/ HandlerExit(w, i)
    <3>1. PICK to \in {"done", "relget", "getbead", "failed"} :
            hpc[w][1] \in {"received", "exit"} /\ Handler(w, i, hpc[w][1], to)
      BY <1>1, <2>1 DEF Receive, HandlerExit
    <3>2. hpc[w][1] = "exit" => to = "done"
      BY <1>1, <2>1, <3>1 DEF Receive, HandlerExit, TypeInv, HandTyped
    <3>3. UNCHANGED <<issue, merged>>
      BY <2>1 DEF Receive, HandlerExit, bdVars
    <3> QED BY <1>1, <3>1, <3>2, <3>3
  <2>2. CASE GetBead(w, i)
    BY <1>1, <2>2 DEF GetBead, bdVars
  <2>3. CASE RecordOutcome(w, i)
    <3>1. PICK to \in {"merge", "relget", "failed"} : Handler(w, i, "record", to)
      BY <2>3 DEF RecordOutcome
    <3> QED BY <1>1, <2>3, <3>1 DEF RecordOutcome
  <2> QED BY <1>2, <2>1, <2>2, <2>3
<1>3. CASE Merge(w, i)
  BY <1>1, <1>3 DEF Merge
<1>4. CASE Close(w, i) \/ Block(w, i)
  BY <1>1, <1>4 DEF Close, Block, SetIssue
<1>5. CASE CloseRecord(w, i) \/ BlockRecord(w, i) \/ RemoveWorktree(w, i)
  BY <1>1, <1>5 DEF CloseRecord, BlockRecord, RecordIssue, RemoveWorktree
<1>6. CASE HandlerReleaseRead(w, i) \/ HandlerReleaseRecord(w, i)
  BY <1>1, <1>6 DEF HandlerReleaseRead, HandlerReleaseRecord, AfterRelease, bdVars
<1>7. CASE HandlerReleaseReopen(w, i)
  <2>1. CASE /\ Handler(w, i, "relset", "relrecord") \/ Handler(w, i, "relset", AfterRelease(w, i))
             /\ issue' = [issue EXCEPT ![BeadOf(w, i)] = "open"]
    <3>1. PICK to \in {"relrecord", "done", "exit"} : Handler(w, i, "relset", to)
      BY <2>1 DEF AfterRelease
    <3> QED BY <1>1, <1>7, <2>1, <3>1 DEF HandlerReleaseReopen
  <2>2. CASE Handler(w, i, "relset", AfterRelease(w, i)) /\ UNCHANGED issue
    <3>1. PICK to \in {"done", "exit"} : Handler(w, i, "relset", to)
      BY <2>2 DEF AfterRelease
    <3> QED BY <1>1, <1>7, <2>2, <3>1 DEF HandlerReleaseReopen
  <2> QED BY <1>7, <2>1, <2>2 DEF HandlerReleaseReopen
<1> QED
  BY <1>2, <1>3, <1>4, <1>5, <1>6, <1>7 DEF HandlerStep

\* The holders after a handler's step are those before it, or one less.
LEMMA HandlerHolders ==
    ASSUME TypeInv, TrackInv, OneSignal, NEW w \in Worker, NEW i \in Signal, HandlerStep(w, i)
    PROVE  HoldersStay /\ \A v \in Worker \ {w} : Holds(v)' = Holds(v)
<1>1. PICK to \in HandlerPC \ {"none", "received"} : \E next :
        /\ HandlerKeeps(w, 1, hpc[w][1], to, next) /\ HandlerBusy(w, 1)
        /\ KindOf(w, 1) = "EXITED" =>
              to \in Releasing \cup {"done"} \/ (to = "failed" /\ hpc[w][1] = "received")
  BY HandlerGoes
<1>2. UNCHANGED workerVars
  BY HandlerOnlyMoves
<1>3. /\ hpc'[w][1] = to /\ (to \notin {"done", "failed"} => KindOf(w, 1)' = KindOf(w, 1))
      /\ \A v \in Worker \ {w} : hpc'[v] = hpc[v] /\ signal'[v] = signal[v]
  BY <1>1, HandlerPlace DEF KindOf
<1>4. pane[w] = "wait"
  BY <1>1 DEF TrackInv, WorkersTame
<1>5. \A v \in Worker \ {w} : Holds(v)' = Holds(v)
  BY <1>2, <1>3 DEF Holds, Working, FreedBy, KindOf, workerVars
<1>6. Holds(w)' => Holds(w)
  BY <1>1, <1>2, <1>3, <1>4 DEF Holds, Working, FreedBy, HandlerBusy, Releasing, workerVars
<1> QED
  BY <1>2, <1>5, <1>6 DEF HoldersStay, workerVars

\* Only a bead's one holder closes it, after the merge; who has closed it goes on
\* to the end of its handler.
LEMMA HandlerCloses ==
    ASSUME TypeInv, TrackInv, ClosedInv, OneSignal, NEW w \in Worker, NEW i \in Signal,
           HandlerStep(w, i)
    PROVE  ClosedInv'
<1> DEFINE b == BeadOf(w, 1)
<1>1. PICK to \in HandlerPC \ {"none", "received"} : \E next :
        /\ HandlerKeeps(w, 1, hpc[w][1], to, next) /\ HandlerBusy(w, 1)
        /\ hpc[w][1] \in Closing => to \in Closing \cup {"done"}
        /\ \/ UNCHANGED <<issue, merged>> /\ to # "close"
           \/ /\ hpc[w][1] = "merge" /\ to = "close" /\ UNCHANGED issue
              /\ merged' = [merged EXCEPT ![b] = TRUE]
           \/ /\ hpc[w][1] = "close" /\ to \in {"closerecord", "failed"} /\ UNCHANGED merged
              /\ issue' = [issue EXCEPT ![b] = "closed"]
           \/ /\ UNCHANGED merged /\ to # "close"
              /\ \E s \in {"blocked", "open"} : issue' = [issue EXCEPT ![b] = s]
  BY HandlerIssues
<1>2. UNCHANGED <<supVars, workerVars>>
  BY HandlerOnlyMoves
<1>3. /\ hpc'[w][1] = to /\ (to \notin {"done", "failed"} => BeadOf(w, 1)' = b)
      /\ \A v \in Worker \ {w} : hpc'[v] = hpc[v] /\ signal'[v] = signal[v]
  BY <1>1, HandlerPlace DEF BeadOf
<1>4. /\ b = run[w].bead /\ pane[w] = "wait" /\ b \in Bead
      /\ issue \in [Bead -> IssueStatus] /\ merged \in [Bead -> BOOLEAN]
  BY <1>1 DEF TrackInv, WorkersTame, TypeInv, WorkTyped, BdTyped
<1>5. HoldersStay /\ \A v \in Worker \ {w} : Holds(v)' = Holds(v)
  BY HandlerHolders
<1>6. \A v \in Worker : Holds(v)' => run[v].bead \in Bead
  BY <1>5, HolderTyped DEF HoldersStay
<1>7. \A v \in Worker : BeadOf(v, 1)' = BeadOf(v, 1) \/ hpc'[v][1] # "close"
  BY <1>3 DEF BeadOf
<1>8. to = "done" => ~Holds(w)'
  BY <1>2, <1>3, <1>4 DEF Holds, Working, FreedBy, workerVars
<1>9. pc \in Unclosed /\ hpc[w][1] = "close" => cur # b
  <2>1. ASSUME hpc[w][1] = "close" PROVE BeadHeld(b)
    BY <1>1, <1>4, <2>1, BusyHolds DEF BeadHeld, TrackInv, WorkersTame, Releasing
  <2> QED BY <2>1 DEF TrackInv, AssignTracked, Unclosed, BeforeSplit, Releasing
<1> HIDE DEF b
<1>10. CASE UNCHANGED <<issue, merged>> /\ to # "close"
  <2>1. \A v \in Worker : hpc'[v][1] = "close" => merged'[BeadOf(v, 1)']
    BY <1>3, <1>7, <1>10 DEF ClosedInv
  <2>2. \A v \in Worker : Holds(v)' /\ issue'[run'[v].bead] = "closed" => hpc'[v][1] \in Closing
    BY <1>1, <1>2, <1>3, <1>5, <1>8, <1>10 DEF ClosedInv, workerVars, HoldersStay
  <2> QED BY <1>2, <1>10, <2>1, <2>2 DEF ClosedInv, supVars
<1>11. CASE /\ hpc[w][1] = "merge" /\ to = "close" /\ UNCHANGED issue
            /\ merged' = [merged EXCEPT ![b] = TRUE]
  <2>1. \A c \in Bead : merged[c] => merged'[c]
    BY <1>4, <1>11
  <2>2. \A v \in Worker : hpc'[v][1] = "close" => merged'[BeadOf(v, 1)']
    <3>1. ASSUME NEW v \in Worker \ {w}, hpc'[v][1] = "close" PROVE merged'[BeadOf(v, 1)']
      <4>1. BeadOf(v, 1) \in Bead /\ merged[BeadOf(v, 1)]
        BY <1>3, <3>1, HandlerKnows, SignalIsOne DEF ClosedInv
      <4> QED BY <1>7, <2>1, <3>1, <4>1
    <3>2. merged'[BeadOf(w, 1)']
      BY <1>3, <1>4, <1>11
    <3> QED BY <3>1, <3>2
  <2>3. \A v \in Worker : Holds(v)' /\ issue'[run'[v].bead] = "closed" => hpc'[v][1] \in Closing
    BY <1>1, <1>2, <1>3, <1>5, <1>11 DEF ClosedInv, workerVars, HoldersStay, Closing
  <2> QED BY <1>2, <1>11, <2>1, <2>2, <2>3 DEF ClosedInv, supVars
<1>12. CASE /\ hpc[w][1] = "close" /\ to \in {"closerecord", "failed"} /\ UNCHANGED merged
            /\ issue' = [issue EXCEPT ![b] = "closed"]
  <2>1. Holds(w) /\ merged[b]
    BY <1>1, <1>12, BusyHolds DEF ClosedInv, b, TrackInv, WorkersTame, Releasing
  <2>2. \A v \in Worker \ {w} : Holds(v)' => run[v].bead # b /\ hpc'[v][1] = hpc[v][1]
    BY <1>3, <1>4, <1>5, <2>1 DEF TrackInv, HoldersTracked
  <2>3. \A v \in Worker : Holds(v)' /\ issue'[run'[v].bead] = "closed" => hpc'[v][1] \in Closing
    <3>1. hpc'[w][1] \in Closing
      BY <1>3, <1>12 DEF Closing
    <3>2. \A v \in Worker \ {w} : Holds(v)' => issue'[run'[v].bead] = issue[run[v].bead] /\ Holds(v)
      BY <1>2, <1>4, <1>5, <1>6, <1>12, <2>2 DEF workerVars
    <3> QED BY <2>2, <3>1, <3>2 DEF ClosedInv
  <2>4. \A v \in Worker : hpc'[v][1] = "close" => merged'[BeadOf(v, 1)']
    BY <1>3, <1>7, <1>12 DEF ClosedInv
  <2>5. \A c \in Bead : issue'[c] = "closed" => merged'[c]
    BY <1>4, <1>12, <2>1 DEF ClosedInv
  <2>6. pc' \in Unclosed => issue'[cur'] # "closed"
    <3>1. pc \in Unclosed => cur \in Bead
      BY DEF TypeInv, SupTyped, Unclosed, Claiming, Releasing
    <3> QED BY <1>2, <1>4, <1>9, <1>12, <3>1 DEF ClosedInv, supVars
  <2> QED BY <2>3, <2>4, <2>5, <2>6 DEF ClosedInv
<1>13. CASE /\ UNCHANGED merged /\ to # "close"
            /\ \E s \in {"blocked", "open"} : issue' = [issue EXCEPT ![b] = s]
  <2>1. \A c \in Bead : issue'[c] = "closed" => issue[c] = "closed"
    BY <1>4, <1>13
  <2>2. \A v \in Worker : hpc'[v][1] = "close" => merged'[BeadOf(v, 1)']
    BY <1>3, <1>7, <1>13 DEF ClosedInv
  <2>3. \A v \in Worker : Holds(v)' /\ issue'[run'[v].bead] = "closed" => hpc'[v][1] \in Closing
    BY <1>1, <1>2, <1>3, <1>5, <1>6, <1>8, <2>1 DEF ClosedInv, workerVars, HoldersStay
  <2>4. pc' \in Unclosed => issue'[cur'] # "closed"
    <3>1. pc \in Unclosed => cur \in Bead
      BY DEF TypeInv, SupTyped, Unclosed, Claiming, Releasing
    <3> QED BY <1>2, <2>1, <3>1 DEF ClosedInv, supVars
  <2> QED BY <1>13, <2>1, <2>2, <2>3, <2>4 DEF ClosedInv
<1> QED
  BY <1>1, <1>10, <1>11, <1>12, <1>13

LEMMA ClosedStep ==
    ASSUME TypeInv, TrackInv, ClosedInv, OneSignal, Tame, [Next]_vars PROVE ClosedInv'
<1>1. ASSUME PauseEnds \/ UNCHANGED vars \/ \E b \in Bead : LeaseExpires(b) PROVE ClosedInv'
  <2>1. UNCHANGED <<supVars, workerVars, handlerVars, issue, merged>>
    BY <1>1 DEF PauseEnds, LeaseExpires, vars, bdVars
  <2> QED
    BY <2>1, SameHolders, NothingCloses DEF supVars, handlerVars, ClosedInv
<1> QED
  BY <1>1, TameSteps, SupervisorCloses, WorkersClose, HandlerCloses

LEMMA ClosedHolds == ASSUME OneSignal, Tame PROVE Spec => []ClosedInv
<1>1. Init => ClosedInv
  BY ClosedInit
<1>2. TypeInv /\ TrackInv /\ ClosedInv /\ [Next]_vars => ClosedInv'
  BY ClosedStep
<1> QED
  BY <1>1, <1>2, TypeInvHolds, TrackHolds, PTL DEF Spec

\* A closed bead is merged, and neither a worker nor an assignment is at it: the
\* claim looks at the issue when it takes the bead, and only the bead's one
\* holder closes it.
THEOREM ClosedQuiet == ASSUME OneSignal, Tame PROVE Spec => []ClosedIsQuiet
<1>1. TrackInv /\ ClosedInv => ClosedIsQuiet
  <2> SUFFICES ASSUME TrackInv, ClosedInv, NEW b \in Bead, issue[b] = "closed"
               PROVE  /\ merged[b]
                      /\ \A w \in Working : run[w].bead = b => \E i \in Signal : hpc[w][i] = "failed"
                      /\ cur = b => pc \notin {"claimrecord", "worktree", "spawn", "split"}
    BY DEF ClosedIsQuiet
  <2>1. \A w \in Working : run[w].bead = b => hpc[w][1] = "failed"
    BY DEF ClosedInv, TrackInv, WorkersTame, Holds, Working, Closing
  <2> QED
    BY <2>1, SignalIsOne DEF ClosedInv, Unclosed
<1> QED BY <1>1, TrackHolds, ClosedHolds, PTL

\* With one slot, or without EXITED signals, no handler that has given its slot
\* back releases a bead that another worker has.
OneSlotOrNoExit == MaxSlots = 1 \/ "EXITED" \notin Kind

ReopenInv == \A w \in Worker : hpc[w][1] = "relset" => issue[BeadOf(w, 1)] # "closed"

\* Two live workers need two slots.
LEMMA OneLivePane ==
    ASSUME SlotBound, MaxSlots = 1, NEW v \in LivePanes, NEW w \in LivePanes PROVE v = w
<1>1. IsFiniteSet(LivePanes)
  BY HarnessAssumption, FS_Subset DEF LivePanes
<1>2. Cardinality(LivePanes) \in Nat /\ Cardinality(LivePanes) <= 1
  BY <1>1, FS_CardinalityType DEF SlotBound
<1>3. SUFFICES ASSUME v # w PROVE FALSE
  OBVIOUS
<1>4. IsFiniteSet({v}) /\ Cardinality({v}) = 1
  BY FS_Singleton
<1>5. Cardinality({v} \cup {w}) = 2
  BY <1>3, <1>4, FS_AddElement
<1>6. {v} \cup {w} \in SUBSET LivePanes
  OBVIOUS
<1>7. Cardinality({v} \cup {w}) <= Cardinality(LivePanes)
  BY <1>1, <1>6, FS_Subset
<1> QED BY <1>2, <1>5, <1>7

\* Who releases a bead and who closes it are one.
LEMMA OneWhoFinishes ==
    ASSUME TypeInv, TrackInv, SlotBound, OneSlotOrNoExit,
           NEW v \in Worker, NEW w \in Worker, hpc[v][1] = "close", hpc[w][1] = "relset",
           BeadOf(v, 1) = BeadOf(w, 1)
    PROVE  FALSE
<1>1. HandlerBusy(v, 1) /\ HandlerBusy(w, 1) /\ v # w
  BY DEF HandlerBusy
<1>2. v \in LivePanes /\ w \in LivePanes
  BY <1>1 DEF TrackInv, WorkersTame, LivePanes, Live
<1>3. MaxSlots # 1
  BY <1>1, <1>2, OneLivePane
<1>4. KindOf(w, 1) # "EXITED"
  BY <1>1, <1>3 DEF OneSlotOrNoExit, TrackInv, WorkersTame
<1>5. Holds(v) /\ Holds(w) /\ run[v].bead = run[w].bead
  BY <1>1, <1>4, BusyHolds DEF Releasing
<1> QED BY <1>1, <1>5 DEF TrackInv, HoldersTracked

\* The poll step never closes a bead nor reopens a closed one, and it moves no
\* handler but to start it afresh.
LEMMA SupervisorReopens ==
    ASSUME TypeInv, TrackInv, ClosedInv, OneSignal, Tame, SupervisorStep
    PROVE  /\ \A b \in Bead : issue[b] = "closed" <=> issue'[b] = "closed"
           /\ \A w \in Worker : hpc'[w][1] = "none" \/ (hpc'[w] = hpc[w] /\ signal'[w] = signal[w])
<1>1. /\ pc \in {"claim"} \cup Releasing => cur \in Bead
      /\ issue \in [Bead -> IssueStatus] /\ Signal = {1}
      /\ hpc \in [Worker -> [Signal -> HandlerPC]] /\ signal \in [Worker -> [Signal -> Sent]]
  BY SignalIsOne DEF TypeInv, SupTyped, BdTyped, HandTyped, Claiming
<1>2. \A w \in Worker : hpc'[w][1] = "none" \/ (hpc'[w] = hpc[w] /\ signal'[w] = signal[w])
  <2>1. CASE SplitWindow
    BY <1>1, <2>1 DEF SplitWindow, handlerVars
  <2>2. CASE ~SplitWindow
    BY <2>2 DEF SupervisorStep, Poll, Reconcile, FindSlots, ScanReady, ScanInProgress, Select,
         ScanFails, NextAssignment, Claim, ClaimRead, ClaimRecord, CreateWorktree, SpawnCheck,
         RecordSpawned, ReleaseRead, ReleaseReopen, ReleaseRecord, AssignmentFailed, CheckHealth,
         Recover, Kill, Recovered, handlerVars
  <2> QED BY <2>1, <2>2
<1>3. CASE Claim
  <2>1. cur \in Bead
    BY <1>1, <1>3 DEF Claim
  <2>2. issue' = issue \/ (issue[cur] = "open" /\ issue' = [issue EXCEPT ![cur] = "in_progress"])
    BY <1>3 DEF Claim
  <2> QED BY <1>1, <1>2, <2>1, <2>2
<1>4. CASE ReleaseReopen
  <2>1. issue[cur] # "closed" /\ cur \in Bead
    BY <1>1, <1>4 DEF ReleaseReopen, ClosedInv, Unclosed, Releasing
  <2>2. issue' = issue \/ issue' = [issue EXCEPT ![cur] = "open"]
    BY <1>4 DEF ReleaseReopen
  <2> QED BY <1>1, <1>2, <2>1, <2>2
<1>5. CASE ~Claim /\ ~ReleaseReopen
  <2>1. UNCHANGED issue
    BY <1>5 DEF SupervisorStep, Poll, Reconcile, FindSlots, ScanReady, ScanInProgress, Select,
         ScanFails, NextAssignment, ClaimRead, ClaimRecord, CreateWorktree, SpawnCheck,
         SplitWindow, RecordSpawned, ReleaseRead, ReleaseRecord, AssignmentFailed, CheckHealth,
         Recover, Kill, Recovered, bdVars
  <2> QED BY <1>2, <2>1
<1> QED BY <1>2, <1>3, <1>4, <1>5

LEMMA HandlerReopens ==
    ASSUME TypeInv, TrackInv, ClosedInv, ReopenInv, SlotBound, OneSignal, OneSlotOrNoExit,
           NEW w \in Worker, NEW i \in Signal, HandlerStep(w, i)
    PROVE  ReopenInv' /\ \A b \in Bead : issue[b] = "closed" => issue'[b] = "closed"
<1> DEFINE b == BeadOf(w, 1)
<1>1. PICK to \in HandlerPC \ {"none", "received"} : \E next :
        /\ HandlerKeeps(w, 1, hpc[w][1], to, next) /\ HandlerBusy(w, 1)
        /\ \/ UNCHANGED issue /\ (to = "relset" => issue[b] = "in_progress")
           \/ /\ hpc[w][1] = "close" /\ to # "relset"
              /\ issue' = [issue EXCEPT ![b] = "closed"]
           \/ /\ hpc[w][1] = "block" /\ to # "relset"
              /\ issue' = [issue EXCEPT ![b] = "blocked"]
           \/ /\ hpc[w][1] = "relset" /\ to # "relset"
              /\ issue' = [issue EXCEPT ![b] = "open"]
  BY HandlerIssues
<1>2. /\ hpc'[w][1] = to /\ (to \notin {"done", "failed"} => BeadOf(w, 1)' = b)
      /\ \A v \in Worker \ {w} : hpc'[v] = hpc[v] /\ signal'[v] = signal[v]
  BY <1>1, HandlerPlace DEF BeadOf
<1>3. b \in Bead /\ issue \in [Bead -> IssueStatus]
  BY <1>1, HandlerKnows, SignalIsOne DEF TypeInv, BdTyped, HandlerBusy
<1>4. \A v \in Worker : hpc'[v][1] = "relset" => BeadOf(v, 1)' = BeadOf(v, 1)
  BY <1>2 DEF BeadOf
<1>5. \A v \in Worker : hpc[v][1] = "relset" => BeadOf(v, 1) \in Bead
  BY HandlerKnows, SignalIsOne
<1>6. hpc[w][1] = "block" => issue[b] # "closed"
  <2>1. SUFFICES ASSUME hpc[w][1] = "block", issue[b] = "closed" PROVE FALSE
    OBVIOUS
  <2>2. Holds(w) /\ b = run[w].bead
    BY <1>1, <2>1, BusyHolds DEF Releasing
  <2> QED BY <2>1, <2>2 DEF ClosedInv, Closing
<1>7. hpc[w][1] = "relset" => issue[b] # "closed"
  BY DEF ReopenInv
<1>8. \A v \in Worker : hpc[w][1] = "close" /\ hpc[v][1] = "relset" => BeadOf(v, 1) # b
  BY OneWhoFinishes
<1> HIDE DEF b
<1>9. \A c \in Bead : issue[c] = "closed" => issue'[c] = "closed"
  BY <1>1, <1>3, <1>6, <1>7
<1>10. ASSUME NEW v \in Worker, hpc'[v][1] = "relset" PROVE issue'[BeadOf(v, 1)'] # "closed"
  <2>1. CASE v = w
    <3>1. UNCHANGED issue /\ issue[b] = "in_progress"
      BY <1>1, <1>2, <1>10, <2>1
    <3> QED BY <1>2, <1>10, <2>1, <3>1
  <2>2. CASE v # w
    <3>1. hpc[v][1] = "relset" /\ issue[BeadOf(v, 1)] # "closed" /\ BeadOf(v, 1) \in Bead
      BY <1>2, <1>5, <1>10, <2>2 DEF ReopenInv
    <3> QED BY <1>1, <1>3, <1>4, <1>8, <1>10, <3>1
  <2> QED BY <2>1, <2>2
<1> QED
  BY <1>9, <1>10 DEF ReopenInv

LEMMA ReopenStep ==
    ASSUME TypeInv, TrackInv, ClosedInv, ReopenInv, SlotBound, OneSignal, Tame, OneSlotOrNoExit,
           [Next]_vars
    PROVE  ReopenInv' /\ \A b \in Bead : issue[b] = "closed" => issue'[b] = "closed"
<1>1. \A w \in Worker : hpc[w][1] = "relset" => BeadOf(w, 1) \in Bead
  BY HandlerKnows, SignalIsOne
<1>2. ASSUME \A b \in Bead : issue[b] = "closed" <=> issue'[b] = "closed",
             \A w \in Worker : \/ hpc'[w][1] \in {"none", "received"}
                               \/ hpc'[w] = hpc[w] /\ signal'[w] = signal[w]
      PROVE  ReopenInv' /\ \A b \in Bead : issue[b] = "closed" => issue'[b] = "closed"
  BY <1>1, <1>2 DEF ReopenInv, BeadOf
<1>3. CASE SupervisorStep
  BY <1>2, <1>3, SupervisorReopens
<1>4. ASSUME NEW w \in Worker,
             \/ WorkerInit(w) \/ RunToolActions(w) \/ Answered(w) \/ Shutdown(w) \/ Die(w)
             \/ GiveUp(w)
      PROVE  UNCHANGED <<handlerVars, issue>>
  BY <1>4 DEF WorkerInit, RunToolActions, Answered, Shutdown, Die, GiveUp, SetPane, bdVars
<1>5. ASSUME NEW w \in Worker, NEW i \in Signal, NEW k \in Kind, Post(w, i, k)
      PROVE  /\ UNCHANGED issue
             /\ \A v \in Worker : \/ hpc'[v][1] = "received"
                                  \/ hpc'[v] = hpc[v] /\ signal'[v] = signal[v]
  <2>1. i = 1 /\ Signal = {1}
    BY SignalIsOne
  <2>2. PICK key : signal' = [signal EXCEPT ![w][i] =
                      [kind |-> k, key |-> key, bead |-> run[w].bead, state |-> run[w].state,
                       action |-> run[w].action, next |-> None]]
    BY <1>5 DEF Post
  <2> QED BY <1>5, <2>1, <2>2 DEF Post, TypeInv, HandTyped, bdVars
<1>6. CASE PauseEnds \/ UNCHANGED vars \/ \E b \in Bead : LeaseExpires(b)
  BY <1>2, <1>6 DEF PauseEnds, LeaseExpires, vars, bdVars, handlerVars
<1> QED
  BY <1>2, <1>3, <1>4, <1>5, <1>6, TameSteps, HandlerReopens DEF handlerVars

\* No release and no block reopens a closed bead, although both act on a status
\* that was read before an await.
THEOREM ClosedForGood ==
    ASSUME OneSignal, Tame, OneSlotOrNoExit PROVE Spec => ClosedStaysClosed
<1>1. Init => ReopenInv
  BY SignalIsOne DEF Init, ReopenInv
<1>2. TypeInv /\ TrackInv /\ ClosedInv /\ ReopenInv /\ SlotBound /\ [Next]_vars
        => ReopenInv' /\ [\A b \in Bead : issue[b] = "closed" => issue'[b] = "closed"]_vars
  BY ReopenStep
<1>3. "tmux" \notin Fault
  BY DEF Tame
<1>4. Spec => []SlotBound
  BY <1>3, SlotsBounded
<1> QED
  BY <1>1, <1>2, <1>4, TypeInvHolds, TrackHolds, ClosedHolds, PTL DEF Spec, ClosedStaysClosed

-----------------------------------------------------------------------------
(* The phase a signal speaks of.                                           *)

\* The handler has not applied its signal yet.
Unapplied == {"none", "received", "getbead", "record"}

\* The claim is recorded and the worker not started yet.
Prepared == {"worktree", "spawn", "split"}

\* The claim puts the bead in the state the worker is started for, whether or not
\* the worker's own start is recorded, and there it stands until the worker's
\* signal is applied; and the spawn about to be recorded is the worker's own.
PhaseInv ==
    /\ \A w \in Worker : Holds(w) /\ hpc[w][1] \in Unapplied
          => chart[run[w].bead].currentState = run[w].state
    /\ pc \in Prepared => chart[cur].currentState = seen[cur]
    /\ pc = "titled" => \A w \in Worker : Holds(w) /\ run[w].bead = cur => run[w].state = seen[cur]

\* Which events leave the current state alone, and which set it.
LEMMA StateKept ==
    ASSUME NEW p \in Chart, NEW e,
           e.type \in {"ACTION_COMPLETED", "WORKTREE_PROVISIONED", "WORKTREE_REMOVED",
                       "STATUS_UPDATED", "RELEASED"}
    PROVE  ChartApply(p, e).currentState = p.currentState
BY DEF ChartApply, Chart

LEMMA StateSet ==
    ASSUME NEW p \in Chart, NEW e, e.type \in {"CLAIMED", "RUN_INITIALIZED", "SPAWNED"},
           e.applies, e.state # None
    PROVE  ChartApply(p, e).currentState = e.state
BY DEF ChartApply, ChartClaimed, ChartEntered, ChartSpawned, Chart, Or

LEMMA LogOnly ==
    ASSUME BdTyped, NEW b \in Bead, NEW e, Log(b, e)
    PROVE  /\ chart'[b] = ChartApply(chart[b], e) /\ chart[b] \in Chart
           /\ \A c \in Bead \ {b} : chart'[c] = chart[c]
BY DEF BdTyped, Log

\* The holders' beads stay where they are.
StatesStay ==
    \A w \in Worker : Holds(w)' =>
        chart'[run[w].bead].currentState = chart[run[w].bead].currentState

LEMMA PhaseKept ==
    ASSUME PhaseInv, HoldersStay, StatesStay,
           \A w \in Worker : Holds(w)' /\ hpc'[w][1] \in Unapplied => hpc[w][1] \in Unapplied,
           pc' \in Prepared => chart'[cur'].currentState = seen'[cur'],
           pc' = "titled" => pc = "titled" /\ cur' = cur /\ seen' = seen
    PROVE  PhaseInv'
BY DEF PhaseInv, HoldersStay, StatesStay

\* An unclaimed bead is where the claim puts it; its holders, if any, are others.
LEMMA SupervisorPhase ==
    ASSUME TypeInv, TrackInv, PhaseInv, OneSignal, Tame, SupervisorStep PROVE PhaseInv'
<1>1. ASSUME UNCHANGED <<workerVars, handlerVars>>, pc' # "titled", StatesStay,
             pc' \in Prepared => chart'[cur'].currentState = seen'[cur']
      PROVE  PhaseInv'
  BY <1>1, SameHolders, PhaseKept DEF HoldersStay, workerVars, handlerVars
<1>2. CASE /\ UNCHANGED <<workerVars, handlerVars, chart>> /\ pc' # "titled"
           /\ pc' \in Prepared => pc \in Prepared /\ UNCHANGED <<cur, seen>>
  BY <1>1, <1>2 DEF StatesStay, PhaseInv
<1>3. /\ pc \in Claiming \cup Releasing => cur \in Bead
      /\ pc \in Claiming => seen[cur] # None
      /\ BdTyped /\ inactive = {} /\ pc \notin {"kill", "recovered"}
      /\ (pc \in Releasing => after = "failed")
  BY HarnessAssumption DEF TypeInv, SupTyped, TrackInv, PollTame, None
<1>4. CASE ClaimRecord
  <2>1. /\ UNCHANGED <<workerVars, handlerVars, cur, seen>> /\ pc' # "titled"
        /\ pc = "claimrecord"
        /\ \/ UNCHANGED chart /\ pc' \notin Prepared
           \/ Log(cur, ClaimEvent)
    BY <1>4 DEF ClaimRecord, Prepared
  <2>2. cur \in Bead /\ seen[cur] # None /\ ~BeadHeld(cur)
    BY <1>3, <2>1 DEF Claiming, TrackInv, AssignTracked, BeforeSplit
  <2>3. CASE UNCHANGED chart /\ pc' \notin Prepared
    BY <1>2, <2>1, <2>3
  <2>4. CASE Log(cur, ClaimEvent)
    <3>1. ClaimEvent.type = "CLAIMED" /\ ClaimEvent.applies /\ ClaimEvent.state = seen[cur]
      BY DEF ClaimEvent, NoEvent
    <3>2. /\ \A c \in Bead \ {cur} : chart'[c] = chart[c]
          /\ chart'[cur].currentState = seen[cur]
      BY <1>3, <2>2, <2>4, <3>1, LogOnly, StateSet
    <3>3. StatesStay
      BY <2>1, <2>2, <3>2, SameHolders, HolderTyped DEF StatesStay, BeadHeld
    <3> QED BY <1>1, <2>1, <3>2, <3>3
  <2> QED BY <2>1, <2>3, <2>4
<1>5. CASE CreateWorktree \/ ReleaseRecord
  <2>1. /\ UNCHANGED <<workerVars, handlerVars, cur, seen>> /\ pc' # "titled" /\ cur \in Bead
        /\ pc' \in Prepared => pc \in Prepared
    BY <1>3, <1>5 DEF CreateWorktree, ReleaseRecord, ReleaseThen, Claiming, Releasing, Prepared
  <2>2. UNCHANGED chart \/ \E e : Log(cur, e) /\ e.type \in {"WORKTREE_PROVISIONED", "RELEASED"}
    BY <1>5 DEF CreateWorktree, ReleaseRecord, NoEvent
  <2>3. \A c \in Bead : chart'[c].currentState = chart[c].currentState
    <3>1. ASSUME NEW e, Log(cur, e), e.type \in {"WORKTREE_PROVISIONED", "RELEASED"}
          PROVE  \A c \in Bead : chart'[c].currentState = chart[c].currentState
      BY <1>3, <2>1, <3>1, LogOnly, StateKept
    <3> QED BY <2>2, <3>1
  <2>4. StatesStay
    BY <2>1, <2>3, SameHolders, HolderTyped DEF StatesStay
  <2>5. pc' \in Prepared => chart'[cur'].currentState = seen'[cur']
    BY <2>1, <2>3 DEF PhaseInv
  <2> QED BY <1>1, <2>1, <2>4, <2>5
<1>6. CASE RecordSpawned
  <2>1. /\ UNCHANGED <<workerVars, handlerVars>> /\ pc' # "titled" /\ pc = "titled"
        /\ cur \in Bead /\ pc' \notin Prepared
    BY <1>3, <1>6 DEF RecordSpawned, ReleaseThen, Claiming, Prepared
  <2>2. CASE UNCHANGED chart
    BY <1>2, <2>1, <2>2
  <2>3. CASE Log(cur, [NoEvent EXCEPT !.type = "SPAWNED", !.state = seen[cur]])
    <3>1. /\ chart'[cur].currentState = seen[cur]
          /\ \A c \in Bead \ {cur} : chart'[c] = chart[c]
      <4> DEFINE e == [NoEvent EXCEPT !.type = "SPAWNED", !.state = seen[cur]]
      <4>1. e.type = "SPAWNED" /\ e.applies /\ e.state = seen[cur] /\ seen[cur] # None
        BY <1>3, <2>1 DEF NoEvent, Claiming
      <4>2. Log(cur, e)
        BY <2>3
      <4> HIDE DEF e
      <4> QED BY <1>3, <2>1, <4>1, <4>2, LogOnly, StateSet
    <3>2. \A w \in Worker : Holds(w)' = Holds(w) /\ run'[w] = run[w] /\ pane'[w] = pane[w]
                            /\ hpc'[w] = hpc[w]
      BY <2>1, SameHolders DEF workerVars, handlerVars
    <3> QED BY <2>1, <3>1, <3>2, HolderTyped DEF PhaseInv
  <2> QED BY <1>6, <2>2, <2>3 DEF RecordSpawned
<1>7. CASE SplitWindow
  <2>1. PICK w \in Worker :
        /\ pane' = [pane EXCEPT ![w] = "boot"]
        /\ run' = [run EXCEPT ![w] = [bead |-> cur, state |-> seen[cur], action |-> None]]
        /\ hpc' = [hpc EXCEPT ![w] = [i \in Signal |-> "none"]]
        /\ signal' = [signal EXCEPT ![w] = [i \in Signal |-> NoSignal]]
    BY <1>7, NoSuchMishap DEF SplitWindow
  <2>2. pc = "split" /\ pc' = "titled" /\ UNCHANGED <<chart, cur, seen>>
    BY <1>7, NoSuchMishap DEF SplitWindow, bdVars
  <2>3. /\ \A v \in Worker \ {w} : /\ pane'[v] = pane[v] /\ run'[v] = run[v]
                                  /\ hpc'[v] = hpc[v] /\ signal'[v] = signal[v]
        /\ run'[w].bead = cur /\ run'[w].state = seen[cur]
    BY <2>1, SignalIsOne DEF TypeInv, WorkTyped, HandTyped
  <2>4. \A v \in Worker \ {w} : Holds(v)' = Holds(v)
    BY <2>3 DEF Holds, Working, FreedBy, KindOf
  <2>5. \A v \in Worker \ {w} : Holds(v)' => run[v].bead # cur
    BY <2>2, <2>4 DEF TrackInv, AssignTracked, BeforeSplit, BeadHeld
  <2>6. chart[cur].currentState = seen[cur] /\ pc' \notin Prepared
    BY <2>2 DEF PhaseInv, Prepared
  <2> QED BY <2>2, <2>3, <2>4, <2>5, <2>6 DEF PhaseInv
<1>8. ASSUME \/ Poll \/ Reconcile \/ FindSlots \/ ScanReady \/ ScanInProgress \/ Select \/ ScanFails
             \/ NextAssignment \/ Claim \/ ClaimRead \/ SpawnCheck \/ ReleaseRead \/ ReleaseReopen
             \/ AssignmentFailed \/ CheckHealth \/ Recover
      PROVE  /\ UNCHANGED <<workerVars, handlerVars, chart>> /\ pc' # "titled"
             /\ pc' \in Prepared => pc \in Prepared /\ UNCHANGED <<cur, seen>>
  BY <1>3, <1>8 DEF Prepared, Poll, Reconcile, FindSlots, ScanReady, ScanInProgress, Select, ScanFails,
         NextAssignment, Claim, ClaimRead, SpawnCheck, ReleaseRead, ReleaseReopen,
         AssignmentFailed, CheckHealth, Recover, ScanEnds, ReleaseThen, Releasing, bdVars
<1> QED
  BY <1>2, <1>3, <1>4, <1>5, <1>6, <1>7, <1>8 DEF SupervisorStep, Kill, Recovered

\* A worker that is initialised records the state it is in.
LEMMA WorkerPhase ==
    ASSUME TypeInv, TrackInv, PhaseInv, OneSignal, NEW w \in Worker,
           \/ WorkerInit(w) \/ RunToolActions(w) \/ Answered(w) \/ Shutdown(w) \/ Die(w)
           \/ GiveUp(w) \/ \E i \in Signal, k \in Kind : Post(w, i, k)
    PROVE  PhaseInv'
<1>1. UNCHANGED supVars /\ HoldersStay
  BY WorkerMoves, PostTracked
     DEF WorkerInit, RunToolActions, Answered, Shutdown, Die, GiveUp, Post, SetPane
<1>0. pc \in Prepared => cur \in Bead /\ ~BeadHeld(cur)
  BY DEF TypeInv, SupTyped, Claiming, Prepared, TrackInv, AssignTracked, BeforeSplit
<1>2. /\ pane \in [Worker -> PaneState] /\ hpc \in [Worker -> [Signal -> HandlerPC]]
      /\ BdTyped /\ Signal = {1}
  BY SignalIsOne DEF TypeInv, WorkTyped, HandTyped
<1>3. CASE WorkerInit(w)
  <2> DEFINE b == run[w].bead
             e == [NoEvent EXCEPT !.type = "RUN_INITIALIZED", !.state = run[w].state]
  <2>1. /\ b \in Bead /\ run[w].state # None /\ Holds(w) /\ UNCHANGED handlerVars
        /\ Log(b, e) \/ UNCHANGED chart
    BY <1>2, <1>3, HarnessAssumption DEF WorkerInit, TypeInv, WorkTyped, Holds, Working
  <2>2. e.type = "RUN_INITIALIZED" /\ e.applies /\ e.state = run[w].state
    BY DEF NoEvent
  <2> HIDE DEF e
  <2>3. UNCHANGED chart \/ chart'[b].currentState = run[w].state
    BY <1>2, <2>1, <2>2, LogOnly, StateSet
  <2>4. \A c \in Bead \ {b} : chart'[c] = chart[c]
    BY <1>2, <2>1, LogOnly
  <2>5. \A v \in Worker \ {w} : Holds(v)' => run[v].bead # b /\ run[v].bead \in Bead
    BY <1>1, <2>1, HolderTyped DEF TrackInv, HoldersTracked, HoldersStay
  <2>6. \A v \in Worker : Holds(v)' /\ hpc'[v][1] \in Unapplied
          => chart'[run'[v].bead].currentState = run'[v].state
    <3>1. ASSUME NEW v \in Worker \ {w}, Holds(v)', hpc'[v][1] \in Unapplied
          PROVE  chart'[run'[v].bead].currentState = run'[v].state
      BY <1>1, <2>1, <2>4, <2>5, <3>1 DEF PhaseInv, HoldersStay, handlerVars
    <3>2. Holds(w)' /\ hpc'[w][1] \in Unapplied
            => chart'[run'[w].bead].currentState = run'[w].state
      BY <1>1, <2>1, <2>3 DEF PhaseInv, HoldersStay, handlerVars
    <3> QED BY <3>1, <3>2
  <2>7. pc \in Prepared => chart'[cur].currentState = seen[cur]
    BY <1>0, <2>1, <2>4 DEF PhaseInv, BeadHeld
  <2> QED
    BY <1>1, <2>6, <2>7 DEF PhaseInv, HoldersStay, supVars
<1>4. CASE RunToolActions(w)
  <2> DEFINE b == run[w].bead
  <2>1. /\ \E d : chart' = [chart EXCEPT ![b].completed = d]
        /\ UNCHANGED handlerVars /\ b \in Bead
    BY <1>2, <1>4 DEF RunToolActions, TypeInv, WorkTyped
  <2>2. \A c \in Bead : chart'[c].currentState = chart[c].currentState
    BY <1>2, <2>1 DEF BdTyped, Chart
  <2>3. StatesStay
    BY <1>1, <2>2, HolderTyped DEF StatesStay, HoldersStay
  <2>4. pc \in Prepared => chart'[cur].currentState = seen[cur]
    BY <1>0, <2>2 DEF PhaseInv
  <2> QED
    BY <1>1, <2>1, <2>3, <2>4, PhaseKept DEF supVars, handlerVars
<1>5. CASE Answered(w) \/ Shutdown(w) \/ Die(w) \/ GiveUp(w)
  <2>1. UNCHANGED <<handlerVars, chart>>
    BY <1>5 DEF Answered, Shutdown, Die, GiveUp, SetPane, bdVars
  <2>2. StatesStay
    BY <2>1 DEF StatesStay
  <2> QED
    BY <1>1, <2>1, <2>2, PhaseKept DEF supVars, handlerVars, PhaseInv
<1>6. CASE \E i \in Signal, k \in Kind : Post(w, i, k)
  <2>1. /\ hpc[w][1] = "none" /\ UNCHANGED chart
        /\ \A v \in Worker \ {w} : hpc'[v] = hpc[v]
    BY <1>2, <1>6 DEF Post, bdVars
  <2>2. StatesStay
    BY <2>1 DEF StatesStay
  <2> QED
    BY <1>1, <2>1, <2>2, PhaseKept DEF supVars, Unapplied, PhaseInv
<1> QED BY <1>3, <1>4, <1>5, <1>6

\* What a handler records, it records of its own bead, and no more of its state
\* once the slot is given back.
LEMMA HandlerLogs ==
    ASSUME TypeInv, TrackInv, OneSignal, NEW w \in Worker, NEW i \in Signal, HandlerStep(w, i)
    PROVE  \E to \in HandlerPC \ {"none", "received"} : \E next :
              /\ HandlerKeeps(w, 1, hpc[w][1], to, next) /\ HandlerBusy(w, 1)
              /\ to \in Unapplied => hpc[w][1] \in Unapplied /\ UNCHANGED chart
              /\ \/ UNCHANGED chart
                 \/ \E e : Log(BeadOf(w, 1), e) /\ (hpc[w][1] \in Releasing => e.type = "RELEASED")
<1>1. i = 1
  BY SignalIsOne
<1> USE DEF Handler, HandlerBusy, HandlerPC, Unapplied, Releasing
<1>2. CASE Receive(w, i)
  <2>1. PICK to \in {"done", "relget", "getbead", "failed"} : Handler(w, i, "received", to)
    BY <1>2 DEF Receive
  <2> QED BY <1>1, <1>2, <2>1 DEF Receive, bdVars, HandlerKeeps
<1>3. CASE GetBead(w, i)
  <2>1. PICK to \in {"failed", "record"}, next \in {None} \cup {signal'[w][i].next} :
          HandlerKeeps(w, i, "getbead", to, next)
    BY <1>3, HandlerGoes DEF GetBead, HandlerKeeps
  <2> QED BY <1>1, <1>3, <2>1 DEF GetBead, bdVars, HandlerKeeps
<1>4. CASE RecordOutcome(w, i)
  <2>1. PICK to \in {"merge", "relget", "failed"} : Handler(w, i, "record", to)
    BY <1>4 DEF RecordOutcome
  <2>2. UNCHANGED chart \/ \E e : Log(BeadOf(w, i), e)
    BY <1>4 DEF RecordOutcome
  <2> QED BY <1>1, <2>1, <2>2 DEF HandlerKeeps
<1>5. CASE Merge(w, i) \/ Close(w, i) \/ Block(w, i) \/ HandlerExit(w, i)
  <2>1. PICK from \in {"merge", "close", "block", "exit"},
             to \in {"close", "block", "closerecord", "blockrecord", "failed", "done"} :
          Handler(w, i, from, to)
    BY <1>5 DEF Merge, Close, Block, SetIssue, HandlerExit
  <2>2. UNCHANGED chart
    BY <1>5 DEF Merge, Close, Block, SetIssue, HandlerExit, bdVars
  <2> QED BY <1>1, <2>1, <2>2 DEF HandlerKeeps
<1>6. CASE CloseRecord(w, i) \/ BlockRecord(w, i) \/ RemoveWorktree(w, i)
  <2>1. PICK from \in {"closerecord", "blockrecord", "rmtree"},
             to \in {"rmtree", "relget", "failed", "exit"} : Handler(w, i, from, to)
    BY <1>6 DEF CloseRecord, BlockRecord, RecordIssue, RemoveWorktree
  <2>2. UNCHANGED chart \/ \E e : Log(BeadOf(w, i), e)
    BY <1>6 DEF CloseRecord, BlockRecord, RecordIssue, RemoveWorktree
  <2> QED BY <1>1, <2>1, <2>2 DEF HandlerKeeps
<1>7. CASE HandlerReleaseRead(w, i) \/ HandlerReleaseReopen(w, i) \/ HandlerReleaseRecord(w, i)
  <2>1. PICK from \in Releasing, to \in {"relset", "relrecord", "done", "exit"} :
          Handler(w, i, from, to)
    BY <1>7 DEF HandlerReleaseRead, HandlerReleaseReopen, HandlerReleaseRecord, AfterRelease
  <2>2. UNCHANGED chart \/ \E e : Log(BeadOf(w, i), e) /\ e.type = "RELEASED"
    BY <1>7 DEF HandlerReleaseRead, HandlerReleaseReopen, HandlerReleaseRecord, NoEvent, bdVars
  <2> QED BY <1>1, <2>1, <2>2 DEF HandlerKeeps
<1> QED
  BY <1>2, <1>3, <1>4, <1>5, <1>6, <1>7 DEF HandlerStep

LEMMA HandlerPhase ==
    ASSUME TypeInv, TrackInv, PhaseInv, OneSignal, NEW w \in Worker, NEW i \in Signal,
           HandlerStep(w, i)
    PROVE  PhaseInv'
<1> DEFINE b == BeadOf(w, 1)
<1>1. PICK to \in HandlerPC \ {"none", "received"} : \E next :
        /\ HandlerKeeps(w, 1, hpc[w][1], to, next) /\ HandlerBusy(w, 1)
        /\ to \in Unapplied => hpc[w][1] \in Unapplied /\ UNCHANGED chart
        /\ \/ UNCHANGED chart
           \/ \E e : Log(b, e) /\ (hpc[w][1] \in Releasing => e.type = "RELEASED")
  BY HandlerLogs
<1>2. UNCHANGED <<supVars, workerVars>> /\ HoldersStay
  BY HandlerOnlyMoves, HandlerHolders
<1>3. hpc'[w][1] = to /\ \A v \in Worker \ {w} : hpc'[v] = hpc[v]
  BY <1>1, HandlerPlace
<1>4. b \in Bead /\ BdTyped
  BY <1>1, HandlerKnows, SignalIsOne DEF HandlerBusy, TypeInv
\* Beads that neither the handler holds nor has given back stay where they are.
<1>5. ASSUME NEW c \in Bead, hpc[w][1] \notin Releasing /\ Holds(w) => c # run[w].bead
      PROVE  chart'[c].currentState = chart[c].currentState
  <2>1. CASE hpc[w][1] \in Releasing
    <3>1. ASSUME NEW e, Log(b, e), e.type = "RELEASED"
          PROVE  chart'[c].currentState = chart[c].currentState
      BY <1>4, <3>1, LogOnly, StateKept
    <3> QED BY <1>1, <2>1, <3>1
  <2>2. CASE hpc[w][1] \notin Releasing
    <3>1. c # b
      BY <1>1, <1>5, <2>2, BusyHolds
    <3> HIDE DEF b
    <3> QED BY <1>1, <1>4, <3>1, LogOnly
  <2> QED BY <2>1, <2>2
<1>7. ASSUME NEW v \in Worker \ {w}, Holds(v)'
      PROVE  chart'[run[v].bead].currentState = chart[run[v].bead].currentState
  <2>1. Holds(v) /\ run[v].bead \in Bead
    BY <1>2, <1>7, HolderTyped DEF HoldersStay
  <2> QED BY <1>5, <2>1 DEF TrackInv, HoldersTracked
<1>8. pc \in Prepared => chart'[cur].currentState = seen[cur]
  <2>1. pc \in Prepared => cur \in Bead /\ ~BeadHeld(cur)
    BY DEF TypeInv, SupTyped, Claiming, Prepared, TrackInv, AssignTracked, BeforeSplit
  <2> QED BY <1>5, <2>1 DEF PhaseInv, BeadHeld
<1> HIDE DEF b
<1>6. \A v \in Worker : Holds(v)' /\ hpc'[v][1] \in Unapplied
        => chart'[run'[v].bead].currentState = run'[v].state
  <2>1. ASSUME NEW v \in Worker \ {w}, Holds(v)', hpc'[v][1] \in Unapplied
        PROVE  chart'[run'[v].bead].currentState = run'[v].state
    BY <1>2, <1>3, <1>7, <2>1 DEF PhaseInv, HoldersStay, workerVars
  <2>2. ASSUME Holds(w)', hpc'[w][1] \in Unapplied
        PROVE  chart'[run'[w].bead].currentState = run'[w].state
    BY <1>1, <1>2, <1>3, <2>2 DEF PhaseInv, HoldersStay, workerVars
  <2> QED BY <2>1, <2>2
<1> QED
  BY <1>2, <1>6, <1>8 DEF PhaseInv, HoldersStay, supVars

LEMMA PhaseStep ==
    ASSUME TypeInv, TrackInv, PhaseInv, OneSignal, Tame, [Next]_vars PROVE PhaseInv'
<1>1. ASSUME PauseEnds \/ UNCHANGED vars \/ \E b \in Bead : LeaseExpires(b) PROVE PhaseInv'
  <2>1. UNCHANGED <<supVars, workerVars, handlerVars, chart>>
    BY <1>1 DEF PauseEnds, LeaseExpires, vars, bdVars
  <2> QED
    BY <2>1, SameHolders, PhaseKept
       DEF supVars, workerVars, handlerVars, HoldersStay, StatesStay, PhaseInv
<1> QED
  BY <1>1, TameSteps, SupervisorPhase, WorkerPhase, HandlerPhase

LEMMA PhaseHolds == ASSUME OneSignal, Tame PROVE Spec => []PhaseInv
<1>1. Init => PhaseInv
  BY DEF Init, PhaseInv, Holds, Working, Prepared
<1>2. TypeInv /\ TrackInv /\ PhaseInv /\ [Next]_vars => PhaseInv'
  BY PhaseStep
<1> QED
  BY <1>1, <1>2, TypeInvHolds, TrackHolds, PTL DEF Spec

\* A signal is applied in the state it is about, with any number of slots: from
\* the start of its worker until then nothing else moves the bead.
THEOREM PhasesMatch == ASSUME OneSignal, Tame PROVE Spec => PhaseSignalsMatch
<1>1. TrackInv /\ PhaseInv /\ [Next]_vars =>
        [\A w \in Worker, i \in Signal :
            Applies(w, i) => chart[BeadOf(w, i)].currentState = signal[w][i].state]_vars
  <2> SUFFICES ASSUME TrackInv, PhaseInv, NEW w \in Worker, NEW i \in Signal, Applies(w, i)
               PROVE  chart[BeadOf(w, i)].currentState = signal[w][i].state
    OBVIOUS
  <2>1. i = 1 /\ hpc[w][1] = "record" /\ HandlerBusy(w, 1)
    BY SignalIsOne DEF Applies, HandlerBusy
  <2>2. Holds(w) /\ BeadOf(w, 1) = run[w].bead /\ pane[w] = "wait"
    BY <2>1, BusyHolds DEF Releasing
  <2> QED
    BY <2>1, <2>2 DEF PhaseInv, Unapplied, TrackInv, WorkersTame
<1> QED
  BY <1>1, TrackHolds, PhaseHolds, PTL DEF Spec, PhaseSignalsMatch
-----------------------------------------------------------------------------
(* Nothing but an applied signal moves a bead.                            *)

\* With one slot, no signal that overtakes the end of its own spawn, and
\* transitions that lead to states or to final statuses.
OneSlot == MaxSlots = 1
OnTime == "late" \notin Fault
NamedTargets ==
    \A s \in State, k \in SignalKind : Transition[s][k] \in State \cup Terminal \cup {None}

\* A projection as these statecharts leave it: a restart asks for the state the
\* bead stands in.
Fine(p) ==
    /\ p.currentState \in State \cup Terminal \cup {None}
    /\ p.beadStatus \in Terminal \cup {None}
    /\ p.restartTarget \in {None, p.currentState}

ChartsFine == \A b \in Bead : Fine(chart[b])
TargetsNamed == \A w \in Worker : hpc[w][1] = "record" => signal[w][1].next \in State \cup Terminal

\* One bead is assigned at a time, and nobody works from the scan until then.
OneAtATime == Len(todo) <= 1 /\ (todo # <<>> => pc = "assign")
AloneUntilSplit ==
    pc \in {"ready", "listed", "select"} \cup BeforeSplit \/ todo # <<>>
      => \A w \in Worker : pane[w] = "none"

\* What the scan read still holds when it is recorded.
SeenFits ==
    pc \in {"listed", "select", "claim", "claimread", "claimrecord"} \/ todo # <<>>
      => \A b \in Bead : seen[b] \in State => chart[b].currentState \in {None, seen[b]}
CarryFits == pc = "claimrecord" => carry \in {None, seen[cur]}
ClaimFits == pc \in {"worktree", "spawn", "split", "titled"} => chart[cur].currentState = seen[cur]

\* The spawn that is recorded is that of the only worker, who has not signaled.
TitledAlone ==
    pc = "titled" =>
        \A w \in Worker : ~HandlerBusy(w, 1) /\ (pane[w] # "none" => run[w].bead = cur)
BootFits == \A w \in Worker : pane[w] = "boot" => chart[run[w].bead].currentState = run[w].state

ScanInv ==
    OneAtATime /\ AloneUntilSplit /\ SeenFits /\ CarryFits /\ ClaimFits /\ TitledAlone /\ BootFits

\* No bead moves.
Stands == \A b \in Bead : chart[b].currentState \in {None, chart'[b].currentState}

\* What the events do to a projection.
LEMMA FineQuiet ==
    ASSUME NEW p \in Chart, Fine(p), NEW e,
           e.type \in {"STATUS_UPDATED", "WORKTREE_PROVISIONED", "WORKTREE_REMOVED", "RELEASED"},
           e.type = "STATUS_UPDATED" => e.state \in Terminal
    PROVE  Fine(ChartApply(p, e)) /\ ChartApply(p, e).currentState = p.currentState
BY DEF Fine, ChartApply, Chart, Or

LEMMA FineEntered ==
    ASSUME NEW p \in Chart, Fine(p), NEW e, e.type \in {"CLAIMED", "RUN_INITIALIZED", "SPAWNED"},
           e.applies, e.state \in State, p.currentState \in {None, e.state},
           e.type = "CLAIMED" => e.next \in {None, e.state}
    PROVE  Fine(ChartApply(p, e)) /\ ChartApply(p, e).currentState = e.state
<1>1. e.state # None
  BY HarnessAssumption
<1>2. ChartApply(p, e).currentState = e.state
  BY <1>1, StateSet
<1>3. /\ ChartApply(p, e).beadStatus = p.beadStatus
      /\ ChartApply(p, e).restartTarget \in {e.next, p.restartTarget}
      /\ e.type # "CLAIMED" => ChartApply(p, e).restartTarget = p.restartTarget
  BY DEF ChartApply, ChartClaimed, ChartEntered, ChartSpawned, Chart
<1>4. ChartApply(p, e).restartTarget \in {None, e.state}
  <2>1. CASE e.type = "CLAIMED"
    BY <2>1, <1>3 DEF Fine
  <2>2. CASE e.type # "CLAIMED"
    BY <2>2, <1>3 DEF Fine
  <2> QED BY <2>1, <2>2
<1> QED BY <1>2, <1>3, <1>4 DEF Fine

LEMMA FineClosed ==
    ASSUME NEW p \in Chart, Fine(p), NEW e, e.type = "CLOSED"
    PROVE  /\ Fine(ChartApply(p, e))
           /\ p.currentState \in {None, ChartApply(p, e).currentState}
BY DEF Fine, ChartApply, ChartClosed, Chart, Or, Terminal

LEMMA FineMoved ==
    ASSUME NEW p \in Chart, Fine(p), NEW e, e.type \in {"TRANSITION_APPLIED", "RESTART_REQUESTED"},
           e.applies, e.next \in State \cup Terminal
    PROVE  Fine(ChartApply(p, e))
<1>1. e.next # None
  BY HarnessAssumption DEF Terminal, None
<1> QED BY <1>1 DEF Fine, ChartApply, ChartTransition, ChartRestart, Chart, Or

LEMMA LogFine ==
    ASSUME BdTyped, ChartsFine, NEW b \in Bead, NEW e, Log(b, e), Fine(ChartApply(chart[b], e))
    PROVE  /\ ChartsFine'
           /\ chart[b].currentState \in {None, ChartApply(chart[b], e).currentState} => Stands
<1>1. chart'[b] = ChartApply(chart[b], e) /\ \A c \in Bead \ {b} : chart'[c] = chart[c]
  BY LogOnly
<1> QED BY <1>1 DEF ChartsFine, Stands, Fine

LEMMA SameStands == ChartsFine /\ UNCHANGED chart => ChartsFine' /\ Stands
BY DEF ChartsFine, Stands, Fine

\* The state that selection reads is the one the bead stands in, if any.
LEMMA ReadFits ==
    ASSUME NEW p \in Chart, Fine(p), NEW is \in IssueStatus, StatusFor(is, p) \notin Terminal,
           StateForBead(is, p, Start) \in State
    PROVE  p.currentState \in {None, StateForBead(is, p, Start)}
<1>1. p.beadStatus = None
  BY DEF StatusFor, ChartStatus, Fine, Or
<1>2. p.currentState # None => StatusFor(is, p) = p.currentState
  BY <1>1 DEF StatusFor, ChartStatus, Or
<1>3. None \notin State
  BY HarnessAssumption
<1> QED BY <1>2, <1>3 DEF StateForBead, Fine

LEMMA SeenFitsRead ==
    ASSUME TypeInv, ChartsFine, NEW b \in Bead
    PROVE  /\ Read(b) \in State => chart[b].currentState \in {None, Read(b)}
           /\ ReadListed(b) \in State => chart[b].currentState \in {None, ReadListed(b)}
<1>1. chart[b] \in Chart /\ issue[b] \in IssueStatus /\ Fine(chart[b])
  BY DEF TypeInv, BdTyped, ChartsFine
<1>2. "skip" \notin State
  BY HarnessAssumption
<1> DEFINE q == [chart[b] EXCEPT !.restart = FALSE]
<1>3. /\ q \in Chart /\ q.currentState = chart[b].currentState /\ Fine(q)
      /\ StatusFor(issue[b], q) = StatusFor(issue[b], chart[b])
  BY <1>1 DEF Chart, Fine, StatusFor, ChartStatus
<1>4. Read(b) \in State => chart[b].currentState \in {None, Read(b)}
  BY <1>1, <1>2, ReadFits DEF Read
<1>5. ReadListed(b) = IF StatusFor(issue[b], chart[b]) \in Terminal THEN "skip"
                      ELSE StateForBead(issue[b], q, Start)
  BY DEF ReadListed
<1> HIDE DEF q
<1>6. ReadListed(b) \in State => chart[b].currentState \in {None, ReadListed(b)}
  BY <1>1, <1>2, <1>3, <1>5, ReadFits
<1> QED BY <1>4, <1>6

\* Workers that boot stay where they are while no bead moves.
LEMMA BootKept ==
    ASSUME TypeInv, BootFits, Stands,
           \A w \in Worker : pane'[w] = "boot" => pane[w] = "boot" /\ run'[w] = run[w]
    PROVE  BootFits'
<1> SUFFICES ASSUME NEW w \in Worker, pane'[w] = "boot"
             PROVE  chart'[run'[w].bead].currentState = run'[w].state
  BY DEF BootFits
<1>1. pane[w] = "boot" /\ run'[w] = run[w] /\ run[w].bead \in Bead /\ run[w].state \in State
  BY DEF TypeInv, WorkTyped
<1>2. run[w].state # None
  BY <1>1, HarnessAssumption
<1> QED BY <1>1, <1>2 DEF BootFits, Stands

\* Outside of the scan and the assignment only the booting workers matter.
LEMMA ScanOver ==
    ASSUME TypeInv, ScanInv, Stands, UNCHANGED workerVars, todo' = <<>>,
           pc' \notin {"ready", "listed", "select", "titled"} \cup BeforeSplit
    PROVE  ScanInv'
<1>1. BootFits'
  BY BootKept DEF ScanInv, workerVars
<1>2. Len(<<>>) = 0
  OBVIOUS
<1> QED
  BY <1>1, <1>2 DEF ScanInv, OneAtATime, AloneUntilSplit, SeenFits, CarryFits, ClaimFits, TitledAlone,
     BeforeSplit

\* Inside, nobody works.
LEMMA ScanAlone ==
    ASSUME ScanInv, UNCHANGED workerVars,
           pc \in {"ready", "listed", "select"} \cup BeforeSplit \/ todo # <<>>,
           Len(todo') <= 1, todo' # <<>> => pc' = "assign", pc' # "titled",
           SeenFits', CarryFits', ClaimFits'
    PROVE  ScanInv'
<1>1. \A w \in Worker : pane'[w] = "none"
  BY DEF ScanInv, AloneUntilSplit, workerVars
<1> QED BY <1>1 DEF ScanInv, OneAtATime, AloneUntilSplit, TitledAlone, BootFits

\* The search for slots and the two scans.
LEMMA FindSlotsScan ==
    ASSUME TypeInv, TrackInv, ScanInv, Tame, OneSlot, Stands, FindSlots PROVE ScanInv'
<1>1. pc = "slots" /\ todo = <<>> /\ UNCHANGED <<workerVars, chart>>
  BY DEF FindSlots, ScanInv, OneAtATime, bdVars
<1>2. CASE ScanEnds("health")
  BY <1>1, <1>2, ScanOver DEF ScanEnds, BeforeSplit
<1>3. CASE pc' = "ready" /\ UNCHANGED todo /\ \E n \in 0 .. Cardinality(Worker) :
                                                    PaneCountRead(n) /\ FreeSlots(n) # 0
  <2>1. PICK n \in 0 .. Cardinality(Worker) : PaneCountRead(n) /\ FreeSlots(n) # 0
    BY <1>3
  <2>2. n = Cardinality(LivePanes)
    BY <2>1, NoSuchMishap DEF PaneCountRead
  <2>3. Cardinality(started) \in Nat /\ n \in Nat
    <3>1. started \subseteq Bead /\ IsFiniteSet(Bead)
      BY HarnessAssumption DEF TypeInv, MemTyped
    <3>2. IsFiniteSet(started)
      BY <3>1, FS_Subset
    <3> QED BY <2>1, <3>2, FS_CardinalityType, WorkersCounted
  <2>4. n = 0
    BY <2>1, <2>3 DEF FreeSlots, Least, OneSlot
  <2>5. LivePanes = {}
    <3>1. IsFiniteSet(LivePanes)
      BY HarnessAssumption, FS_Subset DEF LivePanes
    <3> QED BY <2>2, <2>4, <3>1, FS_EmptySet
  <2>6. \A w \in Worker : pane'[w] = "none"
    BY <1>1, <2>5 DEF LivePanes, Live, workerVars
  <2>7. Len(<<>>) = 0
    OBVIOUS
  <2> QED
    BY <1>1, <1>3, <2>6, <2>7 DEF ScanInv, OneAtATime, AloneUntilSplit, SeenFits, CarryFits, ClaimFits,
       TitledAlone, BootFits
<1> QED BY <1>2, <1>3 DEF FindSlots

LEMMA ReadingScan ==
    ASSUME TypeInv, ScanInv, ChartsFine, ScanReady \/ ScanInProgress PROVE ScanInv'
<1>1. /\ pc \in {"ready", "listed"} /\ pc' \in {"listed", "select"} /\ todo' = todo
      /\ UNCHANGED <<workerVars, chart>>
  BY DEF ScanReady, ScanInProgress, bdVars
<1>2. \A b \in Bead : seen'[b] \in State => chart[b].currentState \in {None, seen'[b]}
  <2> SUFFICES ASSUME NEW b \in Bead, seen'[b] \in State
               PROVE  chart[b].currentState \in {None, seen'[b]}
    OBVIOUS
  <2>1. "skip" \notin State
    BY HarnessAssumption
  <2>2. CASE ScanReady
    BY <2>1, <2>2, SeenFitsRead DEF ScanReady
  <2>3. CASE ScanInProgress
    <3>1. seen'[b] \in {seen[b], ReadListed(b)} /\ pc = "listed"
      BY <2>3 DEF ScanInProgress
    <3> QED BY <3>1, SeenFitsRead DEF ScanInv, SeenFits
  <2> QED BY <2>2, <2>3
<1>3. SeenFits' /\ CarryFits' /\ ClaimFits'
  BY <1>1, <1>2 DEF SeenFits, CarryFits, ClaimFits
<1>4. todo = <<>> /\ Len(todo) <= 1
  BY <1>1 DEF ScanInv, OneAtATime
<1> QED BY <1>1, <1>3, <1>4, ScanAlone

LEMMA SelectScan ==
    ASSUME TypeInv, ScanInv, ChartsFine, OneSlot, Select PROVE ScanInv'
<1>1. pc = "select" /\ UNCHANGED <<workerVars, chart>>
  BY DEF Select, bdVars
<1>2. slots \in 0 .. MaxSlots
  BY DEF TypeInv, SupTyped
<1>3. CASE ScanEnds("idle")
  BY <1>1, <1>3, SameStands, ScanOver DEF ScanEnds, BeforeSplit
<1>4. CASE pc' = "assign" /\ UNCHANGED seen /\ Len(todo') \in Nat /\ Len(todo') <= slots
  <2>1. Len(todo') <= 1
    BY <1>2, <1>4 DEF OneSlot
  <2>2. SeenFits' /\ CarryFits' /\ ClaimFits'
    BY <1>1, <1>4 DEF ScanInv, SeenFits, CarryFits, ClaimFits
  <2> QED BY <1>1, <1>4, <2>1, <2>2, ScanAlone
<1> QED BY <1>3, <1>4, SelectChooses

LEMMA NextAssignmentScan ==
    ASSUME TypeInv, ScanInv, ChartsFine, NextAssignment PROVE ScanInv'
<1>1. pc = "assign" /\ UNCHANGED <<workerVars, chart>>
  BY DEF NextAssignment, bdVars
<1>2. CASE ScanEnds("health")
  BY <1>1, <1>2, SameStands, ScanOver DEF ScanEnds, BeforeSplit
<1>3. CASE todo # <<>> /\ pc' = "claim" /\ todo' = Tail(todo) /\ UNCHANGED seen
  <2>1. todo \in Seq(Bead) /\ Len(todo) \in Nat /\ Len(todo) <= 1
    BY LenProperties DEF TypeInv, SupTyped, ScanInv, OneAtATime
  <2>2. Tail(todo) \in Seq(Bead) /\ Len(Tail(todo)) = Len(todo) - 1 /\ Len(todo) # 0
    BY <1>3, <2>1, HeadTailProperties, EmptySeq
  <2>3. todo' = <<>> /\ Len(todo') <= 1
    BY <1>3, <2>1, <2>2, EmptySeq
  <2>4. SeenFits' /\ CarryFits' /\ ClaimFits'
    BY <1>1, <1>3 DEF ScanInv, SeenFits, CarryFits, ClaimFits
  <2> QED BY <1>1, <1>3, <2>3, <2>4, ScanAlone
<1> QED BY <1>2, <1>3 DEF NextAssignment

\* The claim reads the restart request, and records it with what the scan read.
LEMMA ClaimScan ==
    ASSUME TypeInv, ScanInv, ChartsFine, Claim \/ ClaimRead PROVE ScanInv'
<1>1. /\ pc \in {"claim", "claimread"} /\ pc' \in {"claimread", "claimrecord", "failed"}
      /\ UNCHANGED <<workerVars, chart, todo, cur, seen>>
      /\ pc' = "claimrecord" => carry' = RestartOf(cur)
  BY DEF Claim, ClaimRead, bdVars
<1>2. todo = <<>> /\ Len(todo) <= 1
  BY <1>1 DEF ScanInv, OneAtATime
<1>3. cur \in Bead /\ seen[cur] \in State
  BY <1>1 DEF TypeInv, SupTyped, Claiming
<1>4. RestartOf(cur) \in {None, seen[cur]}
  BY <1>1, <1>3 DEF RestartOf, ScanInv, SeenFits, ChartsFine, Fine
<1>5. SeenFits' /\ CarryFits' /\ ClaimFits'
  BY <1>1, <1>4 DEF ScanInv, SeenFits, CarryFits, ClaimFits
<1> QED BY <1>1, <1>2, <1>5, ScanAlone DEF BeforeSplit

LEMMA ClaimRecordScan ==
    ASSUME TypeInv, TrackInv, ScanInv, ChartsFine, ClaimRecord
    PROVE  ScanInv' /\ ChartsFine' /\ Stands
<1>1. /\ pc = "claimrecord" /\ UNCHANGED <<workerVars, todo, cur, seen>>
      /\ \/ UNCHANGED chart /\ pc' = "failed"
         \/ Log(cur, ClaimEvent) /\ pc' \in {"failed", "worktree"}
  BY DEF ClaimRecord, TrackInv, PollTame
<1>2. todo = <<>> /\ Len(todo) <= 1
  BY <1>1 DEF ScanInv, OneAtATime
<1>3. CASE UNCHANGED chart /\ pc' = "failed"
  <2>1. SeenFits' /\ CarryFits' /\ ClaimFits' /\ ChartsFine' /\ Stands
    BY <1>2, <1>1, <1>3, SameStands DEF SeenFits, CarryFits, ClaimFits
  <2> QED BY <1>1, <1>2, <1>3, <2>1, ScanAlone DEF BeforeSplit
<1>4. CASE Log(cur, ClaimEvent) /\ pc' \in {"failed", "worktree"}
  <2>1. cur \in Bead /\ seen[cur] \in State /\ BdTyped /\ chart[cur] \in Chart /\ Fine(chart[cur])
    BY <1>1 DEF TypeInv, SupTyped, BdTyped, Claiming, ChartsFine
  <2>2. /\ ClaimEvent.type = "CLAIMED" /\ ClaimEvent.applies /\ ClaimEvent.state = seen[cur]
        /\ ClaimEvent.next \in {None, seen[cur]}
    BY <1>1 DEF ClaimEvent, NoEvent, ScanInv, CarryFits
  <2>3. chart[cur].currentState \in {None, seen[cur]}
    BY <1>1, <2>1 DEF ScanInv, SeenFits
  <2>4. /\ Fine(ChartApply(chart[cur], ClaimEvent))
        /\ ChartApply(chart[cur], ClaimEvent).currentState = seen[cur]
    BY <2>1, <2>2, <2>3, FineEntered
  <2>5. ChartsFine' /\ Stands
    BY <1>4, <2>1, <2>3, <2>4, LogFine
  <2>6. chart'[cur].currentState = seen[cur]
    BY <1>4, <2>1, <2>4, LogOnly
  <2>7. SeenFits' /\ CarryFits' /\ ClaimFits'
    BY <1>1, <1>2, <1>4, <2>6 DEF SeenFits, CarryFits, ClaimFits
  <2> QED BY <1>1, <1>2, <1>4, <2>5, <2>7, ScanAlone DEF BeforeSplit
<1> QED BY <1>1, <1>3, <1>4

\* The worktree and the last count of the panes.
LEMMA PrepareScan ==
    ASSUME TypeInv, ScanInv, ChartsFine, CreateWorktree \/ SpawnCheck
    PROVE  ScanInv' /\ ChartsFine' /\ Stands
<1>1. /\ pc \in {"worktree", "spawn"} /\ pc' \in {"spawn", "split", "relget", "failed"}
      /\ UNCHANGED <<workerVars, todo, cur, seen>>
  BY DEF CreateWorktree, SpawnCheck, ReleaseThen
<1>2. todo = <<>> /\ Len(todo) <= 1
  BY <1>1 DEF ScanInv, OneAtATime
<1>3. cur \in Bead /\ seen[cur] \in State /\ BdTyped
  BY <1>1 DEF TypeInv, SupTyped, Claiming
<1> DEFINE e == [NoEvent EXCEPT !.type = "WORKTREE_PROVISIONED"]
<1>4. ChartsFine' /\ Stands
  <2>1. CASE Log(cur, e)
    <3>1. e.type = "WORKTREE_PROVISIONED" /\ chart[cur] \in Chart /\ Fine(chart[cur])
      BY <1>3 DEF NoEvent, BdTyped, ChartsFine
    <3> HIDE DEF e
    <3> QED BY <1>3, <2>1, <3>1, FineQuiet, LogFine
  <2>2. CASE UNCHANGED chart
    BY <2>2, SameStands
  <2> QED BY <2>1, <2>2 DEF CreateWorktree, SpawnCheck, bdVars
<1>5. chart'[cur].currentState = seen[cur]
  <2>1. chart[cur].currentState = seen[cur]
    BY <1>1 DEF ScanInv, ClaimFits
  <2>2. seen[cur] # None
    BY <1>3, HarnessAssumption
  <2> QED BY <1>3, <1>4, <2>1, <2>2 DEF Stands
<1>6. SeenFits' /\ CarryFits' /\ ClaimFits'
  BY <1>1, <1>2, <1>5 DEF SeenFits, CarryFits, ClaimFits
<1> QED BY <1>1, <1>2, <1>4, <1>6, ScanAlone DEF BeforeSplit

\* The new worker is the only one.
LEMMA SplitWindowScan ==
    ASSUME TypeInv, TrackInv, ScanInv, Tame, OneSignal, SplitWindow PROVE ScanInv'
<1>1. PICK w \in Worker :
        /\ pane' = [pane EXCEPT ![w] = "boot"]
        /\ run' = [run EXCEPT ![w] = [bead |-> cur, state |-> seen[cur], action |-> None]]
        /\ hpc' = [hpc EXCEPT ![w] = [i \in Signal |-> "none"]]
  BY NoSuchMishap DEF SplitWindow
<1>2. pc = "split" /\ pc' = "titled" /\ UNCHANGED <<chart, cur, seen, todo>>
  BY NoSuchMishap DEF SplitWindow, bdVars
<1>3. /\ pane'[w] = "boot" /\ run'[w].bead = cur /\ run'[w].state = seen[cur]
      /\ hpc'[w][1] = "none"
      /\ \A v \in Worker \ {w} : pane'[v] = "none" /\ hpc'[v] = hpc[v]
  BY <1>1, <1>2, SignalIsOne DEF TypeInv, WorkTyped, HandTyped, ScanInv, AloneUntilSplit, BeforeSplit
<1>4. \A v \in Worker : ~HandlerBusy(v, 1)
  BY <1>2 DEF TrackInv, WorkersTame, ScanInv, AloneUntilSplit, BeforeSplit
<1>5. TitledAlone'
  <2>1. ASSUME NEW v \in Worker
        PROVE  hpc'[v][1] \in {"none", "done", "failed"} /\ (pane'[v] # "none" => run'[v].bead = cur)
    <3>1. CASE v = w
      BY <1>3, <3>1
    <3>2. CASE v # w
      BY <1>3, <1>4, <3>2 DEF HandlerBusy
    <3> QED BY <3>1, <3>2
  <2> QED BY <1>2, <2>1 DEF TitledAlone, HandlerBusy
<1>6. ClaimFits' /\ BootFits'
  BY <1>2, <1>3 DEF ScanInv, ClaimFits, BootFits
<1> QED
  BY <1>2, <1>5, <1>6 DEF ScanInv, OneAtATime, AloneUntilSplit, SeenFits, CarryFits, BeforeSplit

\* The end of the spawn and of the release.
LEMMA RecordingScan ==
    ASSUME TypeInv, TrackInv, ScanInv, ChartsFine, RecordSpawned \/ ReleaseRecord
    PROVE  ScanInv' /\ ChartsFine' /\ Stands
<1>1. /\ UNCHANGED <<workerVars, todo>> /\ pc \in {"titled", "relrecord"}
      /\ pc' \in {"assign", "relget", "failed"}
  <2>1. pc = "relrecord" => after = "failed"
    BY DEF TypeInv, SupTyped, TrackInv, PollTame, Releasing, None
  <2> QED BY <2>1 DEF RecordSpawned, ReleaseRecord, ReleaseThen
<1>2. todo = <<>>
  BY <1>1 DEF ScanInv, OneAtATime
<1>3. cur \in Bead /\ BdTyped /\ chart[cur] \in Chart /\ Fine(chart[cur])
  BY <1>1 DEF TypeInv, SupTyped, BdTyped, Claiming, Releasing, ChartsFine
<1>4. ChartsFine' /\ Stands
  <2>1. CASE UNCHANGED chart
    BY <2>1, SameStands
  <2>2. CASE pc = "titled" /\ Log(cur, [NoEvent EXCEPT !.type = "SPAWNED", !.state = seen[cur]])
    <3> DEFINE e == [NoEvent EXCEPT !.type = "SPAWNED", !.state = seen[cur]]
    <3>1. e.type = "SPAWNED" /\ e.applies /\ e.state = seen[cur] /\ Log(cur, e)
      BY <2>2 DEF NoEvent
    <3>2. seen[cur] \in State /\ chart[cur].currentState = seen[cur]
      BY <2>2 DEF TypeInv, SupTyped, Claiming, ScanInv, ClaimFits
    <3> HIDE DEF e
    <3>3. Fine(ChartApply(chart[cur], e)) /\ ChartApply(chart[cur], e).currentState = seen[cur]
      BY <1>3, <3>1, <3>2, FineEntered
    <3> QED BY <1>3, <3>1, <3>2, <3>3, LogFine
  <2>3. CASE Log(cur, [NoEvent EXCEPT !.type = "RELEASED"])
    <3> DEFINE e == [NoEvent EXCEPT !.type = "RELEASED"]
    <3>1. e.type = "RELEASED" /\ Log(cur, e)
      BY <2>3 DEF NoEvent
    <3> HIDE DEF e
    <3> QED BY <1>3, <3>1, FineQuiet, LogFine
  <2> QED BY <2>1, <2>2, <2>3 DEF RecordSpawned, ReleaseRecord
<1> QED BY <1>1, <1>2, <1>4, ScanOver DEF BeforeSplit

LEMMA SupervisorScan ==
    ASSUME TypeInv, TrackInv, ScanInv, ChartsFine, Tame, OneSignal, OneSlot, SupervisorStep
    PROVE  ScanInv' /\ ChartsFine' /\ Stands
<1>1. ~Kill /\ ~Recovered
  BY DEF Kill, Recovered, TrackInv, PollTame
<1>2. ASSUME \/ FindSlots \/ ScanReady \/ ScanInProgress \/ Select \/ NextAssignment \/ Claim
             \/ ClaimRead \/ SplitWindow
      PROVE  ScanInv' /\ ChartsFine' /\ Stands
  <2>1. UNCHANGED chart
    BY <1>2 DEF FindSlots, ScanReady, ScanInProgress, Select, NextAssignment, Claim, ClaimRead,
       SplitWindow, bdVars
  <2>2. ChartsFine' /\ Stands
    BY <2>1, SameStands
  <2> QED
    BY <1>2, <2>2, FindSlotsScan, ReadingScan, SelectScan, NextAssignmentScan, ClaimScan,
       SplitWindowScan
<1>3. ASSUME \/ Poll \/ Reconcile \/ ScanFails \/ ReleaseRead \/ ReleaseReopen \/ AssignmentFailed
             \/ CheckHealth \/ Recover
      PROVE  ScanInv' /\ ChartsFine' /\ Stands
  <2>1. pc \in Releasing => after = "failed"
    BY DEF TypeInv, SupTyped, TrackInv, PollTame, None
  <2>2. /\ UNCHANGED <<chart, workerVars>> /\ pc # "assign" /\ todo' \in {todo, <<>>}
        /\ pc' \notin {"ready", "listed", "select", "titled"} \cup BeforeSplit
    BY <1>3, <2>1 DEF Poll, Reconcile, ScanFails, ReleaseRead, ReleaseReopen, AssignmentFailed,
       CheckHealth, Recover, ScanEnds, BeforeSplit, Releasing, bdVars, TrackInv, PollTame
  <2>3. todo' = <<>>
    BY <2>2 DEF ScanInv, OneAtATime
  <2> QED BY <2>2, <2>3, SameStands, ScanOver
<1> QED
  BY <1>1, <1>2, <1>3, ClaimRecordScan, PrepareScan, RecordingScan DEF SupervisorStep

\* While somebody works, outside of the spawn, only the booting workers matter.
LEMMA ScanLive ==
    ASSUME TypeInv, ScanInv, UNCHANGED supVars, NEW w \in Worker, pane[w] # "none",
           BootFits', pc = "titled" => TitledAlone' /\ Stands
    PROVE  ScanInv'
<1>1. pc \notin {"ready", "listed", "select"} \cup BeforeSplit /\ todo = <<>>
  BY DEF ScanInv, AloneUntilSplit
<1>2. UNCHANGED <<pc, todo, cur, seen, carry>>
  BY DEF supVars
<1>3. pc = "titled" => chart'[cur].currentState = seen[cur]
  <2>1. pc = "titled" => cur \in Bead /\ seen[cur] # None
    BY HarnessAssumption DEF TypeInv, SupTyped, Claiming
  <2> QED BY <2>1 DEF ScanInv, ClaimFits, Stands
<1> QED
  BY <1>1, <1>2, <1>3 DEF ScanInv, OneAtATime, AloneUntilSplit, SeenFits, CarryFits, ClaimFits,
     TitledAlone, BeforeSplit

\* A worker that is initialised records the state in which its bead stands.
LEMMA WorkerScan ==
    ASSUME TypeInv, TrackInv, ScanInv, ChartsFine, OneSignal, NEW w \in Worker,
           WorkerInit(w) \/ RunToolActions(w) \/ Answered(w) \/ Shutdown(w) \/ Die(w) \/ GiveUp(w)
    PROVE  ScanInv' /\ ChartsFine' /\ Stands /\ UNCHANGED handlerVars
<1>1. UNCHANGED <<supVars, handlerVars>> /\ pane[w] # "none"
  BY DEF WorkerInit, RunToolActions, Answered, Shutdown, Die, GiveUp, SetPane
<1>2. /\ pane \in [Worker -> PaneState] /\ run \in [Worker -> Run] /\ BdTyped
      /\ run[w].bead \in Bead /\ run[w].state \in State
  BY <1>1 DEF TypeInv, WorkTyped
<1>3. /\ (pane'[w] # "boot" /\ run'[w].bead = run[w].bead) \/ pane'[w] = "none"
      /\ \A v \in Worker \ {w} : pane'[v] = pane[v] /\ run'[v] = run[v]
  <2>1. CASE WorkerInit(w)
    <3>1. \E p \in {"tools", "work"} : \E a :
            pane' = [pane EXCEPT ![w] = p] /\ run' = [run EXCEPT ![w].action = a]
      BY <2>1 DEF WorkerInit
    <3> QED BY <1>2, <3>1 DEF Run
  <2>2. CASE ~WorkerInit(w)
    BY <1>2, <2>2 DEF RunToolActions, Answered, Shutdown, Die, GiveUp, SetPane
  <2> QED BY <2>1, <2>2
<1>4. ChartsFine' /\ Stands
  <2> DEFINE b == run[w].bead
             e == [NoEvent EXCEPT !.type = "RUN_INITIALIZED", !.state = run[w].state]
  <2>1. CASE WorkerInit(w)
    <3>1. Log(b, e) \/ UNCHANGED chart
      BY <2>1 DEF WorkerInit
    <3>0. chart[b].currentState = run[w].state
      BY <2>1 DEF WorkerInit, ScanInv, BootFits
    <3>2. e.type = "RUN_INITIALIZED" /\ e.applies /\ e.state = run[w].state
      BY DEF NoEvent
    <3>3. chart[b] \in Chart /\ Fine(chart[b])
      BY <1>2 DEF BdTyped, ChartsFine
    <3> HIDE DEF e
    <3>4. /\ Fine(ChartApply(chart[b], e))
          /\ ChartApply(chart[b], e).currentState = run[w].state
      BY <1>2, <3>0, <3>2, <3>3, FineEntered
    <3> QED BY <1>2, <3>0, <3>1, <3>4, LogFine, SameStands
  <2>2. CASE RunToolActions(w)
    <3>1. PICK d : chart' = [chart EXCEPT ![b].completed = d]
      BY <2>2 DEF RunToolActions
    <3>2. \A c \in Bead : /\ chart'[c].currentState = chart[c].currentState
                          /\ chart'[c].beadStatus = chart[c].beadStatus
                          /\ chart'[c].restartTarget = chart[c].restartTarget
      BY <1>2, <3>1 DEF BdTyped, Chart
    <3> QED BY <3>2 DEF ChartsFine, Fine, Stands
  <2>3. CASE Answered(w) \/ Shutdown(w) \/ Die(w) \/ GiveUp(w)
    <3>1. UNCHANGED chart
      BY <2>3 DEF Answered, Shutdown, Die, GiveUp, SetPane, bdVars
    <3> QED BY <3>1, SameStands
  <2> QED BY <2>1, <2>2, <2>3
<1>5. BootFits'
  <2>1. \A v \in Worker : pane'[v] = "boot" => pane[v] = "boot" /\ run'[v] = run[v]
    BY <1>3
  <2> QED BY <1>4, <2>1, BootKept DEF ScanInv
<1>6. pc = "titled" => TitledAlone'
  BY <1>1, <1>3 DEF ScanInv, TitledAlone, HandlerBusy, supVars, handlerVars
<1> QED BY <1>1, <1>4, <1>5, <1>6, ScanLive

\* A signal before the end of its spawn would be late.
LEMMA PostScan ==
    ASSUME TypeInv, ScanInv, ChartsFine, TargetsNamed, OneSignal, OnTime,
           NEW w \in Worker, NEW i \in Signal, NEW k \in Kind, Post(w, i, k)
    PROVE  ScanInv' /\ ChartsFine' /\ TargetsNamed' /\ Stands
<1>1. UNCHANGED <<supVars, chart, run>> /\ pane[w] # "none" /\ pane' = [pane EXCEPT ![w] = "wait"]
  BY DEF Post, bdVars
<1>2. ChartsFine' /\ Stands
  BY <1>1, SameStands
<1>3. \A v \in Worker : pane'[v] = "boot" => pane[v] = "boot" /\ run'[v] = run[v]
  BY <1>1 DEF TypeInv, WorkTyped
<1>4. pc # "titled"
  BY DEF Post, SpawnPending, Mishap, OnTime, ScanInv, TitledAlone
<1>5. ScanInv'
  BY <1>1, <1>2, <1>3, <1>4, BootKept, ScanLive DEF ScanInv
<1>6. /\ hpc'[w][1] = "received"
      /\ \A v \in Worker \ {w} : hpc'[v] = hpc[v] /\ signal'[v] = signal[v]
  <2>1. i = 1 /\ Signal = {1}
    BY SignalIsOne
  <2>2. PICK s : signal' = [signal EXCEPT ![w][i] = s]
    BY DEF Post
  <2> QED BY <2>1, <2>2 DEF Post, TypeInv, HandTyped
<1> QED BY <1>2, <1>5, <1>6 DEF TargetsNamed

\* Only the handler that applies its signal moves a bead.
LEMMA HandlerCharts ==
    ASSUME TypeInv, ChartsFine, TargetsNamed, OneSignal, NEW w \in Worker, NEW i \in Signal,
           HandlerStep(w, i)
    PROVE  ChartsFine' /\ (Stands \/ RecordOutcome(w, i))
<1> DEFINE b == BeadOf(w, i)
<1>1. i = 1
  BY SignalIsOne
<1>2. hpc[w][i] \notin {"none", "done", "failed"}
  BY DEF HandlerStep, Receive, GetBead, RecordOutcome, Merge, Close, CloseRecord, Block, BlockRecord,
     SetIssue, RecordIssue, RemoveWorktree, HandlerReleaseRead, HandlerReleaseReopen,
     HandlerReleaseRecord, HandlerExit, Handler, HandlerKeeps
<1>3. b \in Bead /\ BdTyped /\ chart[b] \in Chart /\ Fine(chart[b])
  BY <1>2, HandlerKnows DEF TypeInv, BdTyped, ChartsFine
<1> HIDE DEF b
<1>4. CASE RecordOutcome(w, i)
  <2> DEFINE k == KindOf(w, i)
             e == [NoEvent EXCEPT
                     !.type = IF k = "RESTART" THEN "RESTART_REQUESTED" ELSE "TRANSITION_APPLIED",
                     !.state = signal[w][i].state, !.next = signal[w][i].next,
                     !.action = signal[w][i].action, !.success = k = "SUCCESS"]
  <2>1. (Log(b, e) \/ UNCHANGED chart) /\ hpc[w][i] = "record"
    BY <1>4 DEF RecordOutcome, Handler, HandlerKeeps, b
  <2>2. /\ e.type \in {"TRANSITION_APPLIED", "RESTART_REQUESTED"} /\ e.applies
        /\ e.next \in State \cup Terminal
    BY <1>1, <2>1 DEF NoEvent, TargetsNamed
  <2> HIDE DEF e
  <2> QED BY <1>3, <1>4, <2>1, <2>2, FineMoved, LogFine, SameStands
<1>5. CASE CloseRecord(w, i)
  <2> DEFINE e == [NoEvent EXCEPT !.type = "CLOSED"]
  <2>1. (Log(b, e) \/ UNCHANGED chart) /\ e.type = "CLOSED"
    BY <1>5 DEF CloseRecord, RecordIssue, NoEvent, b
  <2> HIDE DEF e
  <2> QED BY <1>3, <2>1, FineClosed, LogFine, SameStands
<1>6. ASSUME NEW e, Log(b, e),
             e.type \in {"STATUS_UPDATED", "WORKTREE_PROVISIONED", "WORKTREE_REMOVED", "RELEASED"},
             e.type = "STATUS_UPDATED" => e.state \in Terminal
      PROVE  ChartsFine' /\ Stands
  BY <1>3, <1>6, FineQuiet, LogFine
<1>7. CASE BlockRecord(w, i) \/ RemoveWorktree(w, i) \/ HandlerReleaseRecord(w, i)
  <2>1. \/ UNCHANGED chart
        \/ Log(b, [NoEvent EXCEPT !.type = "STATUS_UPDATED", !.state = "blocked"])
        \/ Log(b, [NoEvent EXCEPT !.type = "WORKTREE_REMOVED"])
        \/ Log(b, [NoEvent EXCEPT !.type = "RELEASED"])
    BY <1>7 DEF BlockRecord, RecordIssue, RemoveWorktree, HandlerReleaseRecord, b
  <2>2. /\ [NoEvent EXCEPT !.type = "STATUS_UPDATED", !.state = "blocked"].type = "STATUS_UPDATED"
        /\ [NoEvent EXCEPT !.type = "STATUS_UPDATED", !.state = "blocked"].state \in Terminal
        /\ [NoEvent EXCEPT !.type = "WORKTREE_REMOVED"].type = "WORKTREE_REMOVED"
        /\ [NoEvent EXCEPT !.type = "RELEASED"].type = "RELEASED"
    BY DEF NoEvent, Terminal
  <2> QED BY <1>6, <2>1, <2>2, SameStands
<1>8. CASE \/ Receive(w, i) \/ GetBead(w, i) \/ Merge(w, i) \/ Close(w, i) \/ Block(w, i)
           \/ HandlerReleaseRead(w, i) \/ HandlerReleaseReopen(w, i) \/ HandlerExit(w, i)
  <2>1. UNCHANGED chart
    BY <1>8 DEF Receive, GetBead, Merge, Close, Block, SetIssue, HandlerReleaseRead,
       HandlerReleaseReopen, HandlerExit, bdVars
  <2> QED BY <2>1, SameStands
<1> QED BY <1>4, <1>5, <1>7, <1>8 DEF HandlerStep

\* What is about to be recorded comes from the statechart.
LEMMA HandlerTargets ==
    ASSUME TypeInv, TrackInv, TargetsNamed, OneSignal, NamedTargets,
           NEW w \in Worker, NEW i \in Signal, HandlerStep(w, i)
    PROVE  TargetsNamed'
<1>1. i = 1
  BY SignalIsOne
<1>2. PICK to \in HandlerPC \ {"none", "received"} : \E next :
        HandlerKeeps(w, 1, hpc[w][1], to, next) /\ HandlerBusy(w, 1)
  BY HandlerGoes
<1>3. hpc'[w][1] = to /\ \A v \in Worker \ {w} : hpc'[v] = hpc[v] /\ signal'[v] = signal[v]
  BY <1>2, HandlerPlace
<1>4. SUFFICES ASSUME to = "record" PROVE signal'[w][1].next \in State \cup Terminal
  BY <1>3 DEF TargetsNamed
<1>5. GetBead(w, 1)
  <2>1. SUFFICES ASSUME ~GetBead(w, 1) PROVE FALSE
    OBVIOUS
  <2>2. CASE Receive(w, 1)
    <3>1. PICK t \in {"done", "relget", "getbead", "failed"} : HandlerKeeps(w, 1, "received", t, None)
      BY <2>2 DEF Receive, Handler
    <3> QED BY <1>1, <1>3, <1>4, <3>1, HandlerOthers
  <2>3. CASE RecordOutcome(w, 1)
    <3>1. PICK t \in {"merge", "relget", "failed"} : HandlerKeeps(w, 1, "record", t, None)
      BY <2>3 DEF RecordOutcome, Handler
    <3> QED BY <1>1, <1>3, <1>4, <3>1, HandlerOthers
  <2>4. CASE ~Receive(w, 1) /\ ~RecordOutcome(w, 1)
    <3>1. PICK from \in {"merge", "close", "block", "closerecord", "blockrecord", "rmtree",
                       "relget", "relset", "relrecord", "exit"},
               t \in {"close", "block", "closerecord", "blockrecord", "rmtree", "relget", "relset",
                     "relrecord", "exit", "done", "failed"} :
            HandlerKeeps(w, 1, from, t, None)
      BY <1>1, <2>1, <2>4
         DEF HandlerStep, Merge, Close, CloseRecord, Block, BlockRecord, SetIssue, RecordIssue,
             RemoveWorktree, HandlerReleaseRead, HandlerReleaseReopen, HandlerReleaseRecord,
             HandlerExit, AfterRelease, Handler
    <3> QED BY <1>1, <1>3, <1>4, <3>1, HandlerOthers
  <2> QED BY <2>2, <2>3, <2>4
<1> DEFINE s == signal[w][1].state
           k == KindOf(w, 1)
           more == k = "SUCCESS" /\ NextActions(s, signal[w][1].action, chart[BeadOf(w, 1)].completed) # {}
           next == IF more THEN s ELSE Transition[s][k]
<1>6. HandlerKeeps(w, 1, "getbead", IF next = None THEN "failed" ELSE "record", next)
      \/ HandlerKeeps(w, 1, "getbead", "failed", None)
  BY <1>5 DEF GetBead, Handler
<1>7. s \in State /\ k \in SignalKind
  BY <1>1, <1>2, HandlerKnows DEF HandlerBusy
<1>8. next \in State \cup Terminal \cup {None}
  BY <1>7 DEF NamedTargets
<1> HIDE DEF next
<1>9. next # None /\ HandlerKeeps(w, 1, "getbead", "record", next)
  <2>1. \A t \in {"failed", "record"} : \A n : HandlerKeeps(w, 1, "getbead", t, n) => t = "record"
    BY <1>1, <1>3, <1>4, HandlerOthers
  <2> QED BY <1>6, <2>1
<1>10. signal'[w][1].next = next
  <2>1. hpc[w][1] = "getbead"
    BY <1>1, <1>9, HandlerOthers
  <2> QED BY <1>2, <1>9, <2>1, HandlerPlace DEF HandlerPC
<1> QED BY <1>8, <1>9, <1>10

LEMMA HandlerScan ==
    ASSUME TypeInv, TrackInv, ScanInv, ChartsFine, TargetsNamed, OneSignal,
           NEW w \in Worker, NEW i \in Signal, HandlerStep(w, i)
    PROVE  ScanInv'
<1>1. i = 1 /\ UNCHANGED <<supVars, workerVars>>
  BY SignalIsOne, HandlerOnlyMoves
<1>2. HandlerBusy(w, 1) /\ pane[w] = "wait"
  <2>1. HandlerBusy(w, 1)
    BY HandlerGoes
  <2> QED BY <2>1 DEF TrackInv, WorkersTame
<1>3. pc # "titled"
  BY <1>2 DEF ScanInv, TitledAlone
<1>4. BootFits'
  <2>1. CASE Stands
    BY <1>1, <2>1, BootKept DEF ScanInv, workerVars
  <2>2. CASE RecordOutcome(w, i)
    <3>1. hpc[w][1] = "record"
      BY <1>1, <2>2 DEF RecordOutcome, Handler, HandlerKeeps
    <3>2. Holds(w) /\ BeadOf(w, 1) = run[w].bead
      BY <1>2, <3>1, BusyHolds DEF Releasing
    <3>3. \A v \in Worker : pane[v] = "boot" => run[v].bead # run[w].bead /\ run[v].bead \in Bead
      BY <1>2, <3>2, HolderTyped DEF TrackInv, HoldersTracked, Holds, Working
    <3>4. \A c \in Bead : c # run[w].bead => chart'[c] = chart[c]
      <4>1. UNCHANGED chart \/ \E e : Log(BeadOf(w, 1), e)
        BY <1>1, <2>2 DEF RecordOutcome
      <4>2. BeadOf(w, 1) \in Bead /\ BdTyped
        BY <3>2, HolderTyped DEF TypeInv
      <4> QED BY <3>2, <4>1, <4>2, LogOnly
    <3> QED BY <1>1, <3>3, <3>4 DEF ScanInv, BootFits, workerVars
  <2> QED BY <2>1, <2>2, HandlerCharts
<1> QED BY <1>1, <1>2, <1>3, <1>4, ScanLive

LEMMA ScanStep ==
    ASSUME TypeInv, TrackInv, ScanInv, ChartsFine, TargetsNamed, OneSignal, OneSlot, Tame, OnTime,
           NamedTargets, [Next]_vars
    PROVE  /\ ScanInv' /\ ChartsFine' /\ TargetsNamed'
           /\ Stands \/ \E w \in Worker, i \in Signal : RecordOutcome(w, i)
<1>1. CASE SupervisorStep
  <2>1. TargetsNamed'
    <3>1. CASE SplitWindow
      <4>1. PICK w \in Worker : /\ hpc' = [hpc EXCEPT ![w] = [i \in Signal |-> "none"]]
                                /\ signal' = [signal EXCEPT ![w] = [i \in Signal |-> NoSignal]]
        BY <3>1, NoSuchMishap DEF SplitWindow
      <4>2. hpc'[w][1] = "none" /\ \A v \in Worker \ {w} : hpc'[v] = hpc[v] /\ signal'[v] = signal[v]
        BY <4>1, SignalIsOne DEF TypeInv, HandTyped
      <4> QED BY <4>2 DEF TargetsNamed
    <3>2. CASE ~SplitWindow
      <4>1. UNCHANGED handlerVars
        BY <1>1, <3>2 DEF SupervisorStep, Poll, Reconcile, FindSlots, ScanReady, ScanInProgress,
           Select, ScanFails, NextAssignment, Claim, ClaimRead, ClaimRecord, CreateWorktree,
           SpawnCheck, RecordSpawned, ReleaseRead, ReleaseReopen, ReleaseRecord, AssignmentFailed,
           CheckHealth, Recover, Kill, Recovered
      <4> QED BY <4>1 DEF TargetsNamed, handlerVars
    <3> QED BY <3>1, <3>2
  <2> QED BY <1>1, <2>1, SupervisorScan
<1>2. ASSUME NEW w \in Worker,
             \/ WorkerInit(w) \/ RunToolActions(w) \/ Answered(w) \/ Shutdown(w) \/ Die(w)
             \/ GiveUp(w)
      PROVE  ScanInv' /\ ChartsFine' /\ TargetsNamed' /\ Stands
  <2>1. ScanInv' /\ ChartsFine' /\ Stands /\ UNCHANGED handlerVars
    BY <1>2, WorkerScan
  <2> QED BY <2>1 DEF TargetsNamed, handlerVars
<1>3. CASE PauseEnds \/ UNCHANGED vars \/ \E b \in Bead : LeaseExpires(b)
  <2>1. UNCHANGED <<supVars, workerVars, handlerVars, chart>>
    BY <1>3 DEF PauseEnds, LeaseExpires, vars, bdVars
  <2>2. ChartsFine' /\ Stands /\ TargetsNamed'
    BY <2>1, SameStands DEF TargetsNamed, handlerVars
  <2>3. ScanInv'
    BY <2>1 DEF ScanInv, OneAtATime, AloneUntilSplit, SeenFits, CarryFits, ClaimFits, TitledAlone,
       BootFits, HandlerBusy, supVars, workerVars, handlerVars
  <2> QED BY <2>2, <2>3
<1>4. ASSUME NEW w \in Worker, NEW i \in Signal, HandlerStep(w, i)
      PROVE  /\ ScanInv' /\ ChartsFine' /\ TargetsNamed'
             /\ Stands \/ RecordOutcome(w, i)
  BY <1>4, HandlerScan, HandlerCharts, HandlerTargets
<1> QED BY <1>1, <1>2, <1>3, <1>4, TameSteps, PostScan

\* With one slot, what claims, spawns, run initialisations, recoveries and
\* closings record never moves a bead: only a signal that is applied does.
THEOREM SignalsMove ==
    ASSUME OneSignal, OneSlot, Tame, OnTime, NamedTargets PROVE Spec => OnlySignalsMove
<1>1. Init => ScanInv /\ ChartsFine /\ TargetsNamed
  <2>1. Len(<<>>) = 0
    OBVIOUS
  <2>2. ASSUME Init PROVE ChartsFine
    BY <2>2 DEF Init, ChartsFine, Fine, NewChart
  <2>3. ASSUME Init PROVE TargetsNamed
    BY <2>3, SignalIsOne DEF Init, TargetsNamed
  <2>4. ASSUME Init PROVE ScanInv
    BY <2>1, <2>4 DEF Init, ScanInv, OneAtATime, AloneUntilSplit, SeenFits, CarryFits, ClaimFits,
       TitledAlone, BootFits, BeforeSplit
  <2> QED BY <2>2, <2>3, <2>4
<1>2. TypeInv /\ TrackInv /\ ScanInv /\ ChartsFine /\ TargetsNamed /\ [Next]_vars
        => ScanInv' /\ ChartsFine' /\ TargetsNamed'
  BY ScanStep
<1>3. TypeInv /\ TrackInv /\ ScanInv /\ ChartsFine /\ TargetsNamed /\ [Next]_vars =>
        [\A b \in Bead :
          chart[b].currentState \notin {None, chart'[b].currentState}
          => \E w \in Worker, i \in Signal : Applies(w, i) /\ BeadOf(w, i) = b]_vars
  <2> SUFFICES ASSUME TypeInv, TrackInv, ScanInv, ChartsFine, TargetsNamed, [Next]_vars,
                      NEW b \in Bead, chart[b].currentState \notin {None, chart'[b].currentState}
               PROVE  \E w \in Worker, i \in Signal : Applies(w, i) /\ BeadOf(w, i) = b
    OBVIOUS
  <2>1. PICK w \in Worker, i \in Signal : RecordOutcome(w, i)
    BY ScanStep DEF Stands
  <2>2. PICK to \in {"merge", "relget"} : HandlerKeeps(w, i, "record", to, None)
    BY <2>1 DEF RecordOutcome, Handler
  <2>3. Applies(w, i)
    BY <2>2, HandlerOthers DEF Applies
  <2>4. BeadOf(w, i) \in Bead /\ BdTyped
    BY <2>3, HandlerKnows DEF Applies, TypeInv
  <2>5. PICK e : Log(BeadOf(w, i), e)
    BY <2>1 DEF RecordOutcome
  <2>6. BeadOf(w, i) = b
    BY <2>4, <2>5, LogOnly
  <2> QED BY <2>3, <2>6
<1> QED
  BY <1>1, <1>2, <1>3, TypeInvHolds, TrackHolds, PTL DEF Spec, OnlySignalsMove
=============================================================================
