--------------------------- MODULE HarnessProofs ----------------------------
(***************************************************************************)
(* Proofs about the coordinator: its types, the slot bound, the            *)
(* idempotency keys and the order of a state's actions.                    *)
(*                                                                         *)
(* The types are not inductive: that what the loop records in the log is   *)
(* an event, and that a worker is started in a state of the statechart,    *)
(* rests on what is known of the assignment, of a live worker and of a     *)
(* busy handler where they stand.                                          *)
(*                                                                         *)
(* The slot bound: the factory counts the panes before it splits the       *)
(* window, and nothing but the poll step that is about to split it makes   *)
(* the count grow.                                                         *)
(*                                                                         *)
(* The idempotency keys: why no two handlers ever act on the same request. *)
(* The set of processed keys is cleared when a worker's identity is used   *)
(* again and when the coordinator starts again; no handler is under way    *)
(* then.                                                                   *)
(*                                                                         *)
(* The actions of a state: a worker is given an action whose predecessors  *)
(* are recorded as completed, or are tools its parent runs before it, and  *)
(* the record only grows; so the handler that finds no further action      *)
(* leaves a state whose actions are all done.                              *)
(***************************************************************************)
EXTENDS Harness, ProjectionLemmas, FiniteSetTheorems, SequenceTheorems, TLAPS

Claiming  == {"claim", "claimread", "claimrecord", "worktree", "spawn", "split", "titled"}
Releasing == {"relget", "relset", "relrecord"}

\* The poll step: outside the scan its bead is one, and selection read a state
\* for it and for every bead it still has to assign.
SupTyped ==
    /\ sup \in {"up", "stopping", "down"} /\ session \in Session /\ pc \in PollPC
    /\ slots \in 0 .. MaxSlots /\ seen \in [Bead -> State \cup {None, "skip"}]
    /\ todo \in Seq(Bead) /\ cur \in Bead \cup {None} /\ carry \in Status \cup {None}
    /\ after \in {None, "failed", "stopped", "recovered"} /\ inactive \subseteq Bead \X State
    /\ pc \in Claiming \cup Releasing \cup {"failed", "stopped", "kill", "recovered"} => cur \in Bead
    /\ pc \in Claiming => seen[cur] \in State
    /\ pc \notin {"ready", "listed", "select"} => \A i \in 1 .. Len(todo) : seen[todo[i]] \in State
    /\ pc \in Releasing => after \in {"failed", "stopped", "recovered"}

MemTyped ==
    /\ started \subseteq Bead /\ missing \in [Bead -> 0 .. ReapThreshold - 1]
    /\ paused \in BOOLEAN /\ processed \subseteq Worker \X Signal

BdTyped ==
    /\ issue \in [Bead -> IssueStatus] /\ chart \in [Bead -> Chart]
    /\ leaseLive \in [Bead -> BOOLEAN] /\ merged \in [Bead -> BOOLEAN]

ActionsOf(s) == {Actions[s][j] : j \in DOMAIN Actions[s]}

\* A live worker has a bead and a state, and an action of that state once it is
\* initialised.
WorkTyped ==
    /\ pane \in [Worker -> PaneState] /\ run \in [Worker -> Run]
    /\ \A w \in Worker : pane[w] # "none" => run[w].bead \in Bead /\ run[w].state \in State
    /\ \A w \in Worker : pane[w] \notin {"none", "boot"} =>
                            run[w].action \in ActionsOf(run[w].state)

\* A busy handler knows the worker's bead, state and action.
HandTyped ==
    /\ hpc \in [Worker -> [Signal -> HandlerPC]] /\ signal \in [Worker -> [Signal -> Sent]]
    /\ \A w \in Worker, i \in Signal : HandlerBusy(w, i) => signal[w][i].kind # None
    /\ \A w \in Worker, i \in Signal : signal[w][i].kind # None =>
          /\ signal[w][i].key \in Signal /\ signal[w][i].bead \in Bead
          /\ signal[w][i].state \in State /\ signal[w][i].action \in Action

TypeInv ==
    SupTyped /\ MemTyped /\ BdTyped /\ WorkTyped /\ HandTyped /\ mishaps \in 0 .. MaxMishaps

-----------------------------------------------------------------------------
(* Helpers.                                                                *)

\* A set of naturals has a first element: the intervals up to its elements have
\* a least one.
LEMMA FirstIn ==
    ASSUME NEW I, I \subseteq Nat, I # {}
    PROVE  First(I) \in I /\ \A j \in I : First(I) <= j
<1> DEFINE T == {0 .. i : i \in I}
           R == StrictSubsetOrdering(Nat)
<1>1. IsWellFoundedOn(R, FiniteSubsetsOf(Nat))
  BY FS_StrictSubsetOrderingWellFounded
<1>2. ASSUME NEW i \in I PROVE 0 .. i \in FiniteSubsetsOf(Nat)
  BY FS_Interval DEF FiniteSubsetsOf
<1>3. T \subseteq FiniteSubsetsOf(Nat) /\ T # {}
  BY <1>2
<1>4. \E x \in T : \A y \in T : <<y, x>> \notin R
  <2> HIDE DEF T, R
  <2> QED BY <1>1, <1>3, WFMin
<1>5. PICK x \in I : \A y \in I : <<0 .. y, 0 .. x>> \notin R
  BY <1>4
<1>6. ASSUME NEW y \in I PROVE x <= y
  <2> SUFFICES ASSUME y < x PROVE FALSE
    BY x \in Nat /\ y \in Nat
  <2>1. x \in Nat /\ y \in Nat
    OBVIOUS
  <2>2. 0 .. y \subseteq 0 .. x /\ x \in 0 .. x /\ x \notin 0 .. y
    BY <2>1
  <2>3. 0 .. y \in SUBSET Nat /\ 0 .. x \in SUBSET Nat
    BY <2>1
  <2>4. <<0 .. y, 0 .. x>> \in R
    BY <2>2, <2>3 DEF StrictSubsetOrdering
  <2> QED
    BY <2>4, <1>5
<1> QED
  BY <1>6 DEF First

LEMMA ActionsTyped ==
    ASSUME NEW s \in State
    PROVE  /\ ActionsOf(s) \subseteq Action /\ Len(Actions[s]) \in Nat
           /\ DOMAIN Actions[s] = 1 .. Len(Actions[s])
<1>1. Actions[s] \in Seq(Action)
  BY HarnessAssumption
<1>2. Len(Actions[s]) \in Nat /\ DOMAIN Actions[s] = 1 .. Len(Actions[s])
  BY <1>1, LenProperties
<1> QED
  BY <1>1, <1>2, ElementOfSeq DEF ActionsOf

\* The action a worker starts with is one of its state's.
LEMMA ActiveTyped ==
    ASSUME NEW s \in State, NEW done PROVE ActiveAction(s, done) \in ActionsOf(s)
<1> DEFINE q == Actions[s]
           pending == {j \in DOMAIN q : q[j] \notin done}
           space   == IF pending # {} THEN pending ELSE DOMAIN q
           prompts == {j \in space : q[j] \notin ToolAction \cup FreshAction}
           fresh   == {j \in space : q[j] \in FreshAction}
           choice  == IF prompts # {} THEN prompts ELSE IF fresh # {} THEN fresh ELSE space
<1>1. q \in Seq(Action) /\ q # <<>>
  BY HarnessAssumption
<1>2. DOMAIN q = 1 .. Len(q) /\ Len(q) \in Nat \ {0}
  BY <1>1, LenProperties, EmptySeq
<1>3. choice \subseteq DOMAIN q /\ choice # {}
  <2>1. 1 \in DOMAIN q
    <3> HIDE DEF q
    <3> QED BY <1>2
  <2> HIDE DEF q
  <2> QED BY <2>1
<1>4. First(choice) \in DOMAIN q
  <2> HIDE DEF choice, q
  <2> QED BY <1>2, <1>3, FirstIn
<1>5. q[First(choice)] \in ActionsOf(s)
  <2> HIDE DEF choice
  <2> QED BY <1>4 DEF ActionsOf
<1>6. ActiveAction(s, done) = q[First(choice)]
  BY DEF ActiveAction
<1> QED
  BY <1>5, <1>6

\* Recording an event of a bead keeps the projections typed.
LEMMA LogTyped ==
    ASSUME BdTyped, NEW b \in Bead, NEW e \in Event, Log(b, e) PROVE chart' \in [Bead -> Chart]
<1>1. ChartApply(chart[b], e) \in Chart
  BY ChartTyped DEF BdTyped
<1> QED
  BY <1>1 DEF Log, BdTyped

LEMMA MishapTyped ==
    ASSUME TypeInv, NEW f, Mishap(f) \/ UNCHANGED mishaps PROVE mishaps' \in 0 .. MaxMishaps
BY HarnessAssumption DEF TypeInv, Mishap

\* What an action leaves alone keeps its type.
LEMMA Untouched ==
    ASSUME TypeInv
    PROVE  /\ UNCHANGED supVars => SupTyped'
           /\ UNCHANGED memVars => MemTyped'
           /\ UNCHANGED bdVars => BdTyped'
           /\ UNCHANGED workerVars => WorkTyped'
           /\ UNCHANGED handlerVars => HandTyped'
<1>1. UNCHANGED supVars => SupTyped'
  BY DEF TypeInv, supVars, SupTyped
<1>2. UNCHANGED memVars => MemTyped'
  BY DEF TypeInv, memVars, MemTyped
<1>3. UNCHANGED bdVars => BdTyped'
  BY DEF TypeInv, bdVars, BdTyped
<1>4. UNCHANGED workerVars => WorkTyped'
  BY DEF TypeInv, workerVars, WorkTyped
<1>5. UNCHANGED handlerVars => HandTyped'
  BY DEF TypeInv, handlerVars, HandTyped, HandlerBusy
<1> QED
  BY <1>1, <1>2, <1>3, <1>4, <1>5

LEMMA InitTyped == ASSUME Init PROVE TypeInv
<1>1. SupTyped
  BY HarnessAssumption, EmptySeq DEF Init, SupTyped, PollPC, NothingSeen, Claiming, Releasing
<1>2. MemTyped
  <2>1. 0 \in 0 .. ReapThreshold - 1
    BY DEF ReapThreshold
  <2> QED
    BY <2>1 DEF Init, MemTyped
<1>5. BdTyped
  <2>1. NewChart \in Chart
    BY DEF NewChart, Chart
  <2> QED
    BY <2>1 DEF Init, BdTyped, IssueStatus
<1>3. WorkTyped
  BY DEF Init, WorkTyped, PaneState, NoRun, Run
<1>4. HandTyped
  <2>1. NoSignal \in Sent /\ NoSignal.kind = None
    BY HarnessAssumption DEF NoSignal, Sent
  <2> QED
    BY <2>1 DEF Init, HandTyped, HandlerPC, HandlerBusy
<1> QED
  BY <1>1, <1>2, <1>3, <1>4, <1>5, HarnessAssumption DEF Init, TypeInv

\* Every event the coordinator and its workers record is one.
LEMMA EventTyped ==
    ASSUME NEW t \in EventType, NEW s \in Status \cup {None}, NEW n \in Status \cup {None},
           NEW a \in Action \cup {None}, NEW ok \in BOOLEAN,
           NEW ss \in Session \cup {None}, NEW r \in BOOLEAN
    PROVE  /\ [NoEvent EXCEPT !.type = t] \in Event
           /\ [NoEvent EXCEPT !.type = t, !.state = s] \in Event
           /\ [NoEvent EXCEPT !.type = t, !.state = s, !.next = n] \in Event
           /\ [NoEvent EXCEPT !.type = t, !.state = s, !.next = n, !.action = a,
                              !.success = ok] \in Event
           /\ [NoEvent EXCEPT !.type = t, !.state = s, !.session = ss, !.restart = r,
                              !.next = n] \in Event
BY DEF NoEvent, Event

-----------------------------------------------------------------------------
(* The poll step.                                                          *)

\* Where the scan ends its locals are forgotten.
LEMMA ScanEndsTyped ==
    ASSUME TypeInv, NEW to \in {"idle", "health"}, ScanEnds(to), UNCHANGED <<sup, session, inactive>>
    PROVE  SupTyped'
BY HarnessAssumption, EmptySeq
   DEF TypeInv, SupTyped, ScanEnds, NothingSeen, PollPC, Claiming, Releasing

LEMMA PollTyped == ASSUME TypeInv, Poll PROVE TypeInv'
<1>1. SupTyped'
  BY DEF TypeInv, SupTyped, Poll, PollPC, Claiming, Releasing
<1> QED
  BY <1>1, Untouched, MishapTyped DEF Poll, TypeInv

LEMMA ReconcileTyped == ASSUME TypeInv, Reconcile PROVE TypeInv'
<1>1. SupTyped'
  BY DEF TypeInv, SupTyped, Reconcile, PollPC, Claiming, Releasing
<1>2. PICK live \in SUBSET Bead :
        /\ PanesRead(live)
        /\ started' = {b \in started : Missed(live, b) < ReapThreshold}
        /\ missing' = [b \in Bead |-> IF b \notin started THEN missing[b]
                                      ELSE Missed(live, b) % ReapThreshold]
  BY DEF Reconcile
<1>3. ASSUME NEW b \in Bead PROVE Missed(live, b) % ReapThreshold \in 0 .. ReapThreshold - 1
  <2>1. Missed(live, b) \in Int
    BY DEF TypeInv, MemTyped, Missed, ReapThreshold
  <2> QED
    BY <2>1 DEF ReapThreshold
<1>4. MemTyped'
  BY <1>2, <1>3 DEF TypeInv, MemTyped, Reconcile
<1>5. mishaps' \in 0 .. MaxMishaps
  BY <1>2, MishapTyped DEF PanesRead
<1> QED
  BY <1>1, <1>4, <1>5, Untouched DEF Reconcile, TypeInv

\* There are never more free slots than slots.
LEMMA FreeSlotsTyped == ASSUME TypeInv, NEW n \in Nat PROVE FreeSlots(n) \in 0 .. MaxSlots
<1>1. Cardinality(started) \in Nat
  BY HarnessAssumption, FS_Subset, FS_CardinalityType DEF TypeInv, MemTyped
<1> QED
  BY <1>1, HarnessAssumption DEF FreeSlots, Least

LEMMA WorkersCounted == Cardinality(Worker) \in Nat
BY HarnessAssumption, FS_CardinalityType

LEMMA FindSlotsTyped == ASSUME TypeInv, FindSlots PROVE TypeInv'
<1>1. PICK n \in 0 .. Cardinality(Worker) :
        /\ PaneCountRead(n)
        /\ IF paused \/ FreeSlots(n) = 0 THEN ScanEnds("health")
           ELSE /\ pc' = "ready" /\ slots' = FreeSlots(n)
                /\ UNCHANGED <<seen, todo, cur, carry, after>>
  BY DEF FindSlots
<1>2. FreeSlots(n) \in 0 .. MaxSlots
  BY WorkersCounted, FreeSlotsTyped
<1>3. ASSUME ScanEnds("health") PROVE SupTyped'
  BY <1>3, ScanEndsTyped DEF FindSlots
<1>4. ASSUME pc' = "ready", slots' = FreeSlots(n), UNCHANGED <<seen, todo, cur, carry, after>>
      PROVE  SupTyped'
  BY <1>2, <1>4 DEF TypeInv, SupTyped, FindSlots, PollPC, Claiming, Releasing
<1>5. mishaps' \in 0 .. MaxMishaps
  BY <1>1, MishapTyped DEF PaneCountRead
<1> QED
  BY <1>1, <1>3, <1>4, <1>5, Untouched DEF FindSlots, TypeInv

\* What the selection reads about a bead.
LEMMA ReadTyped ==
    ASSUME TypeInv, NEW b \in Bead
    PROVE  Read(b) \in State \cup {None, "skip"} /\ ReadListed(b) \in State \cup {None, "skip"}
<1>1. chart[b] \in Chart /\ issue[b] \in IssueStatus /\ Start \in State
  BY HarnessAssumption DEF TypeInv, BdTyped
<1>2. [chart[b] EXCEPT !.restart = FALSE] \in Chart
  BY <1>1 DEF Chart
<1> QED
  BY <1>1, <1>2, StateTyped DEF Read, ReadListed

LEMMA ScanTyped == ASSUME TypeInv, ScanReady \/ ScanInProgress \/ ScanFails PROVE TypeInv'
<1>1. ASSUME ScanReady PROVE SupTyped'
  BY <1>1, ReadTyped DEF TypeInv, SupTyped, ScanReady, PollPC, Claiming, Releasing
<1>2. ASSUME ScanInProgress PROVE SupTyped'
  BY <1>2, ReadTyped DEF TypeInv, SupTyped, ScanInProgress, PollPC, Claiming, Releasing
<1>3. ASSUME ScanFails PROVE SupTyped'
  BY <1>3, ScanEndsTyped DEF ScanFails
<1> QED
  BY <1>1, <1>2, <1>3, Untouched, MishapTyped DEF ScanReady, ScanInProgress, ScanFails, TypeInv

LEMMA SelectTyped == ASSUME TypeInv, Select PROVE TypeInv'
<1> DEFINE S == {b \in Bead \ started : seen[b] # "skip"}
<1>1. PICK q \in Orders(S) :
        LET chosen == SubSeq(q, 1, Least(slots, Len(q)))
        IN  IF \E i \in DOMAIN chosen : seen[chosen[i]] = None
            THEN ScanEnds("idle")
            ELSE pc' = "assign" /\ todo' = chosen /\ UNCHANGED <<slots, seen, cur, carry, after>>
  BY DEF Select
<1> DEFINE m == Least(slots, Len(q))
           chosen == SubSeq(q, 1, m)
<1>2. Cardinality(S) \in Nat
  BY HarnessAssumption, FS_Subset, FS_CardinalityType
<1>3. q \in Seq(S)
  <2>1. q \in [1 .. Cardinality(S) -> S]
    BY DEF Orders
  <2> HIDE DEF S
  <2> QED BY <1>2, <2>1, SeqDef
<1>4. m \in Nat /\ m <= Len(q)
  <2>1. Len(q) \in Nat /\ slots \in Nat
    BY <1>3, LenProperties, HarnessAssumption DEF TypeInv, SupTyped
  <2> QED BY <2>1 DEF Least
<1>5. \A i \in 1 .. m : q[i] \in S
  <2>1. Len(q) \in Nat
    BY <1>3, LenProperties
  <2> HIDE DEF S, m
  <2> QED BY <1>3, <1>4, <2>1, ElementOfSeq
<1>6. chosen \in Seq(S)
  BY <1>4, <1>5, SubSeqProperties
<1>7. ASSUME ScanEnds("idle") PROVE SupTyped'
  BY <1>7, ScanEndsTyped DEF Select
<1>8. ASSUME pc' = "assign", todo' = chosen, UNCHANGED <<slots, seen, cur, carry, after>>,
             \A i \in DOMAIN chosen : seen[chosen[i]] # None
      PROVE  SupTyped'
  <2>1. \A i \in 1 .. Len(chosen) : chosen[i] \in S /\ seen[chosen[i]] \in State
    <3>1. \A i \in 1 .. Len(chosen) : chosen[i] \in S /\ i \in DOMAIN chosen
      BY <1>6, LenProperties, ElementOfSeq
    <3> QED
      BY <3>1, <1>8 DEF TypeInv, SupTyped
  <2>2. chosen \in Seq(Bead)
    BY <1>6, SeqMonotonic
  <2> HIDE DEF chosen
  <2> QED
    BY <2>1, <2>2, <1>8 DEF TypeInv, SupTyped, Select, PollPC, Claiming, Releasing
<1>9. SupTyped'
  BY <1>1, <1>7, <1>8
<1> QED
  BY <1>9, Untouched, MishapTyped DEF Select, TypeInv

-----------------------------------------------------------------------------
(* One assignment, and the recovery.                                       *)

LEMMA NextAssignmentTyped == ASSUME TypeInv, NextAssignment PROVE TypeInv'
<1>1. PICK n \in 0 .. Cardinality(Worker) :
        /\ PaneCountRead(n)
        /\ IF todo = <<>> \/ sup = "stopping" \/ FreeSlots(n) = 0
           THEN ScanEnds("health") /\ UNCHANGED started
           ELSE /\ pc' = "claim" /\ todo' = Tail(todo) /\ cur' = Head(todo)
                /\ started' = started \cup {Head(todo)}
                /\ UNCHANGED <<slots, seen, carry, after>>
  BY DEF NextAssignment
<1>2. ASSUME ScanEnds("health"), UNCHANGED started PROVE SupTyped' /\ MemTyped'
  BY <1>2, ScanEndsTyped DEF NextAssignment, TypeInv, MemTyped
<1>3. ASSUME todo # <<>>, pc' = "claim", todo' = Tail(todo), cur' = Head(todo),
             started' = started \cup {Head(todo)}, UNCHANGED <<slots, seen, carry, after>>
      PROVE  SupTyped' /\ MemTyped'
  <2>1. todo \in Seq(Bead) /\ \A i \in 1 .. Len(todo) : seen[todo[i]] \in State
    BY DEF NextAssignment, TypeInv, SupTyped
  <2>2. /\ Head(todo) \in Bead /\ Head(todo) = todo[1] /\ Len(todo) \in Nat \ {0}
        /\ Tail(todo) \in Seq(Bead) /\ Len(Tail(todo)) = Len(todo) - 1
        /\ \A i \in 1 .. Len(Tail(todo)) : Tail(todo)[i] = todo[i + 1]
    BY <1>3, <2>1, HeadTailProperties, EmptySeq
  <2>3. seen[Head(todo)] \in State /\ \A i \in 1 .. Len(Tail(todo)) : seen[Tail(todo)[i]] \in State
    BY <2>1, <2>2
  <2> QED
    BY <1>3, <2>2, <2>3
    DEF NextAssignment, TypeInv, SupTyped, MemTyped, PollPC, Claiming, Releasing
<1>4. mishaps' \in 0 .. MaxMishaps
  BY <1>1, MishapTyped DEF PaneCountRead
<1> QED
  BY <1>1, <1>2, <1>3, <1>4, Untouched DEF NextAssignment, TypeInv

\* A restart target read from a projection.
LEMMA RestartTyped ==
    ASSUME TypeInv, NEW b \in Bead PROVE RestartOf(b) \in Status \cup {None}
BY DEF TypeInv, BdTyped, RestartOf, Chart

LEMMA ClaimTyped == ASSUME TypeInv, Claim \/ ClaimRead PROVE TypeInv'
<1>1. cur \in Bead /\ pc \in {"claim", "claimread"}
  BY DEF Claim, ClaimRead, TypeInv, SupTyped, Claiming
<1>2. RestartOf(cur) \in Status \cup {None}
  BY <1>1, RestartTyped
<1>3. /\ pc' \in {"claimread", "claimrecord", "failed"}
      /\ carry' \in {carry, RestartOf(cur)}
      /\ UNCHANGED <<sup, session, slots, seen, todo, cur, after, inactive>>
  BY DEF Claim, ClaimRead
<1>4. SupTyped'
  BY <1>1, <1>2, <1>3 DEF TypeInv, SupTyped, PollPC, Claiming, Releasing
<1>5. BdTyped'
  BY <1>1 DEF Claim, ClaimRead, TypeInv, BdTyped, bdVars, IssueStatus
<1>6. mishaps' \in 0 .. MaxMishaps
  BY MishapTyped DEF Claim, ClaimRead
<1> QED
  BY <1>4, <1>5, <1>6, Untouched DEF Claim, ClaimRead, TypeInv

LEMMA ClaimRecordTyped == ASSUME TypeInv, ClaimRecord PROVE TypeInv'
<1>1. cur \in Bead /\ seen[cur] \in State /\ session \in Session /\ carry \in Status \cup {None}
  BY DEF ClaimRecord, TypeInv, SupTyped, Claiming
<1>2. ClaimEvent \in Event
  BY <1>1, EventTyped DEF ClaimEvent, EventType, Status
<1>3. chart' \in [Bead -> Chart]
  <2>1. UNCHANGED chart \/ Log(cur, ClaimEvent)
    BY DEF ClaimRecord
  <2> QED BY <1>1, <1>2, <2>1, LogTyped DEF TypeInv, BdTyped
<1>4. BdTyped'
  BY <1>3 DEF ClaimRecord, TypeInv, BdTyped
<1>5. SupTyped'
  BY <1>1 DEF ClaimRecord, TypeInv, SupTyped, PollPC, Claiming, Releasing
<1>6. mishaps' \in 0 .. MaxMishaps
  BY MishapTyped DEF ClaimRecord
<1> QED
  BY <1>4, <1>5, <1>6, Untouched DEF ClaimRecord, TypeInv

LEMMA WorktreeTyped == ASSUME TypeInv, CreateWorktree \/ RecordSpawned PROVE TypeInv'
<1>1. cur \in Bead /\ seen[cur] \in State
  BY DEF CreateWorktree, RecordSpawned, TypeInv, SupTyped, Claiming
<1>2. /\ [NoEvent EXCEPT !.type = "WORKTREE_PROVISIONED"] \in Event
      /\ [NoEvent EXCEPT !.type = "SPAWNED", !.state = seen[cur]] \in Event
  BY <1>1, EventTyped DEF EventType, Status
<1>3. chart' \in [Bead -> Chart]
  BY <1>1, <1>2, LogTyped DEF CreateWorktree, RecordSpawned, TypeInv, BdTyped
<1>4. BdTyped'
  BY <1>3 DEF CreateWorktree, RecordSpawned, TypeInv, BdTyped
<1>5. SupTyped'
  BY <1>1 DEF CreateWorktree, RecordSpawned, ReleaseThen, TypeInv, SupTyped, PollPC, Claiming,
              Releasing
<1>6. mishaps' \in 0 .. MaxMishaps
  BY MishapTyped DEF CreateWorktree, RecordSpawned
<1> QED
  BY <1>4, <1>5, <1>6, Untouched DEF CreateWorktree, RecordSpawned, TypeInv

LEMMA SpawnCheckTyped == ASSUME TypeInv, SpawnCheck PROVE TypeInv'
<1>1. SupTyped'
  BY DEF SpawnCheck, ReleaseThen, TypeInv, SupTyped, PollPC, Claiming, Releasing
<1>2. mishaps' \in 0 .. MaxMishaps
  BY MishapTyped DEF SpawnCheck, PaneCountRead
<1> QED
  BY <1>1, <1>2, Untouched DEF SpawnCheck, TypeInv

\* The new worker has a bead and a state; nothing of it is being handled yet.
LEMMA SplitWindowTyped == ASSUME TypeInv, SplitWindow PROVE TypeInv'
<1>1. cur \in Bead /\ seen[cur] \in State
  BY DEF SplitWindow, TypeInv, SupTyped, Claiming
<1>2. SupTyped'
  BY DEF SplitWindow, ReleaseThen, TypeInv, SupTyped, PollPC, Claiming, Releasing
<1>3. mishaps' \in 0 .. MaxMishaps
  BY MishapTyped DEF SplitWindow
<1>4. ASSUME NEW w \in Worker,
             pane' = [pane EXCEPT ![w] = "boot"],
             run' = [run EXCEPT ![w] = [bead |-> cur, state |-> seen[cur], action |-> None]],
             hpc' = [hpc EXCEPT ![w] = [i \in Signal |-> "none"]],
             signal' = [signal EXCEPT ![w] = [i \in Signal |-> NoSignal]],
             processed' = {p \in processed : p[1] # w}
      PROVE  MemTyped' /\ WorkTyped' /\ HandTyped'
  <2>1. MemTyped'
    BY <1>4 DEF SplitWindow, TypeInv, MemTyped
  <2>2. [bead |-> cur, state |-> seen[cur], action |-> None] \in Run
    BY <1>1 DEF Run
  <2>3. WorkTyped'
    BY <1>1, <1>4, <2>2 DEF TypeInv, WorkTyped, PaneState
  <2>4. NoSignal \in Sent /\ NoSignal.kind = None
    BY HarnessAssumption DEF NoSignal, Sent
  <2>5. HandTyped'
    BY <1>4, <2>4 DEF TypeInv, HandTyped, HandlerPC, HandlerBusy
  <2> QED
    BY <2>1, <2>3, <2>5
<1>5. MemTyped' /\ WorkTyped' /\ HandTyped'
  BY <1>4, Untouched DEF SplitWindow, TypeInv, MemTyped
<1> QED
  BY <1>2, <1>3, <1>5, Untouched DEF SplitWindow, TypeInv

LEMMA ReleaseTyped ==
    ASSUME TypeInv, ReleaseRead \/ ReleaseReopen \/ ReleaseRecord PROVE TypeInv'
<1>1. cur \in Bead /\ pc \in Releasing /\ after \in {"failed", "stopped", "recovered"}
  BY DEF ReleaseRead, ReleaseReopen, ReleaseRecord, TypeInv, SupTyped, Releasing
<1>2. /\ pc' \in {"relset", "relrecord", after}
      /\ UNCHANGED <<sup, session, slots, seen, todo, cur, carry, after, inactive>>
  BY DEF ReleaseRead, ReleaseReopen, ReleaseRecord
<1>3. SupTyped'
  BY <1>1, <1>2 DEF TypeInv, SupTyped, PollPC, Claiming, Releasing
<1>4. [NoEvent EXCEPT !.type = "RELEASED"] \in Event
  BY EventTyped DEF EventType
<1>5. chart' \in [Bead -> Chart]
  BY <1>1, <1>4, LogTyped DEF ReleaseRead, ReleaseReopen, ReleaseRecord, TypeInv, BdTyped, bdVars
<1>6. BdTyped'
  BY <1>5 DEF ReleaseRead, ReleaseReopen, ReleaseRecord, TypeInv, BdTyped, bdVars, IssueStatus
<1>7. mishaps' \in 0 .. MaxMishaps
  BY MishapTyped DEF ReleaseRead, ReleaseReopen, ReleaseRecord
<1> QED
  BY <1>3, <1>6, <1>7, Untouched DEF ReleaseRead, ReleaseReopen, ReleaseRecord, TypeInv

LEMMA AssignmentFailedTyped == ASSUME TypeInv, AssignmentFailed PROVE TypeInv'
<1>1. SupTyped'
  <2>1. ASSUME pc = "failed", pc' = "assign", after' = None, UNCHANGED <<slots, seen, todo, cur, carry>>
        PROVE  SupTyped'
    BY <2>1 DEF AssignmentFailed, TypeInv, SupTyped, PollPC, Claiming, Releasing
  <2> QED
    BY <2>1, ScanEndsTyped DEF AssignmentFailed
<1>2. MemTyped'
  BY DEF AssignmentFailed, TypeInv, MemTyped
<1> QED
  BY <1>1, <1>2, Untouched DEF AssignmentFailed, TypeInv

LEMMA CheckHealthTyped == ASSUME TypeInv, CheckHealth PROVE TypeInv'
<1>1. LiveBeads \subseteq Bead
  BY DEF TypeInv, WorkTyped, LiveBeads, LivePanes, Live
<1>2. inactive' \subseteq Bead \X State
  BY <1>1 DEF CheckHealth
<1>3. SupTyped'
  BY <1>2 DEF CheckHealth, TypeInv, SupTyped, PollPC, Claiming, Releasing
<1> QED
  BY <1>3, Untouched DEF CheckHealth, TypeInv

LEMMA RecoverTyped == ASSUME TypeInv, Recover PROVE TypeInv'
<1>1. ASSUME inactive = {}, pc' = "idle", UNCHANGED <<cur, inactive, chart>>
      PROVE  SupTyped' /\ BdTyped'
  BY <1>1 DEF Recover, TypeInv, SupTyped, BdTyped, PollPC, Claiming, Releasing
<1>2. ASSUME NEW i \in inactive, cur' = i[1], inactive' = inactive \ {i}, pc' = "kill",
             \/ UNCHANGED chart
             \/ Log(i[1], [NoEvent EXCEPT !.type = "RESTART_REQUESTED", !.state = i[2],
                                          !.next = i[2]])
      PROVE  SupTyped' /\ BdTyped'
  <2>1. i[1] \in Bead /\ i[2] \in State
    BY DEF TypeInv, SupTyped
  <2>2. [NoEvent EXCEPT !.type = "RESTART_REQUESTED", !.state = i[2], !.next = i[2]] \in Event
    BY <2>1, EventTyped DEF EventType, Status
  <2>3. chart' \in [Bead -> Chart]
    BY <1>2, <2>1, <2>2, LogTyped DEF TypeInv, BdTyped
  <2>4. BdTyped'
    BY <2>3 DEF Recover, TypeInv, BdTyped
  <2>5. SupTyped'
    BY <1>2, <2>1 DEF Recover, TypeInv, SupTyped, PollPC, Claiming, Releasing
  <2> QED
    BY <2>4, <2>5
<1>3. SupTyped' /\ BdTyped'
  BY <1>1, <1>2 DEF Recover
<1>4. mishaps' \in 0 .. MaxMishaps
  BY MishapTyped DEF Recover
<1> QED
  BY <1>3, <1>4, Untouched DEF Recover, TypeInv

LEMMA KillTyped == ASSUME TypeInv, Kill PROVE TypeInv'
<1>1. SupTyped'
  BY DEF Kill, ReleaseThen, TypeInv, SupTyped, PollPC, Claiming, Releasing
<1>2. ASSUME pane' = [w \in Worker |-> IF run[w].bead = cur THEN "none" ELSE pane[w]],
             run' = [w \in Worker |-> IF run[w].bead = cur THEN NoRun ELSE run[w]]
      PROVE  WorkTyped'
  <2>1. NoRun \in Run
    BY DEF NoRun, Run
  <2> QED
    BY <1>2, <2>1 DEF TypeInv, WorkTyped, PaneState
<1>3. WorkTyped'
  BY <1>2, Untouched DEF Kill
<1>4. mishaps' \in 0 .. MaxMishaps
  BY MishapTyped DEF Kill
<1> QED
  BY <1>1, <1>3, <1>4, Untouched DEF Kill, TypeInv

\* A bead that leaves the bookkeeping of the slots.
LEMMA ExitedTyped ==
    ASSUME TypeInv, NEW b \in Bead, Exited(b), paused' \in {paused, TRUE},
           processed' \subseteq Worker \X Signal
    PROVE  MemTyped'
<1>1. 0 \in 0 .. ReapThreshold - 1
  BY DEF ReapThreshold
<1> QED
  BY <1>1 DEF Exited, TypeInv, MemTyped

LEMMA RecoveredTyped == ASSUME TypeInv, Recovered PROVE TypeInv'
<1>1. SupTyped'
  BY DEF Recovered, TypeInv, SupTyped, PollPC, Claiming, Releasing
<1>2. cur \in Bead
  BY DEF Recovered, TypeInv, SupTyped
<1>3. MemTyped'
  BY <1>2, ExitedTyped DEF Recovered, TypeInv, MemTyped
<1> QED
  BY <1>1, <1>3, Untouched DEF Recovered, TypeInv

-----------------------------------------------------------------------------
(* The workers.                                                            *)

LEMMA WorkerInitTyped == ASSUME TypeInv, NEW w \in Worker, WorkerInit(w) PROVE TypeInv'
<1> DEFINE b == run[w].bead
           s == run[w].state
           a == ActiveAction(s, chart[b].completed)
           e == [NoEvent EXCEPT !.type = "RUN_INITIALIZED", !.state = s]
<1>1. b \in Bead /\ s \in State
  BY DEF WorkerInit, TypeInv, WorkTyped
<1>2. a \in ActionsOf(s) /\ a \in Action
  BY <1>1, ActiveTyped, ActionsTyped
<1>3. run' = [run EXCEPT ![w].action = a] /\ (Log(b, e) \/ UNCHANGED chart)
  BY DEF WorkerInit
<1>4. pane' = [pane EXCEPT ![w] = "work"] \/ pane' = [pane EXCEPT ![w] = "tools"]
  BY DEF WorkerInit
<1>5. e \in Event
  BY <1>1, EventTyped DEF EventType, Status
<1>6. BdTyped'
  <2>1. chart' \in [Bead -> Chart]
    <3> HIDE DEF b, e
    <3> QED BY <1>1, <1>3, <1>5, LogTyped DEF TypeInv, BdTyped
  <2> QED BY <2>1 DEF WorkerInit, TypeInv, BdTyped
<1>7. WorkTyped'
  <2> HIDE DEF a
  <2> QED BY <1>2, <1>3, <1>4 DEF WorkerInit, TypeInv, WorkTyped, PaneState, Run
<1>8. mishaps' \in 0 .. MaxMishaps
  BY MishapTyped DEF WorkerInit
<1> QED
  BY <1>6, <1>7, <1>8, Untouched DEF WorkerInit, TypeInv

LEMMA RunToolActionsTyped == ASSUME TypeInv, NEW w \in Worker, RunToolActions(w) PROVE TypeInv'
<1>1. run[w].bead \in Bead /\ run[w].state \in State /\ run[w].action \in ActionsOf(run[w].state)
  BY DEF RunToolActions, TypeInv, WorkTyped
<1> DEFINE s == run[w].state
           I == {j \in DOMAIN Actions[s] : Actions[s][j] = run[w].action}
<1>2. PICK ran \in SUBSET ToolsFirst(w) :
        /\ \/ ran = ToolsFirst(w) /\ UNCHANGED mishaps
           \/ (\E n \in ToolsFirst(w) : ran = 1 .. n - 1) /\ Mishap("tool")
        /\ chart' = [chart EXCEPT ![run[w].bead].completed =
                        @ \cup {Actions[run[w].state][j] : j \in ran}]
  BY DEF RunToolActions
<1>3. First(I) \in 1 .. Len(Actions[s]) /\ Len(Actions[s]) \in Nat
  <2>1. Len(Actions[s]) \in Nat /\ DOMAIN Actions[s] = 1 .. Len(Actions[s])
    BY <1>1, ActionsTyped
  <2>2. I # {}
    BY <1>1 DEF ActionsOf
  <2>3. I \subseteq 1 .. Len(Actions[s]) /\ I \subseteq Nat
    BY <2>1
  <2>4. First(I) \in I
    <3> HIDE DEF I
    <3> QED BY <2>2, <2>3, FirstIn
  <2> HIDE DEF I, s
  <2> QED BY <2>1, <2>3, <2>4
<1>4. ToolsFirst(w) \subseteq DOMAIN Actions[s]
  <2>1. \A i \in 1 .. First(I) - 1 : Actions[s][i] \in Action
    <3> HIDE DEF I, s
    <3> QED BY <1>1, <1>3, ActionsTyped DEF ActionsOf, s
  <2>2. ActionsBefore(s, run[w].action) = SubSeq(Actions[s], 1, First(I) - 1)
    BY DEF ActionsBefore
  <2>3. ActionsBefore(s, run[w].action) \in Seq(Action)
        /\ Len(ActionsBefore(s, run[w].action)) = First(I) - 1
    <3> HIDE DEF I, s
    <3> QED BY <1>3, <2>1, <2>2, SubSeqProperties
  <2>4. DOMAIN ActionsBefore(s, run[w].action) = 1 .. First(I) - 1
    <3> HIDE DEF I, s
    <3> QED BY <2>3, LenProperties
  <2>5. 1 .. First(I) - 1 \subseteq DOMAIN Actions[s]
    <3> HIDE DEF I, s
    <3> QED BY <1>1, <1>3, ActionsTyped DEF s
  <2> QED BY <2>4, <2>5 DEF ToolsFirst
<1>5. {Actions[s][j] : j \in ran} \subseteq Action
  <2>1. {Actions[s][j] : j \in ran} \subseteq ActionsOf(s)
    BY <1>4 DEF ActionsOf
  <2> QED BY <1>1, <2>1, ActionsTyped
<1>6. BdTyped'
  <2> DEFINE done == {Actions[s][j] : j \in ran}
  <2>1. chart' = [chart EXCEPT ![run[w].bead] = [chart[run[w].bead] EXCEPT !.completed = @ \cup done]]
    BY <1>1, <1>2 DEF TypeInv, BdTyped
  <2>2. chart[run[w].bead] \in Chart
    BY <1>1 DEF TypeInv, BdTyped
  <2>3. [chart[run[w].bead] EXCEPT !.completed = @ \cup done] \in Chart
    <3>1. done \subseteq Action
      BY <1>5
    <3> HIDE DEF done
    <3> QED BY <2>2, <3>1 DEF Chart
  <2> HIDE DEF done
  <2> QED BY <1>1, <2>1, <2>3 DEF RunToolActions, TypeInv, BdTyped
<1>7. WorkTyped'
  BY DEF RunToolActions, TypeInv, WorkTyped, PaneState
<1>8. mishaps' \in 0 .. MaxMishaps
  BY <1>2, MishapTyped
<1> QED
  BY <1>6, <1>7, <1>8, Untouched DEF RunToolActions, TypeInv

\* A worker that only changes its pane, or ends.
LEMMA PaneTyped ==
    ASSUME TypeInv, NEW w \in Worker,
           Stall(w) \/ Resume(w) \/ Die(w) \/ Vanish(w) \/ Shutdown(w) \/ Answered(w) \/ GiveUp(w)
    PROVE  TypeInv'
<1>1. /\ \/ pane' = [pane EXCEPT ![w] = "none"] /\ run' = [run EXCEPT ![w] = NoRun]
         \/ /\ pane[w] \notin {"none", "boot"} /\ run' = run
            /\ \E p \in PaneState : pane' = [pane EXCEPT ![w] = p]
      /\ UNCHANGED <<supVars, memVars, bdVars, handlerVars>>
  BY DEF Stall, Resume, Die, Vanish, Shutdown, Answered, GiveUp, SetPane, PaneState
<1>2. NoRun \in Run /\ "none" \in PaneState
  BY DEF NoRun, Run, PaneState
<1>3. WorkTyped'
  BY <1>1, <1>2 DEF TypeInv, WorkTyped
<1>4. mishaps' \in 0 .. MaxMishaps
  BY MishapTyped DEF Stall, Resume, Die, Vanish, Shutdown, Answered, GiveUp
<1> QED
  BY <1>1, <1>3, <1>4, Untouched DEF TypeInv

LEMMA PostTyped ==
    ASSUME TypeInv, NEW w \in Worker, NEW i \in Signal, NEW k \in Kind, Post(w, i, k)
    PROVE  TypeInv'
<1>1. run[w].bead \in Bead /\ run[w].state \in State /\ run[w].action \in ActionsOf(run[w].state)
  BY DEF Post, TypeInv, WorkTyped
<1>2. run[w].action \in Action /\ k \in SignalKind /\ k # None
  BY <1>1, HarnessAssumption, ActionsTyped DEF SignalKind, None
<1>3. PICK key \in {i} \cup {signal[w][j].key : j \in {x \in 1 .. i - 1 : signal[w][x].kind = k}} :
        signal' = [signal EXCEPT ![w][i] =
                     [kind |-> k, key |-> key, bead |-> run[w].bead, state |-> run[w].state,
                      action |-> run[w].action, next |-> None]]
  BY DEF Post
<1>4. 1 .. i - 1 \subseteq Signal /\ Signal \subseteq 0 .. MaxSignals
  BY HarnessAssumption DEF Signal
<1>5. key \in Signal
  BY <1>2, <1>3, <1>4 DEF TypeInv, HandTyped
<1> DEFINE m == [kind |-> k, key |-> key, bead |-> run[w].bead, state |-> run[w].state,
                 action |-> run[w].action, next |-> None]
<1>6. m \in Sent
  BY <1>1, <1>2, <1>4, <1>5 DEF Sent
<1>7. HandTyped'
  <2>1. signal' \in [Worker -> [Signal -> Sent]] /\ hpc' \in [Worker -> [Signal -> HandlerPC]]
    <3>1. signal' = [signal EXCEPT ![w][i] = m]
      BY <1>3
    <3> HIDE DEF m
    <3> QED BY <1>6, <3>1 DEF Post, TypeInv, HandTyped, HandlerPC
  <2>2. \A v \in Worker, j \in Signal :
          signal'[v][j] = IF v = w /\ j = i THEN m ELSE signal[v][j]
    BY <1>3 DEF TypeInv, HandTyped
  <2>3. \A v \in Worker, j \in Signal :
          hpc'[v][j] = IF v = w /\ j = i THEN "received" ELSE hpc[v][j]
    BY DEF Post, TypeInv, HandTyped
  <2>4. /\ m.kind # None /\ m.key \in Signal /\ m.bead \in Bead
        /\ m.state \in State /\ m.action \in Action
    BY <1>1, <1>2, <1>5
  <2> HIDE DEF m
  <2>5. \A v \in Worker, j \in Signal : HandlerBusy(v, j)' => signal'[v][j].kind # None
    BY <2>2, <2>3, <2>4 DEF TypeInv, HandTyped, HandlerBusy
  <2>6. \A v \in Worker, j \in Signal : signal'[v][j].kind # None =>
          /\ signal'[v][j].key \in Signal /\ signal'[v][j].bead \in Bead
          /\ signal'[v][j].state \in State /\ signal'[v][j].action \in Action
    BY <2>2, <2>4 DEF TypeInv, HandTyped
  <2> QED
    BY <2>1, <2>5, <2>6 DEF HandTyped, HandlerBusy
<1>8. WorkTyped'
  BY DEF Post, TypeInv, WorkTyped, PaneState
<1>9. mishaps' \in 0 .. MaxMishaps
  BY MishapTyped DEF Post
<1> QED
  BY <1>7, <1>8, <1>9, Untouched DEF Post, TypeInv

LEMMA WorkerStepTyped ==
    ASSUME TypeInv, NEW w \in Worker, WorkerStep(w) PROVE TypeInv'
BY WorkerInitTyped, RunToolActionsTyped, PaneTyped, PostTyped DEF WorkerStep

-----------------------------------------------------------------------------
(* The handlers.                                                           *)

\* A handler that goes on keeps what it knows, one that ends forgets it.
LEMMA HandlerTyped ==
    ASSUME TypeInv, NEW w \in Worker, NEW i \in Signal, NEW from, NEW to \in HandlerPC,
           NEW next \in Status \cup {None}, to # "none",
           from \notin {"none", "done", "failed"}, HandlerKeeps(w, i, from, to, next)
    PROVE  HandTyped'
<1> DEFINE m == IF to \in {"done", "failed"} THEN NoSignal ELSE [signal[w][i] EXCEPT !.next = next]
<1>1. signal[w][i] \in Sent /\ signal[w][i].kind # None
  BY DEF TypeInv, HandTyped, HandlerKeeps, HandlerBusy
<1>2. NoSignal \in Sent
  BY HarnessAssumption DEF NoSignal, Sent
<1>3. m \in Sent /\ (m.kind # None => m.kind = signal[w][i].kind /\ m.key = signal[w][i].key
        /\ m.bead = signal[w][i].bead /\ m.state = signal[w][i].state
        /\ m.action = signal[w][i].action)
  BY <1>1, <1>2 DEF Sent, NoSignal
<1>4. to \notin {"done", "failed"} => m.kind # None
  BY <1>1 DEF Sent
<1>5. hpc' = [hpc EXCEPT ![w][i] = to] /\ signal' = [signal EXCEPT ![w][i] = m]
  BY DEF HandlerKeeps, TypeInv, HandTyped
<1>6. /\ hpc' \in [Worker -> [Signal -> HandlerPC]] /\ signal' \in [Worker -> [Signal -> Sent]]
      /\ \A v \in Worker, j \in Signal :
           /\ hpc'[v][j] = IF v = w /\ j = i THEN to ELSE hpc[v][j]
           /\ signal'[v][j] = IF v = w /\ j = i THEN m ELSE signal[v][j]
  <2> HIDE DEF m
  <2> QED BY <1>3, <1>5 DEF TypeInv, HandTyped
<1> HIDE DEF m
<1>7. \A v \in Worker, j \in Signal : HandlerBusy(v, j)' => signal'[v][j].kind # None
  BY <1>4, <1>6 DEF TypeInv, HandTyped, HandlerBusy
<1>8. \A v \in Worker, j \in Signal : signal'[v][j].kind # None =>
        /\ signal'[v][j].key \in Signal /\ signal'[v][j].bead \in Bead
        /\ signal'[v][j].state \in State /\ signal'[v][j].action \in Action
  BY <1>1, <1>3, <1>6 DEF TypeInv, HandTyped
<1> QED
  BY <1>6, <1>7, <1>8 DEF HandTyped, HandlerBusy

\* What a handler under way knows.
LEMMA HandlerKnows ==
    ASSUME TypeInv, NEW w \in Worker, NEW i \in Signal,
           hpc[w][i] \notin {"none", "done", "failed"}
    PROVE  /\ KindOf(w, i) \in SignalKind /\ BeadOf(w, i) \in Bead
           /\ signal[w][i].key \in Signal /\ signal[w][i].state \in State
           /\ signal[w][i].action \in Action /\ signal[w][i].next \in Status \cup {None}
<1>1. signal[w][i] \in Sent /\ signal[w][i].kind # None
  BY DEF TypeInv, HandTyped, HandlerBusy
<1> QED
  BY <1>1 DEF TypeInv, HandTyped, Sent, KindOf, BeadOf

LEMMA ReceiveTyped ==
    ASSUME TypeInv, NEW w \in Worker, NEW i \in Signal, Receive(w, i) PROVE TypeInv'
<1>1. hpc[w][i] = "received"
  BY DEF Receive, Handler, HandlerKeeps
<1>2. BeadOf(w, i) \in Bead /\ signal[w][i].key \in Signal
  BY <1>1, HandlerKnows
<1>3. \E to \in {"done", "relget", "getbead", "failed"} : Handler(w, i, "received", to)
  BY DEF Receive
<1>4. HandTyped' /\ mishaps' \in 0 .. MaxMishaps
  BY <1>3, HandlerTyped, MishapTyped DEF Handler, HandlerPC, Receive
<1>5. processed' \subseteq Worker \X Signal
  <2>1. processed' \in {processed, processed \cup {<<w, signal[w][i].key>>}}
    BY DEF Receive, memVars
  <2>2. processed \subseteq Worker \X Signal
    BY DEF TypeInv, MemTyped
  <2> QED BY <1>2, <2>1, <2>2
<1>6. CASE Exited(BeadOf(w, i)) /\ paused' \in {paused, TRUE}
  <2>1. MemTyped'
    BY <1>2, <1>5, <1>6, ExitedTyped
  <2> QED BY <1>4, <2>1, Untouched DEF Receive, HandlerOnly, TypeInv
<1>7. CASE UNCHANGED <<started, missing, paused>>
  <2>1. MemTyped'
    BY <1>5, <1>7 DEF TypeInv, MemTyped
  <2> QED BY <1>4, <2>1, Untouched DEF Receive, HandlerOnly, TypeInv
<1> QED
  BY <1>6, <1>7 DEF Receive, memVars

LEMMA GetBeadTyped ==
    ASSUME TypeInv, NEW w \in Worker, NEW i \in Signal, GetBead(w, i) PROVE TypeInv'
<1>1. hpc[w][i] = "getbead"
  BY DEF GetBead, Handler, HandlerKeeps
<1>2. signal[w][i].state \in State /\ KindOf(w, i) \in SignalKind
  BY <1>1, HandlerKnows
<1>3. signal[w][i].state \in Status /\ Transition[signal[w][i].state][KindOf(w, i)] \in Status \cup {None}
  BY <1>2, HarnessAssumption DEF Status
<1>4. \E to \in {"failed", "record"}, next \in Status \cup {None} :
        HandlerKeeps(w, i, "getbead", to, next)
  BY <1>3 DEF GetBead, Handler
<1>5. HandTyped'
  BY <1>4, HandlerTyped DEF HandlerPC
<1>6. mishaps' \in 0 .. MaxMishaps
  BY MishapTyped DEF GetBead
<1> QED
  BY <1>5, <1>6, Untouched DEF GetBead, HandlerOnly, TypeInv

LEMMA RecordOutcomeTyped ==
    ASSUME TypeInv, NEW w \in Worker, NEW i \in Signal, RecordOutcome(w, i) PROVE TypeInv'
<1> DEFINE k == KindOf(w, i)
           t == IF k = "RESTART" THEN "RESTART_REQUESTED" ELSE "TRANSITION_APPLIED"
           ok == k = "SUCCESS"
           e == [NoEvent EXCEPT !.type = t, !.state = signal[w][i].state,
                   !.next = signal[w][i].next, !.action = signal[w][i].action,
                   !.success = ok]
<1>1. hpc[w][i] = "record"
  BY DEF RecordOutcome, Handler, HandlerKeeps
<1>2. /\ BeadOf(w, i) \in Bead /\ signal[w][i].state \in State
      /\ signal[w][i].action \in Action /\ signal[w][i].next \in Status \cup {None}
  BY <1>1, HandlerKnows
<1>3. e \in Event
  <2>1. t \in EventType /\ ok \in BOOLEAN /\ signal[w][i].state \in Status \cup {None}
        /\ signal[w][i].action \in Action \cup {None}
    BY <1>2 DEF EventType, Status
  <2> HIDE DEF t, ok, k
  <2> QED BY <1>2, <2>1 DEF NoEvent, Event
<1>4. UNCHANGED chart \/ Log(BeadOf(w, i), e)
  BY DEF RecordOutcome
<1>5. chart' \in [Bead -> Chart]
  <2> HIDE DEF e
  <2> QED BY <1>2, <1>3, <1>4, LogTyped DEF TypeInv, BdTyped
<1>6. BdTyped'
  BY <1>5 DEF RecordOutcome, TypeInv, BdTyped
<1>7. \E to \in {"merge", "relget", "failed"} : Handler(w, i, "record", to)
  BY DEF RecordOutcome
<1>8. HandTyped' /\ mishaps' \in 0 .. MaxMishaps
  BY <1>7, HandlerTyped, MishapTyped DEF Handler, HandlerPC, RecordOutcome
<1> QED
  BY <1>6, <1>8, Untouched DEF RecordOutcome, HandlerOnly, TypeInv

LEMMA MergeTyped ==
    ASSUME TypeInv, NEW w \in Worker, NEW i \in Signal, Merge(w, i) PROVE TypeInv'
<1>1. \E to \in {"close", "block"} : Handler(w, i, "merge", to)
  BY DEF Merge
<1>2. HandTyped'
  BY <1>1, HandlerTyped DEF Handler, HandlerPC
<1>3. BdTyped'
  BY DEF Merge, TypeInv, BdTyped
<1>4. mishaps' \in 0 .. MaxMishaps
  BY MishapTyped DEF Merge
<1> QED
  BY <1>2, <1>3, <1>4, Untouched DEF Merge, HandlerOnly, TypeInv

LEMMA SetIssueTyped ==
    ASSUME TypeInv, NEW w \in Worker, NEW i \in Signal, NEW from, NEW to, NEW status \in IssueStatus,
           from \notin {"none", "done", "failed"}, to \in HandlerPC \ {"none"},
           SetIssue(w, i, from, to, status)
    PROVE  TypeInv'
<1>1. Handler(w, i, from, to) \/ Handler(w, i, from, "failed")
  BY DEF SetIssue
<1>2. HandTyped'
  BY <1>1, HandlerTyped DEF Handler, HandlerPC
<1>3. BdTyped'
  BY DEF SetIssue, TypeInv, BdTyped
<1>4. mishaps' \in 0 .. MaxMishaps
  BY MishapTyped DEF SetIssue
<1> QED
  BY <1>2, <1>3, <1>4, Untouched DEF SetIssue, HandlerOnly, TypeInv

LEMMA RecordIssueTyped ==
    ASSUME TypeInv, NEW w \in Worker, NEW i \in Signal, NEW from, NEW to, NEW e \in Event,
           from \notin {"none", "done", "failed"}, to \in HandlerPC \ {"none"},
           RecordIssue(w, i, from, to, e)
    PROVE  TypeInv'
<1>1. Handler(w, i, from, to) \/ Handler(w, i, from, "failed")
  BY DEF RecordIssue
<1>2. HandTyped'
  BY <1>1, HandlerTyped DEF Handler, HandlerPC
<1>3. BeadOf(w, i) \in Bead
  BY <1>1, HandlerKnows DEF Handler, HandlerKeeps
<1>4. BdTyped'
  BY <1>3, LogTyped DEF RecordIssue, TypeInv, BdTyped
<1>5. mishaps' \in 0 .. MaxMishaps
  BY MishapTyped DEF RecordIssue
<1> QED
  BY <1>2, <1>4, <1>5, Untouched DEF RecordIssue, HandlerOnly, TypeInv

LEMMA RemoveWorktreeTyped ==
    ASSUME TypeInv, NEW w \in Worker, NEW i \in Signal, RemoveWorktree(w, i) PROVE TypeInv'
<1>1. Handler(w, i, "rmtree", "exit")
  BY DEF RemoveWorktree
<1>2. HandTyped'
  BY <1>1, HandlerTyped DEF Handler, HandlerPC
<1>3. BeadOf(w, i) \in Bead /\ [NoEvent EXCEPT !.type = "WORKTREE_REMOVED"] \in Event
  BY <1>1, HandlerKnows, EventTyped DEF Handler, HandlerKeeps, EventType
<1>4. BdTyped'
  BY <1>3, LogTyped DEF RemoveWorktree, TypeInv, BdTyped
<1>5. mishaps' \in 0 .. MaxMishaps
  BY MishapTyped DEF RemoveWorktree
<1> QED
  BY <1>2, <1>4, <1>5, Untouched DEF RemoveWorktree, HandlerOnly, TypeInv

LEMMA HandlerReleaseTyped ==
    ASSUME TypeInv, NEW w \in Worker, NEW i \in Signal,
           \/ HandlerReleaseRead(w, i) \/ HandlerReleaseReopen(w, i) \/ HandlerReleaseRecord(w, i)
    PROVE  TypeInv'
<1>1. \E from \in {"relget", "relset", "relrecord"}, to \in {"relset", "relrecord", "done", "exit"} :
        Handler(w, i, from, to)
  BY DEF HandlerReleaseRead, HandlerReleaseReopen, HandlerReleaseRecord, AfterRelease
<1>2. HandTyped'
  BY <1>1, HandlerTyped DEF Handler, HandlerPC
<1>3. BeadOf(w, i) \in Bead /\ [NoEvent EXCEPT !.type = "RELEASED"] \in Event
  BY <1>1, HandlerKnows, EventTyped DEF Handler, HandlerKeeps, EventType
<1>4. BdTyped'
  BY <1>3, LogTyped
  DEF HandlerReleaseRead, HandlerReleaseReopen, HandlerReleaseRecord, TypeInv, BdTyped, bdVars,
      IssueStatus
<1>5. mishaps' \in 0 .. MaxMishaps
  BY MishapTyped DEF HandlerReleaseRead, HandlerReleaseReopen, HandlerReleaseRecord
<1> QED
  BY <1>2, <1>4, <1>5, Untouched
  DEF HandlerReleaseRead, HandlerReleaseReopen, HandlerReleaseRecord, HandlerOnly, TypeInv

LEMMA HandlerExitTyped ==
    ASSUME TypeInv, NEW w \in Worker, NEW i \in Signal, HandlerExit(w, i) PROVE TypeInv'
<1>1. Handler(w, i, "exit", "done")
  BY DEF HandlerExit
<1>2. HandTyped'
  BY <1>1, HandlerTyped DEF Handler, HandlerPC
<1>3. BeadOf(w, i) \in Bead
  BY <1>1, HandlerKnows DEF Handler, HandlerKeeps
<1>4. MemTyped'
  BY <1>3, ExitedTyped DEF HandlerExit, TypeInv, MemTyped
<1> QED
  BY <1>2, <1>4, Untouched DEF HandlerExit, HandlerOnly, TypeInv

LEMMA HandlerStepTyped ==
    ASSUME TypeInv, NEW w \in Worker, NEW i \in Signal, HandlerStep(w, i) PROVE TypeInv'
<1>1. CASE Close(w, i) \/ Block(w, i)
  BY <1>1, SetIssueTyped DEF Close, Block, IssueStatus, HandlerPC
<1>2. CASE CloseRecord(w, i)
  <2>1. [NoEvent EXCEPT !.type = "CLOSED"] \in Event
    BY EventTyped DEF EventType
  <2> QED BY <1>2, <2>1, RecordIssueTyped DEF CloseRecord, HandlerPC
<1>3. CASE BlockRecord(w, i)
  <2>1. [NoEvent EXCEPT !.type = "STATUS_UPDATED", !.state = "blocked"] \in Event
    BY EventTyped DEF EventType, Status, Terminal
  <2> QED BY <1>3, <2>1, RecordIssueTyped DEF BlockRecord, HandlerPC
<1> QED
  BY <1>1, <1>2, <1>3, ReceiveTyped, GetBeadTyped, RecordOutcomeTyped, MergeTyped,
     RemoveWorktreeTyped, HandlerReleaseTyped, HandlerExitTyped DEF HandlerStep

-----------------------------------------------------------------------------
(* Everything else, and the theorem.                                       *)

LEMMA SupervisorStepTyped == ASSUME TypeInv, SupervisorStep PROVE TypeInv'
BY PollTyped, ReconcileTyped, FindSlotsTyped, ScanTyped, SelectTyped, NextAssignmentTyped,
   ClaimTyped, ClaimRecordTyped, WorktreeTyped, SpawnCheckTyped, SplitWindowTyped, ReleaseTyped,
   AssignmentFailedTyped, CheckHealthTyped, RecoverTyped, KillTyped, RecoveredTyped
DEF SupervisorStep

\* A coordinator that starts, or starts again, remembers nothing.
LEMMA FreshTyped ==
    ASSUME TypeInv, FreshMemory, sup' \in {"up", "stopping", "down"}, session' \in Session
    PROVE  SupTyped' /\ MemTyped'
<1>1. SupTyped'
  BY HarnessAssumption, EmptySeq
  DEF FreshMemory, ScanEnds, SupTyped, NothingSeen, PollPC, Claiming, Releasing
<1>2. 0 \in 0 .. ReapThreshold - 1
  BY DEF ReapThreshold
<1>3. MemTyped'
  BY <1>2 DEF FreshMemory, MemTyped
<1> QED
  BY <1>1, <1>3

LEMMA CrashTyped == ASSUME TypeInv, Crash PROVE TypeInv'
<1>1. session' \in Session
  BY HarnessAssumption DEF Crash, TypeInv, SupTyped
<1>2. SupTyped' /\ MemTyped'
  BY <1>1, FreshTyped DEF Crash
<1>3. NoSignal \in Sent /\ NoSignal.kind = None
  BY HarnessAssumption DEF NoSignal, Sent
<1>4. HandTyped'
  BY <1>3 DEF Crash, TypeInv, HandTyped, HandlerPC, HandlerBusy
<1>5. mishaps' \in 0 .. MaxMishaps
  BY MishapTyped DEF Crash
<1> QED
  BY <1>2, <1>4, <1>5, Untouched DEF Crash, TypeInv

LEMMA OthersTyped ==
    ASSUME TypeInv,
           \/ Stopped \/ StartAgain \/ PauseEnds \/ Stop \/ UNCHANGED vars
           \/ \E b \in Bead : LeaseExpires(b)
    PROVE  TypeInv'
<1>1. CASE Stopped \/ Stop
  <2>1. SupTyped'
    BY <1>1 DEF Stopped, Stop, SupOnly, TypeInv, SupTyped
  <2> QED BY <1>1, <2>1, Untouched, MishapTyped DEF Stopped, Stop, SupOnly, TypeInv
<1>2. CASE StartAgain
  <2>1. SupTyped' /\ MemTyped'
    BY <1>2, FreshTyped DEF StartAgain, TypeInv, SupTyped
  <2> QED BY <1>2, <2>1, Untouched DEF StartAgain, TypeInv
<1>3. CASE PauseEnds
  <2>1. MemTyped'
    BY <1>3 DEF PauseEnds, TypeInv, MemTyped
  <2> QED BY <1>3, <2>1, Untouched DEF PauseEnds, TypeInv
<1>4. CASE \E b \in Bead : LeaseExpires(b)
  <2>1. BdTyped'
    BY <1>4 DEF LeaseExpires, TypeInv, BdTyped
  <2> QED BY <1>4, <2>1, Untouched DEF LeaseExpires, TypeInv
<1>5. CASE UNCHANGED vars
  BY <1>5, Untouched DEF vars, TypeInv
<1> QED
  BY <1>1, <1>2, <1>3, <1>4, <1>5

\* The types with what is known of the assignment, the workers and the handlers
\* where they stand.
LEMMA TypeInvHolds == Spec => []TypeInv
<1>1. Init => TypeInv
  BY InitTyped
<1>2. TypeInv /\ [Next]_vars => TypeInv'
  <2> SUFFICES ASSUME TypeInv, [Next]_vars PROVE TypeInv'
    OBVIOUS
  <2>1. CASE SupervisorStep
    BY <2>1, SupervisorStepTyped
  <2>2. CASE \E w \in Worker : WorkerStep(w) \/ \E i \in Signal : HandlerStep(w, i)
    BY <2>2, WorkerStepTyped, HandlerStepTyped
  <2>3. CASE \E w \in Worker : Stall(w) \/ Resume(w) \/ Die(w) \/ Vanish(w) \/ GiveUp(w)
    BY <2>3, PaneTyped
  <2>4. CASE Crash
    BY <2>4, CrashTyped
  <2>5. CASE Stopped \/ StartAgain \/ PauseEnds \/ Stop \/ UNCHANGED vars
             \/ \E b \in Bead : LeaseExpires(b)
    BY <2>5, OthersTyped
  <2> QED
    BY <2>1, <2>2, <2>3, <2>4, <2>5 DEF Next, Misfortune
<1> QED
  BY <1>1, <1>2, PTL DEF Spec

\* The coordinator is type correct, for every statechart, number of beads,
\* workers and signals, and under every misfortune.
THEOREM TypeCorrect == Spec => []TypeOK
<1>1. TypeInv => TypeOK
  BY DEF TypeInv, SupTyped, MemTyped, BdTyped, WorkTyped, HandTyped, TypeOK
<1> QED
  BY <1>1, TypeInvHolds, PTL

-----------------------------------------------------------------------------
(* The slot bound.                                                         *)

\* The panes, without the other variables' types: all the slot bound rests on.
PanesTyped == pane \in [Worker -> PaneState]

\* A release goes on at one of the loop's ends, never into the spawn.
ReleaseEnds == after \in {None, "failed", "stopped", "recovered"}

\* Between the count of the panes and the split there is room for one more.
RoomForSplit == pc = "split" => Cardinality(LivePanes) < MaxSlots

SlotInv == PanesTyped /\ ReleaseEnds /\ SlotBound /\ RoomForSplit

\* Fewer panes, and no new reason to split: the bounds stay as they are.
LEMMA FewerPanes ==
    ASSUME SlotInv, PanesTyped', ReleaseEnds', LivePanes' \subseteq LivePanes,
           pc' = "split" => pc = "split"
    PROVE  SlotInv'
<1>1. IsFiniteSet(LivePanes)
  BY HarnessAssumption, FS_Subset DEF LivePanes
<1>2. /\ IsFiniteSet(LivePanes')
      /\ Cardinality(LivePanes') <= Cardinality(LivePanes)
      /\ Cardinality(LivePanes) \in Nat /\ Cardinality(LivePanes') \in Nat
  BY <1>1, FS_Subset, FS_CardinalityType
<1> QED
  BY <1>2, HarnessAssumption DEF SlotInv, SlotBound, RoomForSplit

\* Every read of the panes sees them all.
LEMMA PanesCounted ==
    ASSUME "tmux" \notin Fault, NEW n, PaneCountRead(n)
    PROVE  n = Cardinality(LivePanes)
BY DEF PaneCountRead, Mishap

LEMMA SlotInit == ASSUME Init PROVE SlotInv
<1>1. PanesTyped /\ LivePanes = {}
  BY DEF Init, PanesTyped, PaneState, LivePanes, Live
<1>2. Cardinality(LivePanes) = 0
  BY <1>1, FS_EmptySet
<1> QED
  BY <1>1, <1>2, HarnessAssumption DEF Init, SlotInv, SlotBound, RoomForSplit, ReleaseEnds

\* The count that precedes the split.
LEMMA SpawnCheckKeeps == ASSUME SlotInv, "tmux" \notin Fault, SpawnCheck PROVE SlotInv'
<1>1. PICK n \in 0 .. Cardinality(Worker) :
        /\ PaneCountRead(n)
        /\ IF n < MaxSlots THEN pc' = "split" /\ after' = after ELSE ReleaseThen("failed")
  BY DEF SpawnCheck
<1>2. n = Cardinality(LivePanes)
  BY <1>1, PanesCounted
<1>3. LivePanes' = LivePanes /\ PanesTyped' /\ ReleaseEnds'
  BY <1>1 DEF SpawnCheck, SlotInv, workerVars, LivePanes, Live, PanesTyped, ReleaseEnds, ReleaseThen
<1> QED
  BY <1>1, <1>2, <1>3 DEF SlotInv, SlotBound, RoomForSplit, ReleaseThen

\* The split adds one pane, and there is room for it.
LEMMA SplitWindowKeeps == ASSUME SlotInv, SplitWindow PROVE SlotInv'
<1>1. CASE ReleaseThen("failed") /\ UNCHANGED workerVars
  <2>1. LivePanes' = LivePanes /\ PanesTyped' /\ ReleaseEnds' /\ pc' # "split"
    BY <1>1 DEF SlotInv, workerVars, LivePanes, Live, PanesTyped, ReleaseEnds, ReleaseThen
  <2> QED BY <2>1, FewerPanes
<1>2. CASE pc' = "titled" /\ after' = after
           /\ \E w \in Worker : Reusable(w) /\ pane' = [pane EXCEPT ![w] = "boot"]
  <2>1. PICK w \in Worker : Reusable(w) /\ pane' = [pane EXCEPT ![w] = "boot"]
    BY <1>2
  <2>2. w \notin LivePanes /\ LivePanes' = LivePanes \cup {w} /\ PanesTyped' /\ ReleaseEnds'
    BY <1>2, <2>1 DEF SlotInv, PanesTyped, PaneState, ReleaseEnds, LivePanes, Live, Reusable
  <2>3. IsFiniteSet(LivePanes)
    BY HarnessAssumption, FS_Subset DEF LivePanes
  <2>4. Cardinality(LivePanes') = Cardinality(LivePanes) + 1 /\ Cardinality(LivePanes) \in Nat
    BY <2>2, <2>3, FS_AddElement, FS_CardinalityType
  <2>5. Cardinality(LivePanes) < MaxSlots
    BY DEF SplitWindow, SlotInv, RoomForSplit
  <2> QED
    BY <1>2, <2>2, <2>4, <2>5, HarnessAssumption DEF SlotInv, SlotBound, RoomForSplit
<1> QED BY <1>1, <1>2 DEF SplitWindow

\* No other step of the poll loop starts a worker or lets the factory split.
LEMMA SupervisorKeeps ==
    ASSUME SlotInv, "tmux" \notin Fault, SupervisorStep PROVE SlotInv'
<1> USE DEF SlotInv, PanesTyped, ReleaseEnds
<1>1. CASE Poll \/ Reconcile \/ FindSlots \/ ScanReady \/ ScanInProgress \/ Select \/ ScanFails
  <2>1. UNCHANGED workerVars /\ pc' # "split" /\ after' \in {after, None}
    BY <1>1 DEF Poll, Reconcile, FindSlots, ScanReady, ScanInProgress, Select, ScanFails, ScanEnds
  <2>2. LivePanes' = LivePanes /\ PanesTyped' /\ ReleaseEnds'
    BY <2>1 DEF workerVars, LivePanes, Live
  <2> QED BY <2>1, <2>2, FewerPanes
<1>2. CASE NextAssignment \/ Claim \/ ClaimRead \/ ClaimRecord \/ CreateWorktree \/ RecordSpawned
  <2>1. UNCHANGED workerVars /\ pc' # "split" /\ after' \in {after, None, "stopped", "failed"}
    BY <1>2 DEF NextAssignment, Claim, ClaimRead, ClaimRecord, CreateWorktree, RecordSpawned,
                ScanEnds, ReleaseThen
  <2>2. LivePanes' = LivePanes /\ PanesTyped' /\ ReleaseEnds'
    BY <2>1 DEF workerVars, LivePanes, Live
  <2> QED BY <2>1, <2>2, FewerPanes
<1>3. CASE ReleaseRead \/ ReleaseReopen \/ ReleaseRecord \/ AssignmentFailed
           \/ CheckHealth \/ Recover \/ Recovered
  <2>1. UNCHANGED workerVars /\ pc' # "split" /\ after' \in {after, None}
    BY <1>3 DEF ReleaseRead, ReleaseReopen, ReleaseRecord, AssignmentFailed, CheckHealth, Recover,
                Recovered, ScanEnds, None
  <2>2. LivePanes' = LivePanes /\ PanesTyped' /\ ReleaseEnds'
    BY <2>1 DEF workerVars, LivePanes, Live
  <2> QED BY <2>1, <2>2, FewerPanes
<1>4. CASE SpawnCheck  BY <1>4, SpawnCheckKeeps
<1>5. CASE SplitWindow BY <1>5, SplitWindowKeeps
<1>6. CASE Kill
  <2>1. pc' # "split" /\ ReleaseEnds'
    BY <1>6 DEF Kill, ReleaseThen
  <2>2. PanesTyped' /\ LivePanes' \subseteq LivePanes
    BY <1>6 DEF Kill, workerVars, LivePanes, Live, PaneState
  <2> QED BY <2>1, <2>2, FewerPanes
<1> QED BY <1>1, <1>2, <1>3, <1>4, <1>5, <1>6 DEF SupervisorStep

\* A live worker stays live or ends; the handlers leave the panes alone.
LEMMA WorkerKeeps ==
    ASSUME SlotInv, NEW w \in Worker,
           WorkerStep(w) \/ Stall(w) \/ Resume(w) \/ Die(w) \/ Vanish(w) \/ GiveUp(w)
    PROVE  SlotInv'
<1>1. UNCHANGED supVars
  BY DEF WorkerStep, WorkerInit, RunToolActions, Answered, Shutdown, Post, Stall, Resume, Die,
         Vanish, GiveUp, SetPane
<1>2. \E p \in PaneState : pane[w] # "none" /\ pane' = [pane EXCEPT ![w] = p]
  BY DEF WorkerStep, WorkerInit, RunToolActions, Answered, Shutdown, Post, Stall, Resume, Die,
         Vanish, GiveUp, SetPane, PaneState
<1>3. PanesTyped' /\ LivePanes' \subseteq LivePanes
  BY <1>2 DEF SlotInv, PanesTyped, LivePanes, Live
<1>4. ReleaseEnds' /\ (pc' = "split" => pc = "split")
  BY <1>1 DEF SlotInv, supVars, ReleaseEnds
<1> QED BY <1>3, <1>4, FewerPanes

LEMMA HandlerKeepsPanes ==
    ASSUME SlotInv, NEW w \in Worker, NEW i \in Signal, HandlerStep(w, i)
    PROVE  SlotInv'
<1>1. UNCHANGED <<supVars, workerVars>>
  BY DEF HandlerStep, Receive, GetBead, RecordOutcome, Merge, Close, CloseRecord, Block,
         BlockRecord, SetIssue, RecordIssue, RemoveWorktree, HandlerReleaseRead,
         HandlerReleaseReopen, HandlerReleaseRecord, HandlerExit, HandlerOnly
<1>2. LivePanes' = LivePanes /\ PanesTyped' /\ ReleaseEnds' /\ pc' = pc
  BY <1>1 DEF SlotInv, supVars, workerVars, LivePanes, Live, PanesTyped, ReleaseEnds
<1> QED BY <1>2, FewerPanes

LEMMA OthersKeep ==
    ASSUME SlotInv,
           \/ Stopped \/ StartAgain \/ PauseEnds \/ Stop \/ Crash \/ UNCHANGED vars
           \/ \E b \in Bead : LeaseExpires(b)
    PROVE  SlotInv'
<1>1. UNCHANGED workerVars /\ pc' \in {pc, "idle"} /\ after' \in {after, None}
  BY DEF Stopped, StartAgain, PauseEnds, Stop, Crash, LeaseExpires, SupOnly, FreshMemory,
         ScanEnds, supVars, vars
<1>2. LivePanes' = LivePanes /\ PanesTyped' /\ ReleaseEnds'
  BY <1>1 DEF SlotInv, workerVars, LivePanes, Live, PanesTyped, ReleaseEnds
<1> QED BY <1>1, <1>2, FewerPanes

\* As long as tmux answers, there are never more panes than slots: for every
\* number of beads, workers, slots and signals, every statechart and every other
\* fault, crashes and restarts of the coordinator included.
THEOREM SlotsBounded == ASSUME "tmux" \notin Fault PROVE Spec => []SlotBound
<1>1. Init => SlotInv
  BY SlotInit
<1>2. SlotInv /\ [Next]_vars => SlotInv'
  <2> SUFFICES ASSUME SlotInv, [Next]_vars PROVE SlotInv'
    OBVIOUS
  <2>1. CASE SupervisorStep
    BY <2>1, SupervisorKeeps
  <2>2. CASE \E w \in Worker : WorkerStep(w) \/ \E i \in Signal : HandlerStep(w, i)
    BY <2>2, WorkerKeeps, HandlerKeepsPanes
  <2>3. CASE \E w \in Worker : Stall(w) \/ Resume(w) \/ Die(w) \/ Vanish(w) \/ GiveUp(w)
    BY <2>3, WorkerKeeps
  <2>4. CASE Stopped \/ StartAgain \/ PauseEnds \/ Stop \/ Crash \/ UNCHANGED vars
             \/ \E b \in Bead : LeaseExpires(b)
    BY <2>4, OthersKeep
  <2> QED
    BY <2>1, <2>2, <2>3, <2>4 DEF Next, Misfortune
<1>3. SlotInv => SlotBound
  BY DEF SlotInv
<1> QED
  BY <1>1, <1>2, <1>3, PTL DEF Spec

-----------------------------------------------------------------------------
\* The handler has passed the look at the processed keys and goes on.
Engaged(w, i) == hpc[w][i] \notin {"none", "received", "done", "failed"}

KeyInv ==
    /\ \A w \in Worker, i \in Signal : Engaged(w, i) => <<w, signal[w][i].key>> \in processed
    /\ \A w \in Worker, i \in Signal : hpc[w][i] \in {"done", "failed"} => signal[w][i].key = 0
    /\ \A w \in Worker, i, j \in Signal :
          Engaged(w, i) /\ Engaged(w, j) /\ signal[w][i].key = signal[w][j].key => i = j

\* The functions, which TypeOK gives.
HandlersAreFunctions ==
    /\ hpc \in [Worker -> [Signal -> HandlerPC]] /\ signal \in [Worker -> [Signal -> Sent]]

LEMMA KeysUntouched ==
    ASSUME KeyInv, UNCHANGED <<handlerVars, processed>> PROVE KeyInv'
BY DEF KeyInv, Engaged, handlerVars

\* A handler that goes on after its key was recorded keeps it until it ends.
LEMMA KeyKept ==
    ASSUME KeyInv, HandlersAreFunctions, NEW w \in Worker, NEW i \in Signal,
           NEW from, NEW to, NEW next, to \notin {"none", "received"}, UNCHANGED processed,
           from = "received" => to \in {"done", "failed"},
           from \notin {"none", "done", "failed"},
           HandlerKeeps(w, i, from, to, next)
    PROVE  KeyInv'
<1>1. hpc[w][i] = from
  BY DEF HandlerKeeps
<1>2. \A v \in Worker, j \in Signal : <<v, j>> # <<w, i>> =>
        hpc'[v][j] = hpc[v][j] /\ signal'[v][j] = signal[v][j]
  BY DEF HandlerKeeps, HandlersAreFunctions
<1>3. hpc'[w][i] = to
  BY DEF HandlerKeeps, HandlersAreFunctions
<1>4. signal'[w][i].key = IF to \in {"done", "failed"} THEN 0 ELSE signal[w][i].key
  <2>1. signal'[w][i] = IF to \in {"done", "failed"} THEN NoSignal
                        ELSE [signal[w][i] EXCEPT !.next = next]
    BY DEF HandlerKeeps, HandlersAreFunctions
  <2>2. signal[w][i] \in Sent
    BY DEF HandlersAreFunctions
  <2> QED BY <2>1, <2>2 DEF NoSignal, Sent
<1>5. Engaged(w, i)' => Engaged(w, i)
  BY <1>1, <1>3 DEF Engaged
<1>6. \A v \in Worker, j \in Signal : Engaged(v, j)' =>
        Engaged(v, j) /\ signal'[v][j].key = signal[v][j].key
  BY <1>2, <1>3, <1>4, <1>5 DEF Engaged
<1>7. \A v \in Worker, j \in Signal : hpc'[v][j] \in {"done", "failed"} => signal'[v][j].key = 0
  BY <1>2, <1>3, <1>4 DEF KeyInv
<1> QED
  BY <1>6, <1>7 DEF KeyInv

\* The look at the processed keys and the recording of the key are one step.
LEMMA ReceiveKeeps ==
    ASSUME KeyInv, HandlersAreFunctions, NEW w \in Worker, NEW i \in Signal, Receive(w, i)
    PROVE  KeyInv'
<1>1. ASSUME NEW to \in {"done", "failed"}, Handler(w, i, "received", to), UNCHANGED memVars
      PROVE  KeyInv'
  BY <1>1, KeyKept DEF Handler, memVars
<1>2. ASSUME NEW to \in {"relget", "getbead"}, Handler(w, i, "received", to),
             <<w, signal[w][i].key>> \notin processed,
             processed' = processed \cup {<<w, signal[w][i].key>>}
      PROVE  KeyInv'
  <2>1. \A v \in Worker, j \in Signal : <<v, j>> # <<w, i>> =>
          hpc'[v][j] = hpc[v][j] /\ signal'[v][j] = signal[v][j]
    BY <1>2 DEF Handler, HandlerKeeps, HandlersAreFunctions
  <2>2. hpc'[w][i] = to
    BY <1>2 DEF Handler, HandlerKeeps, HandlersAreFunctions
  <2>3. signal'[w][i].key = signal[w][i].key
    BY <1>2 DEF Handler, HandlerKeeps, HandlersAreFunctions, Sent
  <2>4. \A v \in Worker, j \in Signal : signal'[v][j].key = signal[v][j].key
    BY <2>1, <2>3
  <2>5. \A v \in Worker, j \in Signal : Engaged(v, j)' =>
          Engaged(v, j) \/ <<v, j>> = <<w, i>>
    BY <2>1 DEF Engaged
  <2>6. \A v \in Worker, j \in Signal : Engaged(v, j)' => <<v, signal'[v][j].key>> \in processed'
    BY <1>2, <2>4, <2>5 DEF KeyInv
  <2>7. \A v \in Worker, j \in Signal : hpc'[v][j] \in {"done", "failed"} => signal'[v][j].key = 0
    BY <1>2, <2>1, <2>2 DEF KeyInv
  <2>8. ASSUME NEW v \in Worker, NEW j \in Signal, NEW k \in Signal, Engaged(v, j)', Engaged(v, k)',
               signal'[v][j].key = signal'[v][k].key
        PROVE  j = k
    BY <1>2, <2>4, <2>5, <2>8 DEF KeyInv
  <2> QED
    BY <2>6, <2>7, <2>8 DEF KeyInv
<1> QED
  BY <1>1, <1>2 DEF Receive

LEMMA HandlerStepKeeps ==
    ASSUME KeyInv, HandlersAreFunctions, NEW w \in Worker, NEW i \in Signal, HandlerStep(w, i)
    PROVE  KeyInv'
<1>1. CASE Receive(w, i)
  BY <1>1, ReceiveKeeps
<1>2. CASE GetBead(w, i)
  <2>1. \E to \in {"failed", "record"} : \E next : HandlerKeeps(w, i, "getbead", to, next)
    BY <1>2 DEF GetBead, Handler
  <2> QED BY <1>2, <2>1, KeyKept DEF GetBead, memVars
<1>3. CASE RecordOutcome(w, i) \/ Merge(w, i) \/ Close(w, i) \/ Block(w, i) \/ CloseRecord(w, i)
           \/ BlockRecord(w, i) \/ RemoveWorktree(w, i)
  <2>1. \E from \in {"record", "merge", "close", "block", "closerecord", "blockrecord", "rmtree"},
           to \in {"merge", "relget", "close", "block", "closerecord", "blockrecord", "rmtree",
                   "exit", "failed"} :
          Handler(w, i, from, to)
    BY <1>3 DEF RecordOutcome, Merge, Close, Block, CloseRecord, BlockRecord, SetIssue, RecordIssue,
                RemoveWorktree
  <2>2. UNCHANGED processed
    BY <1>3 DEF RecordOutcome, Merge, Close, Block, CloseRecord, BlockRecord, SetIssue, RecordIssue,
                RemoveWorktree, memVars
  <2> QED BY <2>1, <2>2, KeyKept DEF Handler
<1>4. CASE HandlerReleaseRead(w, i) \/ HandlerReleaseReopen(w, i) \/ HandlerReleaseRecord(w, i)
           \/ HandlerExit(w, i)
  <2>1. \E from \in {"relget", "relset", "relrecord", "exit"},
           to \in {"relset", "relrecord", "exit", "done"} : Handler(w, i, from, to)
    BY <1>4 DEF HandlerReleaseRead, HandlerReleaseReopen, HandlerReleaseRecord, HandlerExit,
                AfterRelease
  <2>2. UNCHANGED processed
    BY <1>4 DEF HandlerReleaseRead, HandlerReleaseReopen, HandlerReleaseRecord, HandlerExit, memVars
  <2> QED BY <2>1, <2>2, KeyKept DEF Handler
<1> QED
  BY <1>1, <1>2, <1>3, <1>4 DEF HandlerStep

\* A request that arrives is not engaged yet.
LEMMA PostKeeps ==
    ASSUME KeyInv, HandlersAreFunctions, NEW w \in Worker, NEW i \in Signal, NEW k, Post(w, i, k)
    PROVE  KeyInv'
<1>1. \A v \in Worker, j \in Signal : <<v, j>> # <<w, i>> =>
        hpc'[v][j] = hpc[v][j] /\ signal'[v][j] = signal[v][j]
  BY DEF Post, HandlersAreFunctions
<1>2. hpc'[w][i] = "received" /\ UNCHANGED processed
  BY DEF Post, HandlersAreFunctions, memVars
<1> QED
  BY <1>1, <1>2 DEF KeyInv, Engaged

\* A worker's identity is used again when none of its handlers is under way.
LEMMA SplitWindowKeepsKeys ==
    ASSUME KeyInv, HandlersAreFunctions, SplitWindow PROVE KeyInv'
<1>1. ASSUME NEW w \in Worker, Reusable(w),
             hpc' = [hpc EXCEPT ![w] = [i \in Signal |-> "none"]],
             signal' = [signal EXCEPT ![w] = [i \in Signal |-> NoSignal]],
             processed' = {p \in processed : p[1] # w}
      PROVE  KeyInv'
  <2>1. \A v \in Worker, j \in Signal : v # w =>
          hpc'[v][j] = hpc[v][j] /\ signal'[v][j] = signal[v][j]
    BY <1>1 DEF HandlersAreFunctions
  <2>2. \A j \in Signal : hpc'[w][j] = "none"
    BY <1>1 DEF HandlersAreFunctions
  <2>3. \A v \in Worker : \A n : v # w /\ <<v, n>> \in processed => <<v, n>> \in processed'
    BY <1>1
  <2> QED
    BY <2>1, <2>2, <2>3 DEF KeyInv, Engaged
<1> QED
  BY <1>1, KeysUntouched DEF SplitWindow

\* A coordinator that starts again has no handler under way.
LEMMA RestartKeeps ==
    ASSUME KeyInv, HandlersAreFunctions, StartAgain \/ Crash PROVE KeyInv'
<1>1. \A w \in Worker, i \in Signal : ~Engaged(w, i)'
  BY DEF StartAgain, Crash, HandlerBusy, Engaged, handlerVars
<1>2. \A w \in Worker, i \in Signal : hpc'[w][i] \in {"done", "failed"} => signal'[w][i].key = 0
  <2>1. CASE StartAgain
    BY <2>1 DEF StartAgain, handlerVars, KeyInv
  <2>2. CASE Crash
    BY <2>2 DEF Crash, NoSignal
  <2> QED BY <2>1, <2>2
<1> QED
  BY <1>1, <1>2 DEF KeyInv

\* Nothing else touches the handlers or the keys.
LEMMA OthersKeepKeys ==
    ASSUME KeyInv,
           \/ Poll \/ Reconcile \/ FindSlots \/ ScanReady \/ ScanInProgress \/ Select \/ ScanFails
           \/ NextAssignment \/ Claim \/ ClaimRead \/ ClaimRecord \/ CreateWorktree \/ SpawnCheck
           \/ RecordSpawned \/ ReleaseRead \/ ReleaseReopen \/ ReleaseRecord
           \/ AssignmentFailed \/ CheckHealth \/ Recover \/ Kill \/ Recovered
           \/ Stopped \/ PauseEnds \/ Stop \/ UNCHANGED vars
           \/ \E b \in Bead : LeaseExpires(b)
           \/ \E w \in Worker : WorkerInit(w) \/ RunToolActions(w) \/ Answered(w) \/ Shutdown(w)
                                \/ Stall(w) \/ Resume(w) \/ Die(w) \/ Vanish(w) \/ GiveUp(w)
    PROVE  KeyInv'
<1>1. UNCHANGED <<handlerVars, processed>>
  BY DEF Poll, Reconcile, FindSlots, ScanReady, ScanInProgress, Select, ScanFails, NextAssignment,
         Claim, ClaimRead, ClaimRecord, CreateWorktree, SpawnCheck, RecordSpawned, ReleaseRead,
         ReleaseReopen, ReleaseRecord, AssignmentFailed, CheckHealth, Recover, Kill, Recovered,
         Stopped, PauseEnds, Stop, SupOnly, LeaseExpires, WorkerInit, RunToolActions, Answered,
         Shutdown, Stall, Resume, Die, Vanish, GiveUp, SetPane, memVars, vars
<1> QED
  BY <1>1, KeysUntouched

\* Of the requests that carry one key a single one is handled: for every number
\* of workers, signals and slots, and whatever crashes, restarts and duplicates
\* there are.
THEOREM KeysHandledOnce == Spec => []OneHandlerPerKey
<1>1. Init => KeyInv
  BY DEF Init, KeyInv, Engaged
<1>2. TypeOK => HandlersAreFunctions
  BY DEF TypeOK, HandlersAreFunctions
<1>3. TypeOK /\ KeyInv /\ [Next]_vars => KeyInv'
  <2> SUFFICES ASSUME TypeOK, KeyInv, [Next]_vars PROVE KeyInv'
    OBVIOUS
  <2>1. CASE SupervisorStep \/ Stopped \/ PauseEnds \/ Stop \/ UNCHANGED vars
             \/ \E b \in Bead : LeaseExpires(b)
    BY <2>1, <1>2, OthersKeepKeys, SplitWindowKeepsKeys DEF SupervisorStep
  <2>2. CASE \E w \in Worker : WorkerStep(w)
    BY <2>2, <1>2, OthersKeepKeys, PostKeeps DEF WorkerStep
  <2>3. CASE \E w \in Worker, i \in Signal : HandlerStep(w, i)
    BY <2>3, <1>2, HandlerStepKeeps
  <2>4. CASE \E w \in Worker : Stall(w) \/ Resume(w) \/ Die(w) \/ Vanish(w) \/ GiveUp(w)
    BY <2>4, OthersKeepKeys
  <2>5. CASE StartAgain \/ Crash
    BY <2>5, <1>2, RestartKeeps
  <2> QED
    BY <2>1, <2>2, <2>3, <2>4, <2>5 DEF Next, Misfortune
<1>4. KeyInv => OneHandlerPerKey
  BY DEF KeyInv, Engaged, OneHandlerPerKey
<1> QED
  BY <1>1, <1>3, <1>4, TypeCorrect, PTL DEF Spec
-----------------------------------------------------------------------------
(* A state is left when its actions are done.                              *)

\* The actions of s before the first a, and those of the tools it begins with.
Earlier(s, a) ==
    {Actions[s][x] : x \in {y \in DOMAIN Actions[s] : \A z \in 1 .. y : Actions[s][z] # a}}
Leading(s) ==
    {Actions[s][x] : x \in {y \in DOMAIN Actions[s] : \A z \in 1 .. y : Actions[s][z] \in ToolAction}}

\* A sequence of actions that a worker can get through: prompts stand before the
\* actions that want a worker of their own, and no tool action stands between
\* two actions of the agent.  A prompt behind a fresh action would be given out
\* first, and its SUCCESS would leave the state with the fresh action undone.
Ordered ==
    \A s \in State : \A j, k \in DOMAIN Actions[s] : j < k =>
        /\ Actions[s][j] \in FreshAction => Actions[s][k] \in FreshAction \cup ToolAction
        /\ Actions[s][j] \in ToolAction /\ Actions[s][k] \notin ToolAction
              => \A i \in 1 .. j : Actions[s][i] \in ToolAction

Begun == {"work", "stall", "wait", "exiting"}

WorkerDone(w) ==
    LET earlier == Earlier(run[w].state, run[w].action)
        done    == chart[run[w].bead].completed
    IN  /\ pane[w] \in Begun => earlier \subseteq done
        /\ pane[w] = "tools" => earlier \subseteq done \cup Leading(run[w].state)

\* What a SUCCESS says of its action's state, before and after the handler has
\* looked for a further action.
SignalDone(w, i) ==
    LET s == signal[w][i].state
        done == chart[BeadOf(w, i)].completed
    IN  KindOf(w, i) = "SUCCESS" =>
        /\ hpc[w][i] \in {"received", "getbead"} => Earlier(s, signal[w][i].action) \subseteq done
        /\ hpc[w][i] = "record" /\ signal[w][i].next # s
              => ActionsOf(s) \subseteq done \cup {signal[w][i].action}

DoneInv == \A w \in Worker : WorkerDone(w) /\ \A i \in Signal : SignalDone(w, i)

\* What selectActiveAction passes over is done or is run before it.
LEMMA ActiveEarlier ==
    ASSUME Ordered, NEW s \in State, NEW done
    PROVE  Earlier(s, ActiveAction(s, done)) \subseteq done \cup Leading(s)
<1> DEFINE q == Actions[s]
           pending == {j \in DOMAIN q : q[j] \notin done}
           space   == IF pending # {} THEN pending ELSE DOMAIN q
           prompts == {j \in space : q[j] \notin ToolAction \cup FreshAction}
           fresh   == {j \in space : q[j] \in FreshAction}
           choice  == IF prompts # {} THEN prompts ELSE IF fresh # {} THEN fresh ELSE space
           m       == First(choice)
<1>1. q \in Seq(Action) /\ q # <<>>
  BY HarnessAssumption
<1>2. DOMAIN q = 1 .. Len(q) /\ Len(q) \in Nat \ {0}
  BY <1>1, LenProperties, EmptySeq
<1>3. choice \subseteq DOMAIN q /\ choice # {}
  <2>1. 1 \in DOMAIN q
    <3> HIDE DEF q
    <3> QED BY <1>2
  <2> HIDE DEF q
  <2> QED BY <2>1
<1>4. m \in choice /\ m \in DOMAIN q /\ \A j \in choice : m <= j
  <2> HIDE DEF choice, q
  <2> QED BY <1>2, <1>3, FirstIn
<1>5. ActiveAction(s, done) = q[m]
  BY DEF ActiveAction
<1>6. SUFFICES ASSUME NEW x \in DOMAIN q, \A z \in 1 .. x : q[z] # q[m], q[x] \notin done,
                      ~ \A z \in 1 .. x : q[z] \in ToolAction
               PROVE  FALSE
  <2> HIDE DEF m, q
  <2> QED BY <1>5, <1>6 DEF Earlier, Leading, q
<1>7. x < m
  <2> HIDE DEF m, q
  <2> QED BY <1>2, <1>4, <1>6
<1>8. x \in space
  BY <1>6
<1>9. x \notin choice
  <2> HIDE DEF choice, q
  <2> QED BY <1>2, <1>4, <1>7 DEF m
<1>10. /\ q[x] \in FreshAction => q[m] \in FreshAction \cup ToolAction
       /\ q[x] \in ToolAction => q[m] \in ToolAction
  <2> HIDE DEF m
  <2> QED BY <1>4, <1>6, <1>7 DEF Ordered
<1> HIDE DEF m, space
<1>11. FreshAction \cap ToolAction = {}
  BY HarnessAssumption
<1> QED
  BY <1>4, <1>8, <1>9, <1>10, <1>11

\* The actions before the active one are the sequence up to it.
LEMMA BeforeActive ==
    ASSUME NEW s \in State, NEW a \in ActionsOf(s)
    PROVE  \E n \in DOMAIN Actions[s] :
              /\ Actions[s][n] = a /\ DOMAIN ActionsBefore(s, a) = 1 .. n - 1
              /\ \A i \in 1 .. n - 1 : ActionsBefore(s, a)[i] = Actions[s][i]
              /\ Len(ActionsBefore(s, a)) = n - 1
<1> DEFINE I == {j \in DOMAIN Actions[s] : Actions[s][j] = a}
<1>1. Len(Actions[s]) \in Nat /\ DOMAIN Actions[s] = 1 .. Len(Actions[s])
  BY ActionsTyped
<1>2. I # {} /\ I \subseteq 1 .. Len(Actions[s]) /\ I \subseteq Nat
  BY <1>1 DEF ActionsOf
<1>3. First(I) \in I
  <2> HIDE DEF I
  <2> QED BY <1>2, FirstIn
<1>4. ActionsBefore(s, a) = SubSeq(Actions[s], 1, First(I) - 1)
  BY DEF ActionsBefore
<1>5. Actions[s][First(I)] = a /\ First(I) \in DOMAIN Actions[s]
  BY <1>3
<1> DEFINE n == First(I)
<1> HIDE DEF n, I
<1>6. n \in 1 .. Len(Actions[s])
  BY <1>1, <1>5 DEF n
<1>7. \A i \in 1 .. n - 1 : Actions[s][i] \in Action
  BY <1>1, <1>6, ActionsTyped DEF ActionsOf
<1>8. /\ ActionsBefore(s, a) \in Seq(Action) /\ Len(ActionsBefore(s, a)) = n - 1
      /\ \A i \in 1 .. n - 1 : ActionsBefore(s, a)[i] = Actions[s][i]
  BY <1>1, <1>4, <1>6, <1>7, SubSeqProperties DEF n
<1>9. DOMAIN ActionsBefore(s, a) = 1 .. n - 1
  BY <1>8, LenProperties
<1> QED BY <1>5, <1>8, <1>9 DEF n

\* A worker whose action stands first has nothing before it.
LEMMA NothingEarlier ==
    ASSUME NEW s \in State, NEW a \in ActionsOf(s), ActionsBefore(s, a) = <<>>
    PROVE  Earlier(s, a) = {}
<1>1. PICK n \in DOMAIN Actions[s] : Actions[s][n] = a /\ Len(ActionsBefore(s, a)) = n - 1
  BY BeforeActive
<1>2. n = 1
  BY <1>1, ActionsTyped
<1>3. \A y \in DOMAIN Actions[s] : 1 \in 1 .. y
  BY ActionsTyped
<1> QED BY <1>1, <1>2, <1>3 DEF Earlier

\* The parent sequence runs the tools the state begins with.
LEMMA LeadingRun ==
    ASSUME NEW w \in Worker, run[w].state \in State, run[w].action \in ActionsOf(run[w].state)
    PROVE  Earlier(run[w].state, run[w].action) \cap Leading(run[w].state)
              \subseteq {Actions[run[w].state][j] : j \in ToolsFirst(w)}
<1> DEFINE s == run[w].state
           a == run[w].action
           q == ActionsBefore(s, a)
<1>1. PICK n \in DOMAIN Actions[s] :
        /\ Actions[s][n] = a /\ DOMAIN q = 1 .. n - 1
        /\ \A i \in 1 .. n - 1 : q[i] = Actions[s][i]
  BY BeforeActive
<1>2. DOMAIN Actions[s] = 1 .. Len(Actions[s]) /\ Len(Actions[s]) \in Nat
  BY ActionsTyped
<1>3. ToolsFirst(w) = {j \in DOMAIN q : \A i \in 1 .. j : q[i] \in ToolAction}
  BY DEF ToolsFirst
<1> HIDE DEF s, a, q
<1> SUFFICES ASSUME NEW x \in DOMAIN Actions[s], \A z \in 1 .. x : Actions[s][z] # a,
                    NEW y \in DOMAIN Actions[s], \A z \in 1 .. y : Actions[s][z] \in ToolAction,
                    Actions[s][x] = Actions[s][y]
             PROVE  \E j \in ToolsFirst(w) : Actions[s][j] = Actions[s][x]
  BY DEF Earlier, Leading, s, a
<1>4. x < n
  BY <1>1, <1>2
<1>5. ASSUME NEW j \in 1 .. n - 1, \A z \in 1 .. j : Actions[s][z] \in ToolAction
      PROVE  j \in ToolsFirst(w)
  <2>1. \A i \in 1 .. j : i \in 1 .. n - 1
    BY <1>2
  <2> QED BY <1>1, <1>3, <1>5, <2>1
<1>6. x \in 1 .. n - 1 /\ (y <= x => y \in 1 .. n - 1)
  BY <1>2, <1>4
<1>7. x < y => \A z \in 1 .. x : z \in 1 .. y
  BY <1>2
<1> QED BY <1>2, <1>5, <1>6, <1>7

\* Nothing is ever taken back of what is recorded as completed.
DoneGrows == \A b \in Bead : chart[b].completed \subseteq chart'[b].completed

LEMMA ApplyGrows ==
    ASSUME NEW p \in Chart, NEW e PROVE p.completed \subseteq ChartApply(p, e).completed
<1>1. p.completed \subseteq Completing(p.completed, e)
  BY DEF Completing
<1>2. CASE e.type \in {"CLAIMED", "RUN_INITIALIZED", "SPAWNED", "CLOSED"}
  BY <1>2 DEF ChartApply, ChartClaimed, ChartEntered, ChartSpawned, ChartClosed, Chart
<1>3. CASE e.type \in {"TRANSITION_APPLIED", "RESTART_REQUESTED", "ACTION_COMPLETED"}
  BY <1>1, <1>3 DEF ChartApply, ChartTransition, ChartRestart, Chart
<1>4. CASE e.type \notin {"CLAIMED", "RUN_INITIALIZED", "SPAWNED", "CLOSED", "TRANSITION_APPLIED",
                          "RESTART_REQUESTED", "ACTION_COMPLETED"}
  BY <1>4 DEF ChartApply, Chart
<1> QED BY <1>2, <1>3, <1>4

LEMMA LogGrows == ASSUME BdTyped, NEW b, NEW e, Log(b, e) PROVE DoneGrows
<1>1. \A c \in Bead : chart[c] \in Chart
  BY DEF BdTyped
<1>2. \A c \in Bead : chart'[c] = chart[c] \/ chart'[c] = ChartApply(chart[c], e)
  BY DEF Log, BdTyped
<1> QED BY <1>1, <1>2, ApplyGrows DEF DoneGrows

LEMMA SameGrows == UNCHANGED chart => DoneGrows
BY DEF DoneGrows

\* A signal that stays as it is.
LEMMA SignalKept ==
    ASSUME TypeInv, DoneInv, DoneGrows, NEW w \in Worker, NEW i \in Signal,
           \/ hpc'[w][i] \notin {"received", "getbead", "record"}
           \/ hpc'[w][i] = hpc[w][i] /\ signal'[w][i] = signal[w][i]
    PROVE  SignalDone(w, i)'
<1>1. CASE hpc'[w][i] = hpc[w][i] /\ signal'[w][i] = signal[w][i]
  <2>1. KindOf(w, i)' = KindOf(w, i) /\ BeadOf(w, i)' = BeadOf(w, i)
    BY <1>1 DEF KindOf, BeadOf
  <2>2. KindOf(w, i) = "SUCCESS" => BeadOf(w, i) \in Bead
    BY DEF TypeInv, HandTyped, KindOf, BeadOf, None
  <2>3. KindOf(w, i) = "SUCCESS"
           => chart[BeadOf(w, i)].completed \subseteq chart'[BeadOf(w, i)].completed
    BY <2>2 DEF DoneGrows
  <2> QED BY <1>1, <2>1, <2>3 DEF DoneInv, SignalDone
<1>2. CASE hpc'[w][i] \notin {"received", "getbead", "record"}
  BY <1>2 DEF SignalDone
<1> QED BY <1>1, <1>2

\* Workers and signals that stay as they are have done what they had.
LEMMA DoneKept ==
    ASSUME TypeInv, DoneInv, DoneGrows,
           \A w \in Worker : \/ pane'[w] \in {"none", "boot"}
                             \/ /\ run'[w] = run[w]
                                /\ pane'[w] = pane[w] \/ {pane[w], pane'[w]} \subseteq Begun,
           \A w \in Worker, i \in Signal :
              \/ hpc'[w][i] \notin {"received", "getbead", "record"}
              \/ hpc'[w][i] = hpc[w][i] /\ signal'[w][i] = signal[w][i]
    PROVE  DoneInv'
<1>1. ASSUME NEW w \in Worker PROVE WorkerDone(w)'
  <2>1. pane[w] # "none" => run[w].bead \in Bead
    BY DEF TypeInv, WorkTyped
  <2> QED BY <2>1 DEF DoneInv, WorkerDone, DoneGrows, Begun
<1>2. ASSUME NEW w \in Worker, NEW i \in Signal PROVE SignalDone(w, i)'
  BY SignalKept
<1> QED BY <1>1, <1>2 DEF DoneInv

\* The poll step moves no worker but the one it starts and those it kills.
LEMMA SupervisorDone == ASSUME TypeInv, DoneInv, SupervisorStep PROVE DoneInv' /\ DoneGrows
<1>1. DoneGrows
  <2>1. BdTyped
    BY DEF TypeInv
  <2>2. CASE ClaimRecord \/ CreateWorktree \/ RecordSpawned \/ ReleaseRecord \/ Recover
    <3>1. UNCHANGED chart \/ \E b, e : Log(b, e)
      BY <2>2 DEF ClaimRecord, CreateWorktree, RecordSpawned, ReleaseRecord, Recover
    <3> QED BY <2>1, <3>1, LogGrows, SameGrows
  <2>3. CASE ~(ClaimRecord \/ CreateWorktree \/ RecordSpawned \/ ReleaseRecord \/ Recover)
    <3>1. UNCHANGED chart
      BY <2>3 DEF SupervisorStep, Poll, Reconcile, FindSlots, ScanReady, ScanInProgress, Select,
         ScanFails, NextAssignment, Claim, ClaimRead, SpawnCheck, SplitWindow, ReleaseRead,
         ReleaseReopen, AssignmentFailed, CheckHealth, Kill, Recovered, bdVars
    <3> QED BY <3>1, SameGrows
  <2> QED BY <2>2, <2>3
<1>2. CASE SplitWindow
  <2>1. CASE UNCHANGED <<workerVars, handlerVars>>
    BY <1>1, <2>1, DoneKept DEF workerVars, handlerVars
  <2>2. CASE \E w \in Worker :
              /\ pane' = [pane EXCEPT ![w] = "boot"]
              /\ run' = [run EXCEPT ![w] = [bead |-> cur, state |-> seen[cur], action |-> None]]
              /\ hpc' = [hpc EXCEPT ![w] = [i \in Signal |-> "none"]]
              /\ signal' = [signal EXCEPT ![w] = [i \in Signal |-> NoSignal]]
    <3>1. \A w \in Worker : \/ pane'[w] = "boot" /\ \A i \in Signal : hpc'[w][i] = "none"
                            \/ /\ pane'[w] = pane[w] /\ run'[w] = run[w]
                               /\ hpc'[w] = hpc[w] /\ signal'[w] = signal[w]
      BY <2>2 DEF TypeInv, WorkTyped, HandTyped
    <3> QED BY <1>1, <3>1, DoneKept
  <2> QED BY <1>2, <2>1, <2>2 DEF SplitWindow
<1>3. CASE Kill
  <2>1. \A w \in Worker : pane'[w] = "none" \/ (pane'[w] = pane[w] /\ run'[w] = run[w])
    BY <1>3 DEF Kill, workerVars
  <2>2. UNCHANGED handlerVars
    BY <1>3 DEF Kill
  <2> QED BY <1>1, <2>1, <2>2, DoneKept DEF handlerVars
<1>4. CASE ~SplitWindow /\ ~Kill
  <2>1. UNCHANGED <<workerVars, handlerVars>>
    BY <1>4 DEF SupervisorStep, Poll, Reconcile, FindSlots, ScanReady, ScanInProgress, Select,
         ScanFails, NextAssignment, Claim, ClaimRead, ClaimRecord, CreateWorktree, SpawnCheck,
         RecordSpawned, ReleaseRead, ReleaseReopen, ReleaseRecord, AssignmentFailed, CheckHealth,
         Recover, Recovered
  <2> QED BY <1>1, <2>1, DoneKept DEF workerVars, handlerVars
<1> QED BY <1>1, <1>2, <1>3, <1>4

\* A worker that is initialised has before it what is done and its leading tools.
LEMMA WorkerInitDone ==
    ASSUME TypeInv, DoneInv, Ordered, "init" \notin Fault, NEW w \in Worker, WorkerInit(w)
    PROVE  DoneInv' /\ DoneGrows
<1> DEFINE b == run[w].bead
           s == run[w].state
           done == chart[b].completed
           a == ActiveAction(s, done)
<1>1. b \in Bead /\ s \in State /\ run[w] \in Run /\ BdTyped
  BY DEF WorkerInit, TypeInv, WorkTyped
<1>2. a \in ActionsOf(s) /\ Earlier(s, a) \subseteq done \cup Leading(s)
  <2> HIDE DEF s, done
  <2> QED BY <1>1, ActiveTyped, ActiveEarlier
<1>3. ActionsBefore(s, a) = <<>> => Earlier(s, a) = {}
  <2> HIDE DEF s, a
  <2> QED BY <1>1, <1>2, NothingEarlier
<1>4. /\ run' = [run EXCEPT ![w].action = a] /\ \E e : Log(b, e)
      /\ \/ ActionsBefore(s, a) = <<>> /\ pane' = [pane EXCEPT ![w] = "work"]
         \/ pane' = [pane EXCEPT ![w] = "tools"]
      /\ UNCHANGED handlerVars
  BY DEF WorkerInit, Mishap
<1>5. DoneGrows
  <2> HIDE DEF b
  <2> QED BY <1>1, <1>4, LogGrows
<1>6. /\ run'[w].bead = b /\ run'[w].state = s /\ run'[w].action = a
      /\ pane'[w] = "tools" \/ (pane'[w] = "work" /\ ActionsBefore(s, a) = <<>>)
      /\ \A v \in Worker \ {w} : run'[v] = run[v] /\ pane'[v] = pane[v]
  <2> HIDE DEF a
  <2> QED BY <1>1, <1>4 DEF TypeInv, WorkTyped, Run
<1>7. done \subseteq chart'[b].completed
  BY <1>1, <1>5 DEF DoneGrows
<1>8. WorkerDone(w)'
  <2> HIDE DEF a, s, b, done
  <2> QED BY <1>2, <1>3, <1>6, <1>7 DEF WorkerDone, Begun
<1>9. ASSUME NEW v \in Worker \ {w} PROVE WorkerDone(v)'
  <2>1. pane[v] # "none" => run[v].bead \in Bead
    BY DEF TypeInv, WorkTyped
  <2> QED BY <1>5, <1>6, <2>1 DEF DoneInv, WorkerDone, DoneGrows, Begun
<1>10. ASSUME NEW v \in Worker, NEW i \in Signal PROVE SignalDone(v, i)'
  BY <1>4, <1>5, SignalKept DEF handlerVars
<1> QED BY <1>5, <1>8, <1>9, <1>10 DEF DoneInv

\* The tools before its action have run when the agent begins.
LEMMA RunToolActionsDone ==
    ASSUME TypeInv, DoneInv, "tool" \notin Fault, NEW w \in Worker, RunToolActions(w)
    PROVE  DoneInv' /\ DoneGrows
<1> DEFINE b == run[w].bead
           s == run[w].state
           ran == {Actions[s][j] : j \in ToolsFirst(w)}
<1>1. b \in Bead /\ s \in State /\ run[w].action \in ActionsOf(s) /\ BdTyped
  BY DEF RunToolActions, TypeInv, WorkTyped
<1>2. chart' = [chart EXCEPT ![b].completed = @ \cup ran]
  BY DEF RunToolActions, Mishap
<1>3. /\ UNCHANGED <<run, handlerVars>> /\ pane[w] = "tools" /\ pane'[w] = "work"
      /\ \A v \in Worker \ {w} : pane'[v] = pane[v]
  BY DEF RunToolActions, TypeInv, WorkTyped
<1> HIDE DEF ran
<1>4. chart'[b].completed = chart[b].completed \cup ran /\ DoneGrows
  BY <1>1, <1>2 DEF DoneGrows, BdTyped, Chart
<1>5. Earlier(s, run[w].action) \subseteq chart[b].completed \cup ran
  BY <1>1, <1>3, LeadingRun DEF DoneInv, WorkerDone, ran
<1>6. WorkerDone(w)'
  BY <1>3, <1>4, <1>5 DEF WorkerDone
<1>7. ASSUME NEW v \in Worker \ {w} PROVE WorkerDone(v)'
  <2>1. pane[v] # "none" => run[v].bead \in Bead
    BY DEF TypeInv, WorkTyped
  <2> QED BY <1>3, <1>4, <2>1 DEF DoneInv, WorkerDone, DoneGrows, Begun
<1>8. ASSUME NEW v \in Worker, NEW i \in Signal PROVE SignalDone(v, i)'
  BY <1>3, <1>4, SignalKept DEF handlerVars
<1> QED BY <1>4, <1>6, <1>7, <1>8 DEF DoneInv

\* A worker that only changes its pane, or ends.
LEMMA PaneDone ==
    ASSUME TypeInv, DoneInv, NEW w \in Worker,
           Stall(w) \/ Resume(w) \/ Die(w) \/ Vanish(w) \/ Shutdown(w) \/ Answered(w) \/ GiveUp(w)
    PROVE  DoneInv' /\ DoneGrows
<1>1. /\ \/ pane' = [pane EXCEPT ![w] = "none"]
         \/ /\ pane[w] \in Begun /\ run' = run
            /\ \E p \in Begun : pane' = [pane EXCEPT ![w] = p]
      /\ UNCHANGED <<chart, handlerVars>>
      /\ run' = run \/ run' = [run EXCEPT ![w] = NoRun]
  BY DEF Stall, Resume, Die, Vanish, Shutdown, Answered, GiveUp, SetPane, Begun, bdVars
<1>2. \A v \in Worker : \/ pane'[v] = "none"
                        \/ /\ run'[v] = run[v]
                           /\ pane'[v] = pane[v] \/ {pane[v], pane'[v]} \subseteq Begun
  BY <1>1 DEF TypeInv, WorkTyped
<1> QED BY <1>1, <1>2, SameGrows, DoneKept DEF handlerVars

\* What a worker signals is what it has before it.
LEMMA PostDone ==
    ASSUME TypeInv, DoneInv, NEW w \in Worker, NEW i \in Signal, NEW k \in Kind, Post(w, i, k)
    PROVE  DoneInv' /\ DoneGrows
<1>1. DoneGrows /\ UNCHANGED <<chart, run>> /\ pane[w] \in Begun
  BY SameGrows DEF Post, bdVars, Begun
<1>2. PICK key : signal' = [signal EXCEPT ![w][i] =
                    [kind |-> k, key |-> key, bead |-> run[w].bead, state |-> run[w].state,
                     action |-> run[w].action, next |-> None]]
  BY DEF Post
<1>3. /\ pane'[w] = "wait" /\ hpc'[w][i] = "received"
      /\ signal'[w][i].bead = run[w].bead /\ signal'[w][i].state = run[w].state
      /\ signal'[w][i].action = run[w].action
      /\ \A v \in Worker \ {w} : pane'[v] = pane[v]
      /\ \A v \in Worker, j \in Signal :
            <<v, j>> # <<w, i>> => hpc'[v][j] = hpc[v][j] /\ signal'[v][j] = signal[v][j]
  BY <1>2 DEF Post, TypeInv, WorkTyped, HandTyped
<1>4. ASSUME NEW v \in Worker PROVE WorkerDone(v)'
  BY <1>1, <1>3 DEF DoneInv, WorkerDone, Begun
<1>5. SignalDone(w, i)'
  BY <1>1, <1>3 DEF DoneInv, WorkerDone, SignalDone, BeadOf
<1>6. ASSUME NEW v \in Worker, NEW j \in Signal PROVE SignalDone(v, j)'
  BY <1>1, <1>3, <1>5, SignalKept
<1> QED BY <1>1, <1>4, <1>6 DEF DoneInv

\* What a handler's step changes.
LEMMA HandlerOthers ==
    ASSUME TypeInv, NEW w \in Worker, NEW i \in Signal, NEW from, NEW to, NEW next,
           HandlerKeeps(w, i, from, to, next)
    PROVE  /\ hpc[w][i] = from /\ hpc'[w][i] = to
           /\ \A v \in Worker, j \in Signal :
                 <<v, j>> # <<w, i>> => hpc'[v][j] = hpc[v][j] /\ signal'[v][j] = signal[v][j]
BY DEF HandlerKeeps, TypeInv, HandTyped

LEMMA HandlerSignal ==
    ASSUME TypeInv, NEW w \in Worker, NEW i \in Signal, NEW from, NEW to, NEW next,
           HandlerKeeps(w, i, from, to, next), to \notin {"done", "failed"}
    PROVE  signal'[w][i] = [signal[w][i] EXCEPT !.next = next]
BY DEF HandlerKeeps, TypeInv, HandTyped

\* Every action of the state is before this one, this one, or after it.
LEMMA ActionsSplit ==
    ASSUME NEW s \in State, NEW a
    PROVE  ActionsOf(s) \subseteq Earlier(s, a) \cup {a} \cup RestOf(s, a)
<1>1. DOMAIN Actions[s] = 1 .. Len(Actions[s]) /\ Len(Actions[s]) \in Nat
  BY ActionsTyped
<1>2. SUFFICES ASSUME NEW x \in DOMAIN Actions[s], Actions[s][x] \notin Earlier(s, a),
                      Actions[s][x] # a
               PROVE  Actions[s][x] \in RestOf(s, a)
  BY DEF ActionsOf
<1>3. PICK z \in 1 .. x : Actions[s][z] = a
  BY <1>2 DEF Earlier
<1>4. z \in 1 .. x - 1
  BY <1>1, <1>2, <1>3
<1> QED BY <1>3, <1>4 DEF RestOf

\* The handler looks for an action after this one and finds none.
LEMMA GetBeadDone ==
    ASSUME TypeInv, DoneInv, NEW w \in Worker, NEW i \in Signal, GetBead(w, i)
    PROVE  SignalDone(w, i)'
<1> DEFINE b == BeadOf(w, i)
           s == signal[w][i].state
           a == signal[w][i].action
           done == chart[b].completed
           more == KindOf(w, i) = "SUCCESS" /\ NextActions(s, a, done) # {}
           next == IF more THEN s ELSE Transition[s][KindOf(w, i)]
<1>1. UNCHANGED chart /\ hpc[w][i] = "getbead"
  BY DEF GetBead, Handler, HandlerKeeps, bdVars
<1>2. s \in State /\ signal[w][i] \in Sent
  BY <1>1, HandlerKnows DEF TypeInv, HandTyped
<1>3. CASE Handler(w, i, "getbead", "failed")
  <2>1. hpc'[w][i] = "failed"
    BY <1>3, HandlerOthers DEF Handler
  <2> QED BY <2>1 DEF SignalDone
<1>4. CASE HandlerKeeps(w, i, "getbead", IF next = None THEN "failed" ELSE "record", next)
  <2>1. /\ hpc'[w][i] \in {"failed", "record"}
        /\ hpc'[w][i] = "record" =>
              /\ KindOf(w, i)' = KindOf(w, i) /\ BeadOf(w, i)' = b
              /\ signal'[w][i].state = s /\ signal'[w][i].action = a /\ signal'[w][i].next = next
    <3> HIDE DEF next
    <3>1. PICK to \in {"failed", "record"} : HandlerKeeps(w, i, "getbead", to, next)
      BY <1>4
    <3>2. /\ hpc'[w][i] = to
          /\ to = "record" => signal'[w][i] = [signal[w][i] EXCEPT !.next = next]
      BY <3>1, HandlerOthers, HandlerSignal
    <3> QED BY <1>2, <3>2 DEF KindOf, BeadOf, Sent
  <2>2. ASSUME KindOf(w, i) = "SUCCESS", next # s PROVE ActionsOf(s) \subseteq done \cup {a}
    <3>1. RestOf(s, a) \subseteq done \cup {a}
      BY <2>2 DEF NextActions
    <3>2. Earlier(s, a) \subseteq done
      BY <1>1, <2>2 DEF DoneInv, SignalDone
    <3> HIDE DEF s, a
    <3> QED BY <1>2, <3>1, <3>2, ActionsSplit
  <2> HIDE DEF next, a, s
  <2> QED BY <1>1, <2>1, <2>2 DEF SignalDone
<1> QED BY <1>3, <1>4 DEF GetBead

LEMMA HandlerDone ==
    ASSUME TypeInv, DoneInv, NEW w \in Worker, NEW i \in Signal, HandlerStep(w, i)
    PROVE  /\ DoneInv' /\ DoneGrows
           /\ \A v \in Worker, j \in Signal : Applies(v, j) => RecordOutcome(v, j)
<1>1. UNCHANGED workerVars
  BY DEF HandlerStep, Receive, GetBead, RecordOutcome, Merge, Close, CloseRecord, Block,
         BlockRecord, SetIssue, RecordIssue, RemoveWorktree, HandlerReleaseRead,
         HandlerReleaseReopen, HandlerReleaseRecord, HandlerExit, HandlerOnly
<1>2. DoneGrows
  <2>1. UNCHANGED chart \/ \E e : Log(BeadOf(w, i), e)
    BY DEF HandlerStep, Receive, GetBead, RecordOutcome, Merge, Close, CloseRecord, Block,
         BlockRecord, SetIssue, RecordIssue, RemoveWorktree, HandlerReleaseRead,
         HandlerReleaseReopen, HandlerReleaseRecord, HandlerExit, bdVars
  <2> QED BY <2>1, SameGrows, LogGrows DEF TypeInv
<1>3. ASSUME SignalDone(w, i)',
             \A v \in Worker, j \in Signal :
                <<v, j>> # <<w, i>> => hpc'[v][j] = hpc[v][j] /\ signal'[v][j] = signal[v][j]
      PROVE  DoneInv' /\ \A v \in Worker, j \in Signal : Applies(v, j) => v = w /\ j = i
  <2>1. ASSUME NEW v \in Worker, NEW j \in Signal PROVE SignalDone(v, j)'
    BY <1>2, <1>3, SignalKept
  <2>2. ASSUME NEW v \in Worker PROVE WorkerDone(v)'
    <3>1. pane[v] # "none" => run[v].bead \in Bead
      BY DEF TypeInv, WorkTyped
    <3> QED BY <1>1, <1>2, <3>1 DEF DoneInv, WorkerDone, DoneGrows, Begun, workerVars
  <2> QED BY <1>3, <2>1, <2>2 DEF DoneInv, Applies
<1>4. CASE Receive(w, i)
  <2>1. PICK to \in {"done", "relget", "getbead", "failed"} :
          HandlerKeeps(w, i, "received", to, None)
    BY <1>4 DEF Receive, Handler
  <2>2. UNCHANGED chart
    BY <1>4 DEF Receive, bdVars
  <2>3. /\ hpc[w][i] = "received" /\ hpc'[w][i] = to
        /\ to = "getbead" => signal'[w][i] = [signal[w][i] EXCEPT !.next = None]
        /\ \A v \in Worker, j \in Signal :
              <<v, j>> # <<w, i>> => hpc'[v][j] = hpc[v][j] /\ signal'[v][j] = signal[v][j]
    BY <2>1, HandlerOthers, HandlerSignal
  <2>4. signal[w][i] \in Sent
    BY DEF TypeInv, HandTyped
  <2>5. SignalDone(w, i)'
    BY <2>1, <2>2, <2>3, <2>4 DEF DoneInv, SignalDone, KindOf, BeadOf, Sent
  <2> QED BY <1>2, <1>3, <2>3, <2>5 DEF Applies
<1>5. CASE GetBead(w, i)
  <2>1. PICK to, next : HandlerKeeps(w, i, "getbead", to, next)
    BY <1>5 DEF GetBead, Handler
  <2>2. /\ hpc[w][i] = "getbead"
        /\ \A v \in Worker, j \in Signal :
              <<v, j>> # <<w, i>> => hpc'[v][j] = hpc[v][j] /\ signal'[v][j] = signal[v][j]
    BY <2>1, HandlerOthers
  <2> QED BY <1>2, <1>3, <1>5, <2>2, GetBeadDone DEF Applies
<1>6. CASE RecordOutcome(w, i)
  <2>1. PICK to \in {"merge", "relget", "failed"} : HandlerKeeps(w, i, "record", to, None)
    BY <1>6 DEF RecordOutcome, Handler
  <2>2. /\ hpc'[w][i] = to
        /\ \A v \in Worker, j \in Signal :
              <<v, j>> # <<w, i>> => hpc'[v][j] = hpc[v][j] /\ signal'[v][j] = signal[v][j]
    BY <2>1, HandlerOthers
  <2>3. SignalDone(w, i)'
    BY <2>2 DEF SignalDone
  <2> QED BY <1>2, <1>3, <1>6, <2>2, <2>3
<1>7. CASE ~Receive(w, i) /\ ~GetBead(w, i) /\ ~RecordOutcome(w, i)
  <2>1. PICK from \in {"merge", "close", "block", "closerecord", "blockrecord", "rmtree", "relget",
                     "relset", "relrecord", "exit"},
           to \in {"close", "block", "closerecord", "blockrecord", "rmtree", "relget", "relset",
                   "relrecord", "exit", "done", "failed"} :
          HandlerKeeps(w, i, from, to, None)
    BY <1>7 DEF HandlerStep, Merge, Close, CloseRecord, Block, BlockRecord, SetIssue, RecordIssue,
         RemoveWorktree, HandlerReleaseRead, HandlerReleaseReopen, HandlerReleaseRecord,
         HandlerExit, AfterRelease, Handler
  <2>2. /\ hpc[w][i] = from /\ hpc'[w][i] = to
        /\ \A v \in Worker, j \in Signal :
              <<v, j>> # <<w, i>> => hpc'[v][j] = hpc[v][j] /\ signal'[v][j] = signal[v][j]
    BY <2>1, HandlerOthers
  <2>3. SignalDone(w, i)'
    BY <2>2 DEF SignalDone
  <2> QED BY <1>2, <1>3, <2>2, <2>3 DEF Applies
<1> QED BY <1>4, <1>5, <1>6, <1>7

\* Time, the user and crashes; a crash ends the handlers under way.
LEMMA OthersDone ==
    ASSUME TypeInv, DoneInv,
           \/ Stopped \/ StartAgain \/ PauseEnds \/ Stop \/ Crash \/ UNCHANGED vars
           \/ \E b \in Bead : LeaseExpires(b)
    PROVE  DoneInv' /\ DoneGrows
<1>1. UNCHANGED <<workerVars, chart>>
  BY DEF Stopped, StartAgain, PauseEnds, Stop, SupOnly, Crash, LeaseExpires, vars, bdVars
<1>2. \A w \in Worker, i \in Signal :
         \/ hpc'[w][i] \notin {"received", "getbead", "record"}
         \/ hpc'[w][i] = hpc[w][i] /\ signal'[w][i] = signal[w][i]
  <2>1. CASE Crash
    BY <2>1 DEF Crash, HandlerBusy
  <2>2. CASE ~Crash
    BY <2>2 DEF Stopped, StartAgain, PauseEnds, Stop, SupOnly, LeaseExpires, vars, handlerVars
  <2> QED BY <2>1, <2>2
<1> QED BY <1>1, <1>2, SameGrows, DoneKept DEF workerVars

\* Nothing but its own handler applies a signal.
LEMMA OnlyHandlersApply ==
    ASSUME TypeInv, [Next]_vars, ~ \E w \in Worker, i \in Signal : HandlerStep(w, i)
    PROVE  \A w \in Worker, i \in Signal : ~Applies(w, i)
<1>1. CASE UNCHANGED handlerVars
  BY <1>1 DEF Applies, handlerVars
<1>2. CASE SplitWindow
  BY <1>2 DEF SplitWindow, Applies, handlerVars, TypeInv, HandTyped
<1>3. CASE Crash
  BY <1>3 DEF Crash, Applies
<1>4. CASE \E w \in Worker, i \in Signal, k \in Kind : Post(w, i, k)
  BY <1>4 DEF Post, Applies, TypeInv, HandTyped
<1>5. SupervisorStep => SplitWindow \/ UNCHANGED handlerVars
  BY DEF SupervisorStep, Poll, Reconcile, FindSlots, ScanReady, ScanInProgress, Select,
     ScanFails, NextAssignment, Claim, ClaimRead, ClaimRecord, CreateWorktree, SpawnCheck,
     RecordSpawned, ReleaseRead, ReleaseReopen, ReleaseRecord, AssignmentFailed, CheckHealth,
     Recover, Kill, Recovered
<1>6. ASSUME NEW w \in Worker,
             WorkerStep(w) \/ Stall(w) \/ Resume(w) \/ Die(w) \/ Vanish(w) \/ GiveUp(w)
      PROVE  UNCHANGED handlerVars \/ \E i \in Signal, k \in Kind : Post(w, i, k)
  BY <1>6 DEF WorkerStep, WorkerInit, RunToolActions, Answered, Shutdown, Stall, Resume, Die,
     Vanish, GiveUp, SetPane
<1>7. (Stopped \/ StartAgain \/ PauseEnds \/ Stop \/ UNCHANGED vars) => UNCHANGED handlerVars
  BY DEF Stopped, StartAgain, PauseEnds, Stop, SupOnly, vars
<1>8. ASSUME NEW b \in Bead, LeaseExpires(b) PROVE UNCHANGED handlerVars
  BY <1>8 DEF LeaseExpires
<1> QED
  BY <1>1, <1>2, <1>3, <1>4, <1>5, <1>6, <1>7, <1>8 DEF Next, WorkerStep, Misfortune

LEMMA DoneStep ==
    ASSUME TypeInv, DoneInv, Ordered, Fault \cap {"init", "tool"} = {}, [Next]_vars
    PROVE  /\ DoneInv' /\ DoneGrows
           /\ \A w \in Worker, i \in Signal : Applies(w, i) => RecordOutcome(w, i)
<1>1. CASE \E w \in Worker, i \in Signal : HandlerStep(w, i)
  BY <1>1, HandlerDone
<1>2. CASE ~ \E w \in Worker, i \in Signal : HandlerStep(w, i)
  <2>1. \A w \in Worker, i \in Signal : ~Applies(w, i)
    BY <1>2, OnlyHandlersApply
  <2>2. DoneInv' /\ DoneGrows
    BY <1>2, SupervisorDone, WorkerInitDone, RunToolActionsDone, PaneDone, PostDone, OthersDone
       DEF Next, WorkerStep, Misfortune
  <2> QED BY <2>1, <2>2
<1> QED BY <1>1, <1>2

\* A SUCCESS leaves a state only when all its actions are done, for every
\* statechart whose sequences are `Ordered', any number of workers and signals,
\* and every fault, crashes, failing records and late signals included, but a tool
\* action or a session start that fails.
THEOREM StatesLeftDone ==
    ASSUME Ordered, Fault \cap {"init", "tool"} = {} PROVE Spec => StateLeftWhenDone
<1>1. Init => DoneInv
  BY DEF Init, DoneInv, WorkerDone, SignalDone, Begun
<1>2. TypeInv /\ DoneInv /\ [Next]_vars => DoneInv'
  BY DoneStep
<1>3. TypeInv /\ DoneInv /\ [Next]_vars =>
        [\A w \in Worker, i \in Signal :
          Applies(w, i) /\ signal[w][i].kind = "SUCCESS" /\ signal[w][i].next # signal[w][i].state
          => {Actions[signal[w][i].state][j] : j \in DOMAIN Actions[signal[w][i].state]}
                \subseteq chart'[BeadOf(w, i)].completed]_vars
  <2> SUFFICES ASSUME TypeInv, DoneInv, [Next]_vars, NEW w \in Worker, NEW i \in Signal,
                      Applies(w, i), signal[w][i].kind = "SUCCESS",
                      signal[w][i].next # signal[w][i].state
               PROVE  ActionsOf(signal[w][i].state) \subseteq chart'[BeadOf(w, i)].completed
    BY DEF ActionsOf
  <2>1. RecordOutcome(w, i) /\ DoneGrows
    BY DoneStep
  <2> DEFINE b == BeadOf(w, i)
             a == signal[w][i].action
             e == [NoEvent EXCEPT !.type = "TRANSITION_APPLIED", !.state = signal[w][i].state,
                      !.next = signal[w][i].next, !.action = a, !.success = TRUE]
  <2>2. /\ b \in Bead /\ a # None /\ chart \in [Bead -> Chart] /\ hpc[w][i] = "record"
        /\ ActionsOf(signal[w][i].state) \subseteq chart[b].completed \cup {a}
    BY HandlerKnows, HarnessAssumption DEF Applies, TypeInv, BdTyped, DoneInv, SignalDone, KindOf
  <2>3. chart'[b] = ChartApply(chart[b], e)
    <3>1. hpc'[w][i] # "failed"
      BY DEF Applies
    <3>2. ~Handler(w, i, "record", "failed")
      BY <3>1, HandlerOthers DEF Handler
    <3>3. Log(b, e)
      BY <2>1, <3>2 DEF RecordOutcome, KindOf
    <3> HIDE DEF b, e
    <3> QED BY <2>2, <3>3 DEF Log
  <2>4. e.type = "TRANSITION_APPLIED" /\ e.applies /\ e.success /\ e.action = a
    BY DEF NoEvent
  <2>5. a \in chart'[b].completed
    <3> HIDE DEF a, b, e
    <3>1. chart[b] \in Chart
      BY <2>2
    <3>2. ChartApply(chart[b], e) = ChartTransition(chart[b], e)
      BY <2>4 DEF ChartApply
    <3>3. ChartTransition(chart[b], e).completed = Completing(chart[b].completed, e)
      BY <2>4, <3>1 DEF ChartTransition, Chart
    <3> QED BY <2>2, <2>3, <2>4, <3>2, <3>3 DEF Completing
  <2> QED BY <2>1, <2>2, <2>5 DEF DoneGrows
<1> QED
  BY <1>1, <1>2, <1>3, TypeInvHolds, PTL DEF Spec, StateLeftWhenDone
=============================================================================
