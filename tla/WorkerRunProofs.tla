-------------------------- MODULE WorkerRunProofs --------------------------
(***************************************************************************)
(* Machine-checked proofs about WorkerRun: for any checklists, tools,      *)
(* rules, actions and faults, and any number of calls open at a time.      *)
(***************************************************************************)
EXTENDS WorkerRun, TLAPS

Lists == [Item -> Level]

\* What the lists of a checklist are merged by.
LEMMA StrongerFacts ==
    ASSUME NEW x \in Level, NEW y \in Level
    PROVE  /\ Stronger(x, y) \in Level /\ Rank[x] \in Nat
           /\ Rank[Stronger(x, y)] >= Rank[x] /\ Rank[Stronger(x, y)] >= Rank[y]
           /\ \A z \in Level : Rank[z] >= Rank[x] /\ Rank[z] >= Rank[y] => Rank[z] >= Rank[Stronger(x, y)]
BY DEF Stronger, Rank, Level

LEMMA MergeFacts ==
    ASSUME NEW x \in Lists, NEW y \in Lists
    PROVE  /\ Merge(x, y) \in Lists
           /\ Covers(Merge(x, y), x) /\ Covers(Merge(x, y), y)
           /\ \A z \in Lists : Covers(z, x) /\ Covers(z, y) => Covers(z, Merge(x, y))
<1>1. \A i \in Item : x[i] \in Level /\ y[i] \in Level
  BY DEF Lists
<1>2. Merge(x, y) \in Lists /\ \A i \in Item : Merge(x, y)[i] = Stronger(x[i], y[i])
  BY <1>1, StrongerFacts DEF Merge, Lists
<1>3. Covers(Merge(x, y), x) /\ Covers(Merge(x, y), y)
  BY <1>1, <1>2, StrongerFacts DEF Covers
<1>4. ASSUME NEW z \in Lists, Covers(z, x), Covers(z, y) PROVE Covers(z, Merge(x, y))
  <2>1. \A i \in Item : z[i] \in Level
    BY DEF Lists
  <2> QED
    BY <1>1, <1>2, <1>4, <2>1, StrongerFacts DEF Covers
<1> QED
  BY <1>2, <1>3, <1>4

LEMMA CoversFacts ==
    /\ \A x \in Lists : Covers(x, x)
    /\ \A x, y, z \in Lists : Covers(x, y) /\ Covers(y, z) => Covers(x, z)
<1>1. \A l \in Level : Rank[l] \in Nat
  BY StrongerFacts
<1>2. \A x \in Lists, i \in Item : Rank[x[i]] \in Nat
  BY <1>1 DEF Lists
<1> QED
  BY <1>2 DEF Covers

LEMMA DerivedTyped == \A a \in Action : Derived(a) \in Lists
<1>1. GateItems \in Lists /\ StateItems \in Lists /\ \A a \in Action : ActionItems[a] \in Lists
  BY GateAssumption DEF Lists
<1>2. Merge(GateItems, StateItems) \in Lists
  BY <1>1, MergeFacts
<1> QED
  BY <1>1, <1>2, MergeFacts DEF Derived

LEMMA EmptyTyped == [i \in Item |-> "absent"] \in Lists
BY DEF Lists, Level

-----------------------------------------------------------------------------
(* Types, and the chain of additions, which keeps Tail(queue) a sequence.  *)

CallTypes == [pc : CallPC, items : SUBSET Item, level : Level,
              what : Outcome \cup {"RESTART"} \cup Tool \cup {None}]

LEMMA AdditionTyped == \A c \in Call : TypeOK => Addition(c) \in Lists
BY DEF TypeOK, Addition, Lists, Level

LEMMA RecoveredTyped == \A a \in Action : TypeOK => Recovered(a) \in Lists
<1> SUFFICES ASSUME NEW a \in Action, TypeOK PROVE Recovered(a) \in Lists
  OBVIOUS
<1>1. added[a] \in Lists
  BY DEF TypeOK, Lists
<1> QED
  BY <1>1, DerivedTyped, MergeFacts DEF Recovered

\* An open call is at most queued once; a new one is not in the chain yet.
LEMMA ChainUntouched ==
    ASSUME ChainIsAlive, UNCHANGED queue,
           \A c \in Call : Pending(c)' <=> Pending(c),
           \A c \in Call : (call[c].pc = "adding")' => call[c].pc = "adding",
           TypeOK
    PROVE  ChainIsAlive'
BY DEF ChainIsAlive, TypeOK

LEMMA ChainShortened ==
    ASSUME ChainIsAlive, TypeOK, NEW c \in Call, Pending(c), Head(queue) = c,
           queue' = Tail(queue), call' = [call EXCEPT ![c] = Idle]
    PROVE  ChainIsAlive' /\ queue' \in Seq(Call)
<1>1. queue \in Seq(Call) /\ queue # <<>> /\ queue[1] = c
  BY DEF ChainIsAlive, TypeOK
<1>2. queue' \in Seq(Call) /\ Len(queue') = Len(queue) - 1
      /\ \A k \in 1 .. Len(queue') : k + 1 \in 1 .. Len(queue) /\ queue'[k] = queue[k + 1]
  BY <1>1
<1>3. \A k \in 1 .. Len(queue) : queue[k] = c => k = 1
  BY <1>1 DEF ChainIsAlive
<1>4. \A d \in Call : d # c => call'[d] = call[d]
  BY DEF TypeOK
<1>5. call'[c].pc = "idle"
  BY DEF TypeOK, Idle
<1>6. \A k \in 1 .. Len(queue') : queue'[k] \in Call /\ queue'[k] # c
  BY <1>1, <1>2, <1>3
<1>7. \A k \in 1 .. Len(queue') : Pending(queue[k])' /\ call'[queue'[k]].pc # "adding"
  <2> SUFFICES ASSUME NEW k \in 1 .. Len(queue')
               PROVE  Pending(queue[k])' /\ call'[queue'[k]].pc # "adding"
    OBVIOUS
  <2>1. k + 1 \in 1 .. Len(queue) /\ k + 1 # 1 /\ queue'[k] = queue[k + 1]
    BY <1>2
  <2>2. call'[queue'[k]] = call[queue[k + 1]]
    BY <1>4, <1>6, <2>1
  <2>3. call[queue[k + 1]].pc \in {"queued", "adding"} /\ call[queue[k + 1]].pc # "adding"
    BY <2>1 DEF ChainIsAlive, Pending
  <2> QED BY <2>2, <2>3 DEF Pending
<1>8. \A d \in Call : Pending(d)' => \E k \in 1 .. Len(queue') : queue'[k] = d
  <2> SUFFICES ASSUME NEW d \in Call, Pending(d)' PROVE \E k \in 1 .. Len(queue') : queue'[k] = d
    OBVIOUS
  <2>1. d # c /\ Pending(d)
    BY <1>4, <1>5 DEF Pending
  <2>2. PICK k \in 1 .. Len(queue) : queue[k] = d
    BY <2>1 DEF ChainIsAlive
  <2>3. k # 1
    BY <1>1, <2>1, <2>2
  <2>4. k - 1 \in 1 .. Len(queue') /\ queue'[k - 1] = d
    BY <1>1, <1>2, <2>2, <2>3
  <2> QED BY <2>4
<1>9. \A k, n \in 1 .. Len(queue') : queue'[k] = queue'[n] => k = n
  BY <1>1, <1>2 DEF ChainIsAlive
<1>10. \A k \in 1 .. Len(queue') : call'[queue'[k]].pc = "adding" => k = 1
  BY <1>7
<1> QED
  BY <1>2, <1>7, <1>8, <1>9, <1>10 DEF ChainIsAlive
-----------------------------------------------------------------------------
(* The types and the chain, one lemma for each group of actions.           *)

\* No call is open before the session has started or after it has ended.
Quiet == ~Ready => queue = <<>> /\ \A c \in Call : call[c] = Idle

\* A call that runs a tool knows which.
Named == \A c \in Call : call[c].pc = "running" => call[c].what \in Tool

Base == TypeOK /\ ChainIsAlive /\ Quiet /\ Named

LEMMA StrikeTyped ==
    ASSUME TypeOK, NEW f, Strike(f)
    PROVE  sessions' \in 0 .. MaxSessions /\ mishaps' \in 0 .. MaxFaults /\ struck' \subseteq Fault
BY GateAssumption DEF TypeOK, Strike

LEMMA EvidenceTyped == \A completed : Evidence(completed) \in [Tool -> Result]
BY DEF Evidence, Result

\* The action a worker starts on, and those that come before it.
LEMMA Positions ==
    ASSUME NEW k \in DOMAIN Actions
    PROVE  Actions[k] \in Action /\ SubSeq(Actions, 1, k - 1) \in Seq(Action)
<1>1. Actions \in Seq(Action) /\ k \in 1 .. Len(Actions) /\ Len(Actions) \in Nat
  BY GateAssumption
<1>2. k - 1 \in 0 .. Len(Actions)
  BY <1>1
<1> QED
  BY <1>1, <1>2

LEMMA BaseStart == ASSUME Base, NEW k \in DOMAIN Actions, Start(k) PROVE Base'
<1> DEFINE a == Actions[k]
<1> USE DEF Base, TypeOK
<1>1. a \in Action /\ SubSeq(Actions, 1, k - 1) \in Seq(Action)
  BY Positions
<1>2. Recovered(a) \in [Item -> Level]
  BY <1>1, RecoveredTyped DEF Lists
<1>3. run' \in Run
  BY <1>1, <1>2, EvidenceTyped DEF Start, Run
<1>4. sessions' \in 0 .. MaxSessions
  BY GateAssumption DEF Start
<1>5. TypeOK'
  BY <1>3, <1>4 DEF Start, logVars, history
<1>6. queue = <<>> /\ \A c \in Call : call[c] = Idle
  BY DEF Quiet, Ready, Start
<1>7. ChainIsAlive'
  BY <1>6 DEF ChainIsAlive, Start, Pending, Idle
<1>8. Quiet' /\ Named'
  BY <1>6 DEF Quiet, Named, Start, Idle
<1> QED
  BY <1>5, <1>7, <1>8

LEMMA AddFromToolTyped ==
    ASSUME TypeOK, Running, NEW more \in Lists, AddFromTool(more)
    PROVE  added' \in [Action -> Lists] /\ acked' \in [Action -> Lists]
<1>1. run.action \in Action /\ added \in [Action -> Lists] /\ acked \in [Action -> Lists]
  BY DEF TypeOK, Run, Running, Lists
<1>2. Merge(added[run.action], more) \in Lists /\ Merge(acked[run.action], more) \in Lists
  BY <1>1, MergeFacts
<1> QED
  BY <1>1, <1>2 DEF AddFromTool

LEMMA BaseFramework == ASSUME Base, NEW more \in Lists, Framework(more) PROVE Base'
<1>1. TypeOK /\ Running /\ run.before # <<>> /\ ToolIsNext /\ UNCHANGED <<call, queue, signed>>
  BY DEF Base, Framework, ToolIsNext, ToolActionReturns, ToolActionFails, ToolActionUnrecorded
<1>2. /\ run.action \in Action /\ run.items \in Lists /\ Head(run.before) \in ToolAction
      /\ Tail(run.before) \in Seq(Action) /\ run \in Run
  BY <1>1 DEF TypeOK, Run, Running, Lists, ToolIsNext
<1>3. NextTool \in Tool /\ run.results[NextTool] \in Result
  BY <1>2, GateAssumption DEF NextTool, Run
<1>4. Merge(run.items, more) \in [Item -> Level]
  BY <1>2, MergeFacts DEF Lists
<1>5. added' \in [Action -> [Item -> Level]] /\ acked' \in [Action -> [Item -> Level]]
  <2>1. CASE AddFromTool(more)
    BY <1>1, <2>1, AddFromToolTyped DEF Lists
  <2>2. CASE UNCHANGED <<added, acked>>
    BY <1>1, <2>2 DEF TypeOK
  <2> QED
    BY <2>1, <2>2 DEF Framework, ToolActionReturns, ToolActionFails, ToolActionUnrecorded
<1>6. run' \in Run /\ run'.action = run.action
  <2>1. \A r \in Result, rest \in Seq(Action) :
          [run EXCEPT !.results[NextTool] = r, !.items = Merge(@, more), !.before = rest] \in Run
    <3> SUFFICES ASSUME NEW r \in Result, NEW rest \in Seq(Action)
                 PROVE  [run EXCEPT !.results[NextTool] = r, !.items = Merge(@, more), !.before = rest] \in Run
      OBVIOUS
    <3>1. [run.results EXCEPT ![NextTool] = r] \in [Tool -> Result]
      BY <1>2 DEF Run
    <3> QED
      BY <1>2, <1>4, <3>1 DEF Run
  <2>2. <<>> \in Seq(Action) /\ "plain" \in Result /\ "passed" \in Result /\ "failed" \in Result
    BY DEF Result
  <2>3. PICK r \in Result, rest \in {<<>>, Tail(run.before)} : KeepResult(r, more, rest)
    BY <2>2 DEF Framework, ToolActionReturns, ToolActionFails, ToolActionUnrecorded
  <2>4. rest \in Seq(Action)
    BY <1>2, <2>2
  <2> QED
    BY <1>2, <2>1, <2>3, <2>4 DEF KeepResult, Run
<1>7. sessions' \in 0 .. MaxSessions /\ mishaps' \in 0 .. MaxFaults /\ struck' \subseteq Fault
  BY <1>1, StrikeTyped
  DEF Framework, ToolActionReturns, ToolActionFails, ToolActionUnrecorded, TypeOK, bounds, history
<1>8. ticked' \subseteq Item /\ done' \subseteq Action /\ proven' \subseteq Tool
  BY <1>1, <1>2, <1>3, GateAssumption
  DEF Framework, ToolActionReturns, ToolActionFails, ToolActionUnrecorded, Proves, TypeOK
<1>9. TypeOK'
  BY <1>1, <1>5, <1>6, <1>7, <1>8 DEF TypeOK
<1>10. queue = <<>> /\ \A c \in Call : call[c] = Idle
  BY <1>1 DEF Base, Quiet, Ready
<1>11. ChainIsAlive'
  BY <1>1, <1>10 DEF ChainIsAlive, Pending, Idle
<1>12. Quiet' /\ Named'
  <2>1. Quiet'
    BY <1>1, <1>10 DEF Quiet
  <2>2. Named'
    BY <1>1 DEF Base, Named
  <2> QED
    BY <2>1, <2>2
<1> QED
  BY <1>9, <1>11, <1>12 DEF Base

LEMMA BaseGone ==
    ASSUME Base, Gone, UNCHANGED <<logVars, acked, proven, signed>>,
           sessions' \in 0 .. MaxSessions, mishaps' \in 0 .. MaxFaults, struck' \subseteq Fault
    PROVE  Base'
<1>1. run' \in Run
  BY DEF Gone, NoRun, Run, Result, Level
<1>2. TypeOK'
  BY <1>1 DEF Base, TypeOK, Gone, logVars, history, Idle, CallPC, Level
<1>3. ChainIsAlive' /\ Quiet' /\ Named'
  BY DEF Gone, ChainIsAlive, Quiet, Named, Pending, Idle
<1> QED
  BY <1>2, <1>3 DEF Base

LEMMA BaseThrows == ASSUME Base, ToolActionThrows \/ SequenceStops PROVE Base'
<1>1. /\ TypeOK /\ Running /\ ~Ready /\ run \in Run /\ run.action \in Action
      /\ UNCHANGED <<call, queue, logVars, acked, proven, signed>>
  BY DEF Base, TypeOK, Running, Ready, Run, ToolIsNext, ToolActionThrows, SequenceStops, history
<1>2. run' \in Run
  <2>1. <<>> \in Seq(Action)
    OBVIOUS
  <2> QED
    BY <1>1, <2>1 DEF ToolActionThrows, SequenceStops, Run
<1>3. sessions' \in 0 .. MaxSessions /\ mishaps' \in 0 .. MaxFaults /\ struck' \subseteq Fault
  BY <1>1, StrikeTyped DEF ToolActionThrows, SequenceStops, TypeOK, bounds
<1>4. TypeOK'
  BY <1>1, <1>2, <1>3 DEF TypeOK, logVars, history
<1>5. ChainIsAlive' /\ Quiet' /\ Named'
  BY <1>1 DEF Base, ChainIsAlive, Quiet, Named, Pending
<1> QED
  BY <1>4, <1>5 DEF Base

LEMMA BaseFailure == ASSUME Base, AgentFails \/ FailureSignaled PROVE Base'
<1>1. TypeOK /\ Running /\ run \in Run /\ run.action \in Action /\ UNCHANGED <<call, queue, ticked, added, acked, proven>>
  BY DEF Base, TypeOK, Running, Run, AgentFails, FailureSignaled, logVars, history
<1>2. run' \in Run /\ run'.before = run.before /\ run'.action = run.action
  BY <1>1 DEF AgentFails, FailureSignaled, Run
<1>3. done' \subseteq Action /\ signed' \subseteq Action
  BY <1>1 DEF AgentFails, FailureSignaled, FailureSignals, Handled, Unheard, TypeOK, logVars, history
<1>4. sessions' \in 0 .. MaxSessions /\ mishaps' \in 0 .. MaxFaults /\ struck' \subseteq Fault
  BY <1>1, StrikeTyped DEF AgentFails, FailureSignaled, TypeOK, bounds, history
<1>5. TypeOK'
  BY <1>1, <1>2, <1>3, <1>4 DEF TypeOK
<1>6. ChainIsAlive' /\ Quiet' /\ Named'
  BY <1>1, <1>2 DEF Base, ChainIsAlive, Quiet, Named, Pending, Ready, Running
<1> QED
  BY <1>5, <1>6 DEF Base
-----------------------------------------------------------------------------
(* The same for the calls of the agent.                                    *)

DataTyped ==
    /\ ticked \subseteq Item /\ added \in [Action -> [Item -> Level]]
    /\ done \subseteq Action
    /\ sessions \in 0 .. MaxSessions /\ mishaps \in 0 .. MaxFaults /\ struck \subseteq Fault
    /\ acked \in [Action -> [Item -> Level]] /\ proven \subseteq Tool /\ signed \subseteq Action

SameTurn == run' \in Run /\ run'.action = run.action /\ run'.before = run.before

LEMMA TypeParts == TypeOK <=> DataTyped /\ run \in Run /\ call \in [Call -> CallTypes] /\ queue \in Seq(Call)
BY DEF TypeOK, DataTyped, CallTypes

\* A call that is in the chain neither before nor after the step.
LEMMA BaseCall ==
    ASSUME Base, Ready, SameTurn, DataTyped', NEW c \in Call, NEW new \in CallTypes,
           ~Pending(c), new.pc \notin {"queued", "adding"},
           new.pc = "running" => new.what \in Tool,
           call' = [call EXCEPT ![c] = new], UNCHANGED queue
    PROVE  Base'
<1>1. TypeOK'
  <2>1. call' \in [Call -> CallTypes] /\ queue' \in Seq(Call)
    BY TypeParts DEF Base
  <2> QED
    BY <2>1 DEF SameTurn, DataTyped, TypeOK, CallTypes
<1>2. \A d \in Call : call'[d] = IF d = c THEN new ELSE call[d]
  BY DEF Base, TypeOK
<1>3. ChainIsAlive'
  BY <1>2, ChainUntouched DEF Base, Pending
<1>4. Ready' /\ Named'
  BY <1>2 DEF Ready, Running, SameTurn, Base, Named
<1> QED
  BY <1>1, <1>3, <1>4 DEF Base, Quiet

\* An addition leaves the head of the chain.
LEMMA BaseReturn ==
    ASSUME Base, Ready, SameTurn, DataTyped', NEW c \in Call, Pending(c), Head(queue) = c,
           Return(c), queue' = Tail(queue)
    PROVE  Base'
<1>1. call' \in [Call -> CallTypes]
  BY DEF Base, TypeOK, Return, Idle, CallTypes, CallPC, Level
<1>2. ChainIsAlive' /\ queue' \in Seq(Call)
  BY ChainShortened DEF Base, Return
<1>3. TypeOK'
  BY <1>1, <1>2 DEF SameTurn, DataTyped, TypeOK, CallTypes
<1>4. Ready' /\ Named'
  BY <1>1 DEF Ready, Running, SameTurn, Base, TypeOK, Named, Return, Idle
<1> QED
  BY <1>2, <1>3, <1>4 DEF Base, Quiet

LEMMA BaseAdd ==
    ASSUME Base, NEW c \in Call, NEW i \in Item, NEW level \in {"optional", "mandatory"},
           Add(c, i, level)
    PROVE  Base'
<1> DEFINE new == [pc |-> "queued", items |-> {i}, level |-> level, what |-> None]
<1>1. /\ Ready /\ call[c] = Idle /\ call' = [call EXCEPT ![c] = new] /\ queue' = Append(queue, c)
      /\ UNCHANGED <<logVars, run, bounds, acked, proven, signed>>
  BY DEF Add, Open, history
<1>2. new \in CallTypes /\ TypeOK /\ queue \in Seq(Call)
  BY DEF CallTypes, CallPC, Level, Base, TypeOK
<1>3. TypeOK'
  <2>1. call' \in [Call -> CallTypes] /\ queue' \in Seq(Call)
    BY <1>1, <1>2, TypeParts
  <2> QED
    BY <1>1, <1>2, <2>1 DEF TypeOK, CallTypes, logVars, history, bounds
<1>4. \A d \in Call : call'[d] = IF d = c THEN new ELSE call[d]
  BY <1>1, <1>2 DEF TypeOK
<1>5. /\ Len(queue') = Len(queue) + 1 /\ queue'[Len(queue')] = c /\ Len(queue) \in Nat
      /\ \A k \in 1 .. Len(queue) : queue'[k] = queue[k]
  BY <1>1, <1>2
<1>6. \A k \in 1 .. Len(queue) : queue[k] # c /\ queue[k] \in Call
  BY <1>1, <1>2 DEF Base, ChainIsAlive, Pending, Idle
<1>7. \A k \in 1 .. Len(queue') : k = Len(queue') \/ k \in 1 .. Len(queue)
  BY <1>5
<1>8. \A k \in 1 .. Len(queue') : Pending(queue[k])'
  BY <1>4, <1>5, <1>6, <1>7 DEF Base, ChainIsAlive, Pending
<1>9. \A d \in Call : Pending(d)' => \E k \in 1 .. Len(queue') : queue'[k] = d
  <2> SUFFICES ASSUME NEW d \in Call, Pending(d)' PROVE \E k \in 1 .. Len(queue') : queue'[k] = d
    OBVIOUS
  <2>1. CASE d = c
    BY <1>5, <2>1
  <2>2. CASE d # c
    <3>1. Pending(d)
      BY <1>4, <2>2 DEF Pending
    <3>2. PICK k \in 1 .. Len(queue) : queue[k] = d
      BY <3>1 DEF Base, ChainIsAlive
    <3> QED
      BY <1>5, <3>2
  <2> QED
    BY <2>1, <2>2
<1>10. \A k, n \in 1 .. Len(queue') : queue'[k] = queue'[n] => k = n
  BY <1>5, <1>6, <1>7 DEF Base, ChainIsAlive
<1>11. \A k \in 1 .. Len(queue') : call'[queue'[k]].pc = "adding" => k = 1
  BY <1>4, <1>5, <1>6, <1>7 DEF Base, ChainIsAlive
<1>12. ChainIsAlive'
  BY <1>8, <1>9, <1>10, <1>11 DEF ChainIsAlive
<1>13. Named'
  BY <1>4 DEF Base, Named
<1> QED
  BY <1>1, <1>3, <1>12, <1>13 DEF Base, Quiet, Ready, Running

LEMMA BaseBegin == ASSUME Base, NEW c \in Call, Begin(c) PROVE Base'
<1>1. DataTyped /\ run \in Run
  BY TypeParts DEF Base
<1>2. ASSUME NEW pc, NEW items, NEW what, Open(c, pc, items, "absent", what),
             UNCHANGED <<logVars, run, queue, bounds, acked, proven, signed>>,
             pc \in CallPC, pc \notin {"queued", "adding"}, pc = "running" => what \in Tool, items \subseteq Item,
             what \in Outcome \cup {"RESTART"} \cup Tool \cup {None}
      PROVE  Base'
  <2> DEFINE new == [pc |-> pc, items |-> items, level |-> "absent", what |-> what]
  <2>1. new \in CallTypes /\ call' = [call EXCEPT ![c] = new] /\ Ready /\ call[c] = Idle
    BY <1>2 DEF CallTypes, Level, Open
  <2>2. DataTyped' /\ SameTurn
    BY <1>1, <1>2 DEF DataTyped, SameTurn, logVars, history, bounds
  <2>3. ~Pending(c)
    BY <2>1 DEF Pending, Idle
  <2> QED
    BY <1>2, <2>1, <2>2, <2>3, BaseCall
<1>3. CASE \E i \in Item, level \in {"optional", "mandatory"} : Add(c, i, level)
  BY <1>3, BaseAdd
<1>4. CASE \E items \in SUBSET Item : Tick(c, items)
  BY <1>4, <1>2 DEF Tick, CallPC, history
<1>5. ASSUME NEW t \in Tool, CallTool(c, t) PROVE Base'
  BY <1>5, <1>2 DEF CallTool, CallPC, history
<1>6. ASSUME NEW t \in Tool, PiToolRefused(c, t) PROVE Base'
  <2>1. run' \in Run /\ run'.before = run.before /\ run'.action = run.action
    <3>1. [run.results EXCEPT ![t] = "failed"] \in [Tool -> Result]
      BY <1>1 DEF Run, Result
    <3> QED
      BY <1>1, <1>6, <3>1 DEF PiToolRefused, Run
  <2>2. UNCHANGED <<call, queue, logVars, bounds, acked, proven, signed>>
    BY <1>6 DEF PiToolRefused, history
  <2>3. TypeOK'
    BY <2>1, <2>2 DEF Base, TypeOK, logVars, history, bounds
  <2> QED
    BY <2>1, <2>2, <2>3 DEF Base, ChainIsAlive, Pending, Quiet, Named, Ready, Running
<1>7. CASE \E outcome \in Outcome : Complete(c, outcome)
  <2> SUFFICES ASSUME NEW outcome \in Outcome, Complete(c, outcome) PROVE Base'
    BY <1>7
  <2>1. CASE outcome = "SUCCESS"
    BY <2>1, <1>2 DEF Complete, CallPC, history
  <2>2. CASE outcome # "SUCCESS"
    BY <2>2, <1>2 DEF Complete, CallPC, history
  <2> QED
    BY <2>1, <2>2
<1>8. CASE RequestRestart(c)
  BY <1>8, <1>2 DEF RequestRestart, CallPC, history
<1> QED
  BY <1>3, <1>4, <1>5, <1>6, <1>7, <1>8 DEF Begin

\* What the steps of an open call know of it.
LEMMA OpenCall ==
    ASSUME Base, NEW c \in Call, call[c].pc # "idle"
    PROVE  /\ Ready /\ call[c] \in CallTypes /\ run \in Run /\ run.action \in Action /\ DataTyped
           /\ Pending(c) /\ call[c].pc = "adding" => Head(queue) = c
<1>1. Ready
  BY DEF Base, Quiet, Idle
<1>2. call[c] \in CallTypes /\ run \in Run /\ DataTyped /\ queue \in Seq(Call)
  BY TypeParts DEF Base
<1>3. run.action \in Action
  BY <1>1, <1>2 DEF Ready, Running, Run
<1>4. ASSUME Pending(c), call[c].pc = "adding" PROVE Head(queue) = c
  <2>1. PICK k \in 1 .. Len(queue) : queue[k] = c
    BY <1>4 DEF Base, ChainIsAlive
  <2>2. k = 1
    BY <1>4, <2>1 DEF Base, ChainIsAlive
  <2> QED
    BY <1>2, <2>1, <2>2
<1> QED
  BY <1>1, <1>2, <1>3, <1>4

LEMMA BaseAddMerge == ASSUME Base, NEW c \in Call, AddMerge(c) PROVE Base'
<1> DEFINE items == Merge(run.items, Addition(c))
<1>1. Ready /\ call[c] \in CallTypes /\ run \in Run /\ run.action \in Action /\ DataTyped
  BY OpenCall DEF AddMerge
<1>2. items \in Lists
  BY <1>1, AdditionTyped, MergeFacts DEF Base, Run, Lists
<1>3. SameTurn
  BY <1>1, <1>2 DEF AddMerge, SameTurn, Run, Lists
<1>4. Pending(c) /\ Head(queue) = c
  BY DEF AddMerge, Pending
<1>5. CASE items = run.items
  <2>1. acked' \in [Action -> [Item -> Level]]
    <3>1. acked[run.action] \in Lists
      BY <1>1 DEF DataTyped, Lists
    <3>2. Merge(acked[run.action], Addition(c)) \in Lists
      BY <3>1, AdditionTyped, MergeFacts DEF Base
    <3> QED
      BY <1>1, <1>5, <3>2 DEF AddMerge, Acknowledge, DataTyped, Lists
  <2>2. DataTyped'
    BY <1>1, <2>1 DEF AddMerge, DataTyped, logVars, history, bounds
  <2>3. Return(c) /\ queue' = Tail(queue)
    BY <1>5 DEF AddMerge
  <2> QED
    BY <1>1, <1>3, <1>4, <2>2, <2>3, BaseReturn
<1>6. CASE items # run.items
  <2>1. call' = [call EXCEPT ![c].pc = "adding"] /\ UNCHANGED <<queue, acked, logVars, bounds, proven, signed>>
    BY <1>6 DEF AddMerge, MoveTo
  <2>2. /\ queue[1] = c /\ queue \in Seq(Call) /\ 1 \in 1 .. Len(queue)
    <3>1. queue \in Seq(Call) /\ queue # <<>>
      BY <1>4 DEF Base, ChainIsAlive, TypeOK
    <3> QED
      BY <1>4, <3>1
  <2>3. \A d \in Call : call'[d].pc = IF d = c THEN "adding" ELSE call[d].pc
    BY <1>1, <2>1 DEF Base, TypeOK, CallTypes
  <2>4. call' \in [Call -> CallTypes]
    BY <1>1, <2>1, TypeParts DEF Base, CallTypes, CallPC
  <2>5. TypeOK'
    BY <1>1, <1>3, <2>1, <2>2, <2>4 DEF SameTurn, DataTyped, TypeOK, CallTypes, logVars, history, bounds
  <2>6. ChainIsAlive'
    BY <1>4, <2>1, <2>2, <2>3 DEF Base, ChainIsAlive, Pending
  <2>7. Named'
    BY <1>1, <2>1, <2>3 DEF Base, Named, TypeOK
  <2> QED
    BY <1>1, <1>3, <2>5, <2>6, <2>7 DEF Base, Quiet, Ready, Running, SameTurn
<1> QED
  BY <1>5, <1>6

\* The data that an addition changes when it is recorded.
LEMMA RecordTyped ==
    ASSUME TypeOK, NEW c \in Call, run.action \in Action
    PROVE  /\ Recorded(c) => added' \in [Action -> [Item -> Level]]
           /\ Acknowledge(c) => acked' \in [Action -> [Item -> Level]]
<1>1. added \in [Action -> Lists] /\ acked \in [Action -> Lists] /\ Addition(c) \in Lists
  BY AdditionTyped DEF TypeOK, Lists
<1>2. Merge(added[run.action], Addition(c)) \in Lists /\ Merge(acked[run.action], Addition(c)) \in Lists
  BY <1>1, MergeFacts
<1> QED
  BY <1>1, <1>2 DEF Recorded, Acknowledge, Lists

LEMMA BaseContinue == ASSUME Base, NEW c \in Call, Continue(c) PROVE Base'
<1>1. call[c].pc # "idle"
  BY DEF Continue, AddMerge, AddRecord, TickRecord, ToolReturns, Project, Gate, Posted
<1>2. Ready /\ call[c] \in CallTypes /\ run \in Run /\ run.action \in Action /\ DataTyped /\ TypeOK
  BY <1>1, OpenCall DEF Base
<1>3. CASE AddMerge(c)
  BY <1>3, BaseAddMerge
<1>4. CASE AddRecord(c)
  <2>1. SameTurn /\ DataTyped'
    BY <1>2, <1>4, RecordTyped DEF AddRecord, SameTurn, DataTyped, bounds, history
  <2>2. Pending(c) /\ Head(queue) = c
    BY <1>4, <1>1, OpenCall DEF AddRecord, Pending
  <2> QED
    BY <1>2, <1>4, <2>1, <2>2, BaseReturn DEF AddRecord
<1>5. Idle \in CallTypes /\ Idle.pc = "idle"
  BY DEF Idle, CallTypes, CallPC, Level
<1>6. ASSUME NEW i \in Item, TickRecord(c, i) PROVE Base'
  <2>1. SameTurn /\ DataTyped' /\ UNCHANGED queue /\ call[c].pc = "ticking" /\ ~Pending(c)
    BY <1>2, <1>6 DEF TickRecord, SameTurn, DataTyped, bounds, history, Pending
  <2>2. CASE Return(c)
    BY <1>2, <1>5, <2>1, <2>2, BaseCall DEF Return
  <2>3. CASE ~Return(c)
    <3> DEFINE new == [call[c] EXCEPT !.items = @ \ {i}]
    <3>1. call' = [call EXCEPT ![c] = new]
      BY <1>2, <1>6, <2>3 DEF TickRecord, TypeOK
    <3>2. new \in CallTypes /\ new.pc = "ticking"
      BY <1>2, <2>1 DEF CallTypes
    <3> QED
      BY <1>2, <2>1, <3>1, <3>2, BaseCall
  <2> QED
    BY <2>2, <2>3
<1>7. ASSUME NEW r \in {"plain", "passed", "failed"}, ToolReturns(c, r) PROVE Base'
  <2>1. [run.results EXCEPT ![call[c].what] = r] \in [Tool -> Result]
    BY <1>2 DEF Run, Result
  <2>2. SameTurn
    BY <1>2, <1>7, <2>1 DEF ToolReturns, SameTurn, Run
  <2>3. DataTyped'
    <3>1. call[c].what \in Tool
      BY <1>7 DEF ToolReturns, Base, Named
    <3> QED
      BY <1>2, <1>7, <3>1 DEF ToolReturns, Proves, DataTyped, logVars, history, bounds
  <2>4. UNCHANGED queue /\ ~Pending(c) /\ Return(c)
    BY <1>7 DEF ToolReturns, Pending
  <2> QED
    BY <1>2, <1>5, <2>2, <2>3, <2>4, BaseCall DEF Return
<1>8. CASE Project(c)
  <2> DEFINE new == [call[c] EXCEPT !.pc = "gate", !.items = ticked]
  <2>1. new \in CallTypes /\ new.pc = "gate"
    BY <1>2 DEF CallTypes, CallPC, DataTyped
  <2>2. call' = [call EXCEPT ![c] = new] /\ UNCHANGED queue /\ ~Pending(c)
    BY <1>2, <1>8 DEF Project, Pending, TypeOK
  <2>3. SameTurn /\ DataTyped'
    BY <1>2, <1>8 DEF Project, SameTurn, DataTyped, logVars, history, bounds
  <2> QED
    BY <1>2, <2>1, <2>2, <2>3, BaseCall
<1>9. CASE Gate(c)
  <2> DEFINE new == [call[c] EXCEPT !.pc = "posting"]
  <2>1. new \in CallTypes /\ new.pc = "posting"
    BY <1>2 DEF CallTypes, CallPC
  <2>2. SameTurn /\ DataTyped' /\ UNCHANGED queue /\ ~Pending(c)
    BY <1>2, <1>9 DEF Gate, SameTurn, DataTyped, logVars, history, bounds, Pending
  <2>3. call' = [call EXCEPT ![c] = new] \/ call' = [call EXCEPT ![c] = Idle]
    BY <1>2, <1>9 DEF Gate, MoveTo, Return, TypeOK
  <2> QED
    BY <1>2, <1>5, <2>1, <2>2, <2>3, BaseCall
<1>10. CASE Posted(c)
  <2>1. SameTurn
    BY <1>2, <1>10 DEF Posted, SameTurn, Run
  <2>2. DataTyped'
    BY <1>2, <1>10 DEF Posted, Handled, DataTyped, bounds, history
  <2>3. UNCHANGED queue /\ ~Pending(c) /\ Return(c)
    BY <1>10 DEF Posted, Pending
  <2> QED
    BY <1>2, <1>5, <2>1, <2>2, <2>3, BaseCall DEF Return
<1> QED
  BY <1>3, <1>4, <1>6, <1>7, <1>8, <1>9, <1>10 DEF Continue

LEMMA BaseBreak == ASSUME Base, NEW c \in Call, Break(c) PROVE Base'
<1>1. call[c].pc # "idle"
  BY DEF Break, AddFails, TickFails, ToolThrows, PostFails
<1>2. Ready /\ call[c] \in CallTypes /\ run \in Run /\ run.action \in Action /\ DataTyped /\ TypeOK
  BY <1>1, OpenCall DEF Base
<1>3. Idle \in CallTypes /\ Idle.pc = "idle"
  BY DEF Idle, CallTypes, CallPC, Level
<1>4. Return(c) /\ sessions' \in 0 .. MaxSessions /\ mishaps' \in 0 .. MaxFaults /\ struck' \subseteq Fault
  BY <1>2, StrikeTyped DEF Break, AddFails, TickFails, ToolThrows, PostFails
<1>5. CASE AddFails(c)
  <2>1. SameTurn /\ DataTyped'
    BY <1>2, <1>4, <1>5, RecordTyped DEF AddFails, SameTurn, DataTyped, history
  <2>2. Pending(c) /\ Head(queue) = c /\ queue' = Tail(queue)
    BY <1>5, <1>1, OpenCall DEF AddFails, Pending
  <2> QED
    BY <1>2, <1>4, <2>1, <2>2, BaseReturn
<1>6. CASE TickFails(c)
  <2>1. SameTurn /\ DataTyped' /\ UNCHANGED queue /\ ~Pending(c)
    BY <1>2, <1>4, <1>6 DEF TickFails, SameTurn, DataTyped, logVars, history, Pending
  <2> QED
    BY <1>2, <1>3, <1>4, <2>1, BaseCall DEF Return
<1>7. CASE ToolThrows(c)
  <2> DEFINE t == call[c].what
  <2>1. \A r : r \in Result => [run.results EXCEPT ![t] = r] \in [Tool -> Result]
    BY <1>2 DEF Run
  <2>2. [run.results EXCEPT ![t] = IF t \in External THEN "failed" ELSE @] \in [Tool -> Result]
    BY <1>2 DEF Run, Result
  <2>3. SameTurn
    BY <1>2, <1>7, <2>2 DEF ToolThrows, SameTurn, Run
  <2>4. DataTyped' /\ UNCHANGED queue /\ ~Pending(c)
    BY <1>2, <1>4, <1>7 DEF ToolThrows, DataTyped, logVars, history, Pending
  <2> QED
    BY <1>2, <1>3, <1>4, <2>3, <2>4, BaseCall DEF Return
<1>8. CASE PostFails(c)
  <2>1. SameTurn /\ UNCHANGED queue /\ ~Pending(c)
    BY <1>2, <1>8 DEF PostFails, SameTurn, Pending
  <2>2. DataTyped'
    BY <1>2, <1>4, <1>8 DEF PostFails, Handled, Unheard, DataTyped
  <2> QED
    BY <1>2, <1>3, <1>4, <2>1, <2>2, BaseCall DEF Return
<1> QED
  BY <1>5, <1>6, <1>7, <1>8 DEF Break

LEMMA BaseSession == ASSUME Base, Session PROVE Base'
<1>1. CASE \E k \in DOMAIN Actions : Start(k)
  BY <1>1, BaseStart
<1>2. CASE \E more \in [Item -> Level] : Framework(more)
  BY <1>2, BaseFramework DEF Lists
<1>3. CASE SequenceStops \/ ToolActionThrows
  BY <1>3, BaseThrows
<1>4. CASE AgentFails \/ FailureSignaled
  BY <1>4, BaseFailure
<1>5. CASE Shutdown \/ Die
  <2>1. sessions' \in 0 .. MaxSessions /\ mishaps' \in 0 .. MaxFaults /\ struck' \subseteq Fault
    BY <1>5, StrikeTyped DEF Shutdown, Die, Base, TypeOK, bounds, history
  <2> QED
    BY <1>5, <2>1, BaseGone DEF Shutdown, Die, history
<1> QED
  BY <1>1, <1>2, <1>3, <1>4, <1>5 DEF Session

LEMMA BaseStutter == ASSUME Base, UNCHANGED vars PROVE Base'
BY DEF Base, TypeOK, ChainIsAlive, Quiet, Named, Pending, Ready, Running, vars, logVars, history, bounds

LEMMA BaseInit == Init => Base
<1> SUFFICES ASSUME Init PROVE Base
  OBVIOUS
<1>1. run \in Run
  BY DEF Init, NoRun, Run, Result, Level
<1>2. TypeOK
  BY <1>1, GateAssumption DEF Init, TypeOK, Idle, CallPC, Level
<1>3. ChainIsAlive /\ Quiet /\ Named
  BY DEF Init, ChainIsAlive, Quiet, Named, Pending, Idle
<1> QED
  BY <1>2, <1>3 DEF Base

LEMMA BaseStep == Base /\ [Next]_vars => Base'
BY BaseSession, BaseBegin, BaseContinue, BaseBreak, BaseStutter DEF Next

LEMMA BaseHolds == Spec => []Base
BY BaseInit, BaseStep, PTL DEF Spec

\* A worker's state stays well formed whatever the agent calls at once.
THEOREM TypeCorrect == Spec => []TypeOK
<1>1. Base => TypeOK
  BY DEF Base
<1> QED
  BY <1>1, BaseHolds, PTL

\* checklistMutationQueue: however additions overlap, fail and are retried, its
\* links are the additions under way, and only its head has left the wait.
THEOREM ChainCorrect == Spec => []ChainIsAlive
<1>1. Base => ChainIsAlive
  BY DEF Base
<1> QED
  BY <1>1, BaseHolds, PTL

-----------------------------------------------------------------------------
(* The gate.                                                               *)

\* Where a step leaves a call.
CallMoves(c) ==
    \/ call'[c] = call[c] \/ call'[c] = Idle
    \/ call[c] = Idle /\ call'[c].pc # "gate"
    \/ call[c].pc = "queued" /\ call'[c] = [call[c] EXCEPT !.pc = "adding"]
    \/ call[c].pc = "ticking" /\ call'[c].pc = "ticking"
    \/ Project(c) \/ Gate(c)

LEMMA CallStep == ASSUME Base, Next, NEW d \in Call PROVE CallMoves(d)
<1>1. call \in [Call -> CallTypes]
  BY TypeParts DEF Base
<1>2. CASE Session
  BY <1>1, <1>2 DEF Session, Start, Framework, ToolActionReturns, ToolActionFails,
     ToolActionUnrecorded, ToolActionThrows, SequenceStops, AgentFails, FailureSignaled, Shutdown, Die, Gone, CallMoves
<1>3. ASSUME NEW c \in Call, Begin(c) PROVE CallMoves(d)
  BY <1>1, <1>3 DEF Begin, Add, Tick, CallTool, PiToolRefused, Complete, RequestRestart, Open, CallMoves
<1>4. ASSUME NEW c \in Call, Continue(c) PROVE CallMoves(d)
  <2>1. CASE AddMerge(c)
    BY <1>1, <2>1 DEF AddMerge, MoveTo, Return, CallMoves, CallTypes
  <2>2. ASSUME NEW i \in Item, TickRecord(c, i) PROVE CallMoves(d)
    BY <1>1, <2>2 DEF TickRecord, Return, CallMoves, CallTypes
  <2>3. CASE Project(c) \/ Gate(c)
    BY <1>1, <2>3 DEF Project, Gate, MoveTo, Return, CallMoves
  <2>4. CASE Return(c)
    BY <1>1, <2>4 DEF Return, CallMoves
  <2> QED
    BY <1>4, <2>1, <2>2, <2>3, <2>4 DEF Continue, AddRecord, ToolReturns, Posted
<1>5. ASSUME NEW c \in Call, Break(c) PROVE CallMoves(d)
  BY <1>1, <1>5 DEF Break, AddFails, TickFails, ToolThrows, PostFails, Return, CallMoves
<1> QED
  BY <1>2, <1>3, <1>4, <1>5 DEF Next

LEMMA TickedGrows == Next => ticked \subseteq ticked'
BY DEF Next, Session, Start, Framework, ToolActionReturns, ToolActionFails, ToolActionUnrecorded,
   ToolActionThrows, SequenceStops,
   AgentFails, FailureSignaled, Shutdown, Die, Begin, Add, Tick, CallTool, PiToolRefused, Complete,
   RequestRestart, Continue, AddMerge, AddRecord, TickRecord, ToolReturns, Project, Gate, Posted,
   Break, AddFails, TickFails, ToolThrows, PostFails, logVars, history

\* What the gate has read of the log still holds when it is used: ticks stay.
Snapshot == \A c \in Call : call[c].pc = "gate" => call[c].items \subseteq ticked

LEMMA SnapshotStep == Base /\ Snapshot /\ [Next]_vars => Snapshot'
<1> SUFFICES ASSUME Base, Snapshot, Next, NEW c \in Call, call'[c].pc = "gate"
             PROVE  call'[c].items \subseteq ticked'
  BY DEF Snapshot, vars, logVars, history
<1>1. call[c] \in CallTypes
  BY TypeParts DEF Base
<1>2. call'[c] = call[c] \/ Project(c)
  <2>1. CASE Gate(c)
    <3>1. call'[c] = [call[c] EXCEPT !.pc = "posting"] \/ call'[c] = Idle
      BY <2>1, TypeParts DEF Gate, MoveTo, Return, Base
    <3> QED
      BY <1>1, <3>1 DEF Idle, CallTypes
  <2>2. CASE call[c].pc = "queued" /\ call'[c] = [call[c] EXCEPT !.pc = "adding"]
    BY <1>1, <2>2 DEF CallTypes
  <2> QED
    BY <2>1, <2>2, CallStep DEF CallMoves, Idle
<1>3. CASE call'[c] = call[c]
  BY <1>3, TickedGrows DEF Snapshot
<1>4. CASE Project(c)
  BY <1>1, <1>4 DEF Project, Base, TypeOK, logVars, history
<1> QED
  BY <1>2, <1>3, <1>4

LEMMA GateStep == Base /\ Snapshot /\ [Next]_vars =>
    [\A c \in Call : call[c].pc = "gate" /\ call'[c].pc = "posting" =>
        Mandatory(run.items) \subseteq ticked /\ Audited]_vars
<1> SUFFICES ASSUME Base, Snapshot, Next, NEW c \in Call, call[c].pc = "gate", call'[c].pc = "posting"
             PROVE  Mandatory(run.items) \subseteq ticked /\ Audited
  OBVIOUS
<1>1. call[c] \in CallTypes
  BY TypeParts DEF Base
<1>2. Gate(c)
  <2>1. ~Project(c) /\ call'[c] # Idle /\ call[c] # Idle
    BY DEF Project, Idle
  <2> QED
    BY <2>1, CallStep DEF CallMoves
<1>3. Missing(run.items, call[c].items) = {} /\ Audited
  BY <1>1, <1>2 DEF Gate, Return, Idle, Base, TypeOK
<1> QED
  BY <1>3 DEF Missing, Snapshot

\* signal_completion: whatever other calls do while the gate reads the log, the
\* SUCCESS it lets through has the mandatory items of that moment ticked in the
\* log, and no required tool that has not been called or has failed.
THEOREM GateCorrect == Spec => GateHolds
<1>1. Init => Snapshot
  BY DEF Init, Snapshot, Idle
<1>2. Spec => []Snapshot
  BY <1>1, BaseHolds, SnapshotStep, PTL DEF Spec
<1> QED
  BY <1>2, BaseHolds, GateStep, PTL DEF Spec, GateHolds

-----------------------------------------------------------------------------
(* The evidence that tools have passed.                                    *)

\* A completed tool action vouches for its tool: the tool has returned without
\* failure, for this worker or for an earlier one, or the agent has signed for it.
Vouched == \A a \in ToolAction : a \in done => ToolOf[a] \in proven \/ a \in signed

Vouches == EvidenceIsReal /\ Vouched

\* A signature stays.
LEMMA SignedStays == ASSUME signed \subseteq signed', NEW t, Signed(t) PROVE Signed(t)'
BY DEF Signed

\* A step in which no tool action is completed but by the agent's signal.
LEMMA VouchedCoordinator ==
    ASSUME Vouches, NEW what, Handled(what) \/ UNCHANGED <<done, signed>>, proven \subseteq proven'
    PROVE  Vouched' /\ signed \subseteq signed'
BY DEF Vouches, Vouched, Handled

LEMMA VouchesFramework == ASSUME Base, Vouches, NEW more \in Lists, Framework(more) PROVE Vouches'
<1>1. TypeOK /\ Running /\ ToolIsNext /\ signed' = signed
  BY DEF Base, ToolIsNext, Framework, ToolActionReturns, ToolActionFails, ToolActionUnrecorded
<1>2. run \in Run /\ Head(run.before) \in ToolAction /\ NextTool \in Tool /\ run.results \in [Tool -> Result]
  BY <1>1, GateAssumption DEF TypeOK, Run, NextTool, ToolIsNext
<1>3. PICK r \in {"plain", "passed", "failed"}, rest \in {<<>>, Tail(run.before)} :
         KeepResult(r, more, rest) /\ Proves(r, NextTool)
  BY DEF Framework, ToolActionReturns, ToolActionFails, ToolActionUnrecorded
<1>4. Vouched'
  <2>1. done' = done \/ (done' = done \cup {Head(run.before)} /\ NextTool \in proven')
    BY DEF Framework, ToolActionReturns, ToolActionFails, ToolActionUnrecorded, Proves
  <2> QED
    BY <1>1, <1>2, <1>3, <2>1, GateAssumption DEF Vouches, Vouched, Proves, NextTool
<1>5. EvidenceIsReal'
  BY <1>1, <1>2, <1>3 DEF Vouches, EvidenceIsReal, Signed, KeepResult, Proves, Run
<1> QED
  BY <1>4, <1>5 DEF Vouches

LEMMA VouchesCall ==
    ASSUME Base, Vouches, NEW c \in Call, Begin(c) \/ Continue(c) \/ Break(c)
    PROVE  Vouches'
<1>1. run \in Run
  BY DEF Base, TypeOK
<1>2. CASE run' = run /\ proven' = proven /\ done' = done /\ signed' = signed
  BY <1>2 DEF Vouches, EvidenceIsReal, Signed, Vouched, Running
<1>3. ASSUME NEW t \in Tool, PiToolRefused(c, t) PROVE Vouches'
  BY <1>1, <1>3 DEF PiToolRefused, Vouches, EvidenceIsReal, Signed, Vouched, Running, Ready, Run, logVars, history
<1>4. CASE AddMerge(c)
  BY <1>1, <1>4 DEF AddMerge, Vouches, EvidenceIsReal, Signed, Vouched, Running, Run, logVars, history
<1>5. ASSUME NEW r \in {"plain", "passed", "failed"}, ToolReturns(c, r) PROVE Vouches'
  BY <1>1, <1>5 DEF ToolReturns, Proves, Vouches, EvidenceIsReal, Signed, Vouched, Running, Run, logVars, history
<1>6. CASE ToolThrows(c)
  BY <1>1, <1>6 DEF ToolThrows, Vouches, EvidenceIsReal, Signed, Vouched, Running, Run, logVars, history
<1>7. CASE Posted(c) \/ PostFails(c)
  <2>1. Running /\ TypeOK /\ run'.results = run.results /\ proven' = proven
    BY <1>1, <1>7 DEF Posted, PostFails, Base, Run
  <2>2. Vouched' /\ signed \subseteq signed'
    BY <1>7, <2>1, VouchedCoordinator DEF Posted, PostFails, Unheard
  <2> QED
    BY <2>1, <2>2, SignedStays DEF Vouches, EvidenceIsReal
<1> QED
  BY <1>2, <1>3, <1>4, <1>5, <1>6, <1>7
  DEF Begin, Add, Tick, CallTool, Complete, RequestRestart, Continue, AddRecord, TickRecord,
      Project, Gate, Break, AddFails, TickFails, logVars, history

LEMMA VouchesSession == ASSUME Base, Vouches, Session PROVE Vouches'
<1>2. ASSUME NEW k \in DOMAIN Actions, Start(k) PROVE Vouches'
  <2>1. run'.results = Evidence(done) /\ done' = done /\ proven' = proven /\ signed' = signed
    BY <1>2 DEF Start, logVars, history
  <2>2. \A t \in Tool : Evidence(done)[t] = "passed" => t \in proven \/ Signed(t)
    BY DEF Evidence, None, Vouches, Vouched, Signed
  <2> QED
    BY <2>1, <2>2 DEF Vouches, EvidenceIsReal, Signed, Vouched
<1>3. CASE \E more \in [Item -> Level] : Framework(more)
  BY <1>3, VouchesFramework DEF Lists
<1>4. CASE AgentFails \/ FailureSignaled \/ ToolActionThrows \/ SequenceStops
  <2>1. TypeOK /\ Running /\ run'.results = run.results /\ proven' = proven
    BY <1>4 DEF ToolIsNext, AgentFails, FailureSignaled, ToolActionThrows, SequenceStops, history, Base, TypeOK, Run
  <2>2. Vouched' /\ signed \subseteq signed'
    BY <1>4, <2>1, VouchedCoordinator DEF AgentFails, FailureSignaled, Unheard, ToolActionThrows, SequenceStops, logVars, history
  <2> QED
    BY <2>1, <2>2, SignedStays DEF Vouches, EvidenceIsReal
<1>5. CASE Shutdown \/ Die
  BY <1>5 DEF Shutdown, Die, Gone, NoRun, Vouches, EvidenceIsReal, Signed, Vouched, Running, logVars, history
<1> QED
  BY <1>2, <1>3, <1>4, <1>5 DEF Session

LEMMA VouchesStep == Base /\ Vouches /\ [Next]_vars => Vouches'
<1>1. ASSUME Vouches, UNCHANGED vars PROVE Vouches'
  BY <1>1 DEF Vouches, EvidenceIsReal, Signed, Vouched, Running, vars, logVars, history
<1> QED
  BY <1>1, VouchesCall, VouchesSession DEF Next

\* seedCompletedActionToolEvidence: a tool that the audit takes as passed has
\* returned without failure, although results outlive their worker only as
\* completed actions, unless the agent was given an action of that tool and
\* signed for it.  However the actions of the state are ordered, whichever of
\* them are tools', and whatever fails, that is the only gap.
THEOREM EvidenceCorrect == Spec => []EvidenceIsReal
<1>1. Init => Vouches
  BY DEF Init, NoRun, Vouches, EvidenceIsReal, Signed, Vouched, Running
<1>2. Spec => []Vouches
  BY <1>1, BaseHolds, VouchesStep, PTL DEF Spec
<1>3. Vouches => EvidenceIsReal
  BY DEF Vouches
<1> QED
  BY <1>2, <1>3, PTL

-----------------------------------------------------------------------------
(* Where the gap is closed: the tool actions lead the sequence, and nothing *)
(* stops them before the agent's turn.                                      *)

\* The first n actions are tools', in the context of the worker, the others are not.
LeadsWith(n) ==
    /\ n \in 0 .. Len(Actions) - 1
    /\ \A k \in DOMAIN Actions : IF k <= n THEN Actions[k] \in ToolAction \ FreshAction
                                           ELSE Actions[k] \notin ToolAction

Lead(n) == {Actions[k] : k \in 1 .. n}

\* A tool action that is not completed is still before the active one, behind
\* others of its kind; so none is left when the agent signals.
Waiting(a, n) == \E i \in 1 .. Len(run.before) :
                    run.before[i] = a /\ \A h \in 1 .. i : run.before[h] \in Lead(n)
Led(n) ==
    /\ run.action \notin ToolAction /\ run.failure = None
    /\ signed \cap ToolAction = {}
    /\ done \subseteq ToolAction \/ Lead(n) \subseteq done
    /\ Running => \A a \in Lead(n) : a \in done \/ Waiting(a, n)

LEMMA LedStart == ASSUME Base, NEW n, LeadsWith(n), Led(n), NEW k \in DOMAIN Actions, Start(k) PROVE Led(n)'
<1>1. Actions \in Seq(Action) /\ Len(Actions) \in Nat /\ n \in Nat /\ n < Len(Actions) /\ DOMAIN Actions = 1 .. Len(Actions)
  BY GateAssumption DEF LeadsWith
<1>2. Actions[Len(Actions)] \notin ToolAction /\ Len(Actions) \in DOMAIN Actions
  BY <1>1 DEF LeadsWith
<1> DEFINE pending == {j \in DOMAIN Actions : Actions[j] \notin done}
           space   == IF pending # {} THEN pending ELSE DOMAIN Actions
<1>3. \E j \in space : j > n
  <2>1. CASE pending = {}
    BY <1>1, <1>2, <2>1
  <2>2. ASSUME NEW j \in pending, j <= n PROVE Len(Actions) \in pending
    <3>1. Actions[j] \in Lead(n) /\ Actions[j] \notin done
      BY <1>1, <2>2 DEF Lead
    <3> QED
      BY <1>2, <3>1 DEF Led
  <2> QED
    BY <1>1, <2>1, <2>2
<1>4. Actions[k] \notin ToolAction
  <2>1. k \in Eligible(done) /\ k \in space
    BY DEF Start, Selected, Eligible
  <2>2. \A j \in DOMAIN Actions : j > n => Actions[j] \notin ToolAction
    BY <1>1 DEF LeadsWith
  <2>3. \A j \in DOMAIN Actions : Actions[j] \in FreshAction => j > n
    BY <1>1 DEF LeadsWith
  <2>4. \/ Actions[k] \notin ToolAction \cup FreshAction
        \/ Actions[k] \in FreshAction
        \/ \A j \in space : Actions[j] \in ToolAction \cup FreshAction /\ Actions[j] \notin FreshAction
    BY <2>1 DEF Eligible
  <2> QED
    BY <1>3, <2>2, <2>3, <2>4
<1>5. n < k
  BY <1>1, <1>4 DEF LeadsWith
<1> DEFINE before == SubSeq(Actions, 1, k - 1)
<1>6. Len(before) = k - 1 /\ \A i \in 1 .. k - 1 : before[i] = Actions[i]
  BY <1>1
<1>7. ASSUME NEW a \in Lead(n)
      PROVE  \E i \in 1 .. Len(before) : before[i] = a /\ \A h \in 1 .. i : before[h] \in Lead(n)
  <2>1. PICK i \in 1 .. n : a = Actions[i]
    BY DEF Lead
  <2>2. \A h \in 1 .. i : h \in 1 .. n /\ before[h] = Actions[h]
    BY <1>1, <1>5, <1>6, <2>1
  <2>3. i \in 1 .. Len(before) /\ before[i] = a
    BY <1>1, <1>5, <1>6, <2>1
  <2> QED
    BY <2>2, <2>3 DEF Lead
<1>8. run'.action = Actions[k] /\ run'.failure = None /\ run'.before = before /\ UNCHANGED <<done, signed>>
  BY DEF Start, logVars, history
<1>9. ASSUME NEW a \in Lead(n) PROVE Waiting(a, n)'
  BY <1>7, <1>8, <1>9 DEF Waiting, Lead
<1> HIDE DEF before
<1> QED
  BY <1>4, <1>8, <1>9 DEF Led, Lead

\* The head of the sequence is taken off when its tool has returned.
LEMMA LedReturns ==
    ASSUME Base, NEW n, LeadsWith(n), Led(n), NEW more \in Lists, ToolActionReturns(more)
    PROVE  Led(n)'
<1>1. Running /\ run \in Run /\ ToolIsNext /\ run.before \in Seq(Action) /\ run.before # <<>>
  BY DEF Base, TypeOK, Run, ToolActionReturns, ToolIsNext
<1>2. /\ run'.action = run.action /\ run'.failure = run.failure /\ run'.before = Tail(run.before)
      /\ done' = done \cup {Head(run.before)} /\ signed' = signed
  BY <1>1 DEF ToolActionReturns, KeepResult, Run
<1>3. Head(run.before) \in ToolAction
  BY DEF ToolActionReturns, ToolIsNext
<1>4. ASSUME NEW a \in Lead(n), a \notin done' PROVE Waiting(a, n)'
  <2>1. PICK i \in 1 .. Len(run.before) : run.before[i] = a /\ \A h \in 1 .. i : run.before[h] \in Lead(n)
    BY <1>1, <1>2, <1>4 DEF Led, Waiting
  <2>2. i # 1
    BY <1>1, <1>2, <1>4, <2>1
  <2>3. /\ i - 1 \in 1 .. Len(run'.before) /\ run'.before[i - 1] = a
        /\ \A h \in 1 .. i - 1 : h + 1 \in 1 .. i /\ run'.before[h] = run.before[h + 1]
    BY <1>1, <1>2, <2>1, <2>2
  <2>4. \A h \in 1 .. i - 1 : run'.before[h] \in Lead(n)
    BY <2>1, <2>3
  <2> QED
    BY <2>3, <2>4 DEF Waiting, Lead
<1> QED
  BY <1>1, <1>2, <1>3, <1>4 DEF Led, Lead

\* Once the sequence is over, all the tool actions are completed.
LEMMA LedOver ==
    ASSUME Base, NEW n, LeadsWith(n), Led(n), Running,
           run.before = <<>> \/ Head(run.before) \notin ToolAction \ FreshAction
    PROVE  Lead(n) \subseteq done
<1> SUFFICES ASSUME NEW a \in Lead(n), Waiting(a, n) PROVE FALSE
  BY DEF Led
<1>1. run.before \in Seq(Action)
  BY DEF Base, TypeOK, Run
<1>2. run.before # <<>> /\ run.before[1] \in Lead(n)
  BY <1>1 DEF Waiting
<1>3. PICK k \in 1 .. n : Head(run.before) = Actions[k]
  BY <1>1, <1>2 DEF Lead
<1>4. k \in DOMAIN Actions /\ k <= n
  BY <1>3, GateAssumption DEF LeadsWith
<1> QED
  BY <1>1, <1>2, <1>3, <1>4 DEF LeadsWith

\* A signal of the agent is of an action of its own, after the sequence.
LEMMA LedHandled ==
    ASSUME Base, NEW n, LeadsWith(n), Led(n), Ready, NEW what, Handled(what) \/ Unheard,
           run'.action = run.action, run'.failure = run.failure, run'.before = run.before
    PROVE  Led(n)'
<1>1. Lead(n) \subseteq done
  BY LedOver DEF Ready
<1>2. done \subseteq done' /\ signed' \subseteq signed \cup {run.action}
  BY DEF Handled, Unheard
<1> QED
  BY <1>1, <1>2 DEF Led, Lead

LEMMA LedStep ==
    ASSUME NEW n, LeadsWith(n), Fault \cap {"tool", "log", "agent"} = {}, Base, Led(n), [Next]_vars
    PROVE  Led(n)'
<1>1. run \in Run
  BY DEF Base, TypeOK
<1>2. CASE /\ run'.action = run.action /\ run'.failure = run.failure /\ run'.before = run.before
           /\ UNCHANGED <<done, signed>>
  BY <1>2 DEF Led, Lead, Waiting, Running
<1>3. CASE Session
  <2>1. ASSUME NEW k \in DOMAIN Actions, Start(k) PROVE Led(n)'
    BY <2>1, LedStart
  <2>2. ASSUME NEW more \in [Item -> Level], Framework(more) PROVE Led(n)'
    <3>1. ToolActionReturns(more)
      BY <2>2 DEF Framework, ToolActionFails, ToolActionUnrecorded, Strike
    <3> QED
      BY <3>1, LedReturns DEF Lists
  <2>3. CASE SequenceStops
    <3>1. /\ run'.action = run.action /\ run'.failure = run.failure /\ UNCHANGED <<done, signed>>
          /\ Running /\ Head(run.before) \notin ToolAction \ FreshAction
      BY <1>1, <2>3 DEF SequenceStops, ToolIsNext, Run, logVars, history
    <3>2. Lead(n) \subseteq done
      BY <3>1, LedOver
    <3> QED
      BY <3>1, <3>2 DEF Led, Lead
  <2>4. ~ToolActionThrows /\ ~AgentFails /\ ~FailureSignaled
    BY DEF ToolActionThrows, AgentFails, FailureSignaled, Strike, Led, None
  <2>5. CASE Shutdown \/ Die
    <3>1. run' = NoRun /\ UNCHANGED <<done, signed>>
      BY <2>5 DEF Shutdown, Die, Gone, logVars, history
    <3>2. None \notin ToolAction
      BY GateAssumption
    <3> QED
      BY <3>1, <3>2 DEF Led, Lead, Running, NoRun
  <2> QED
    BY <1>3, <2>1, <2>2, <2>3, <2>4, <2>5 DEF Session
<1>4. ASSUME NEW c \in Call, Begin(c) PROVE Led(n)'
  BY <1>1, <1>2, <1>4
  DEF Begin, Add, Tick, CallTool, PiToolRefused, Complete, RequestRestart, Run, logVars, history
<1>5. ASSUME NEW c \in Call, Posted(c) \/ PostFails(c) PROVE Led(n)'
  <2>1. /\ run'.action = run.action /\ run'.failure = run.failure /\ run'.before = run.before
        /\ call[c].pc # "idle"
    BY <1>1, <1>5 DEF Posted, PostFails, Run
  <2>2. Ready
    BY <2>1, OpenCall
  <2> QED
    BY <1>5, <2>1, <2>2, LedHandled DEF Posted, PostFails, Unheard
<1>6. ASSUME NEW c \in Call, Continue(c) \/ Break(c), ~Posted(c), ~PostFails(c) PROVE Led(n)'
  BY <1>1, <1>2, <1>6
  DEF Continue, AddMerge, AddRecord, TickRecord, ToolReturns, Project, Gate, Break, AddFails, TickFails,
      ToolThrows, Run, logVars, history
<1>7. CASE UNCHANGED vars
  BY <1>2, <1>7 DEF vars, logVars, history
<1> QED
  BY <1>3, <1>4, <1>5, <1>6, <1>7 DEF Next, Continue, Break

\* runParentSequenceActionsBeforeActive: when the state's tool actions come before
\* its other actions, and neither they nor the log nor the agent's turn fails,
\* the harness runs them all before anyone can signal; then no tool action is
\* given to the agent, and the audit's evidence is of tools that have returned.
\* Signals may still get lost, and workers die at any time.
THEOREM LeadingToolsRun ==
    ASSUME NEW n, LeadsWith(n), Fault \cap {"tool", "log", "agent"} = {}
    PROVE  Spec => [](Running => /\ run.action \notin ToolAction
                                 /\ \A t \in Tool : run.results[t] = "passed" => t \in proven)
<1>1. Init => Led(n)
  BY GateAssumption DEF Init, NoRun, Led, Running
<1>2. Base /\ Led(n) /\ [Next]_vars => Led(n)'
  BY LedStep
<1>3. Spec => []Led(n)
  BY <1>1, <1>2, BaseHolds, PTL DEF Spec
<1>4. Led(n) /\ EvidenceIsReal =>
         (Running => /\ run.action \notin ToolAction
                     /\ \A t \in Tool : run.results[t] = "passed" => t \in proven)
  BY DEF Led, EvidenceIsReal, Signed
<1> QED
  BY <1>3, <1>4, EvidenceCorrect, PTL

-----------------------------------------------------------------------------
(* The checklist in memory and the one in the log.                         *)

\* What a record of more items in the log does to the list that is derived from it.
LEMMA RecordFacts ==
    ASSUME TypeOK, NEW a \in Action, NEW more \in Lists,
           added' = [added EXCEPT ![a] = Merge(@, more)]
    PROVE  /\ \A b \in Action : Recovered(b)' \in Lists /\ Covers(Recovered(b)', Recovered(b))
           /\ Covers(Recovered(a)', more)
           /\ \A l \in Lists : Covers(l, Recovered(a)) /\ Covers(l, more) => Covers(l, Recovered(a)')
<1>1. \A b \in Action : Derived(b) \in Lists /\ added[b] \in Lists
  BY DerivedTyped DEF TypeOK, Lists
<1> DEFINE new == Merge(added[a], more)
<1>2. new \in Lists /\ Covers(new, added[a]) /\ Covers(new, more)
      /\ \A z \in Lists : Covers(z, added[a]) /\ Covers(z, more) => Covers(z, new)
  BY <1>1, MergeFacts
<1>3. \A b \in Action : added'[b] = IF b = a THEN new ELSE added[b]
  BY DEF TypeOK
<1> HIDE DEF new
<1>4. \A b \in Action : Recovered(b)' = Merge(Derived(b), added'[b])
  BY DEF Recovered, Derived
<1>5. /\ Merge(Derived(a), new) \in Lists /\ Covers(Merge(Derived(a), new), Derived(a))
      /\ Covers(Merge(Derived(a), new), new)
      /\ \A z \in Lists : Covers(z, Derived(a)) /\ Covers(z, new) => Covers(z, Merge(Derived(a), new))
  BY <1>1, <1>2, MergeFacts
<1>6. /\ Recovered(a) \in Lists /\ Covers(Recovered(a), Derived(a)) /\ Covers(Recovered(a), added[a])
      /\ \A z \in Lists : Covers(z, Derived(a)) /\ Covers(z, added[a]) => Covers(z, Recovered(a))
  BY <1>1, MergeFacts DEF Recovered
<1>7. Covers(Merge(Derived(a), new), added[a]) /\ Covers(Merge(Derived(a), new), more)
  BY <1>1, <1>2, <1>5, CoversFacts
<1>8. Covers(Merge(Derived(a), new), Recovered(a))
  BY <1>5, <1>6, <1>7
<1>9. ASSUME NEW b \in Action, b # a PROVE Recovered(b)' \in Lists /\ Covers(Recovered(b)', Recovered(b))
  BY <1>3, <1>4, <1>9, RecoveredTyped, CoversFacts DEF Recovered
<1>10. ASSUME NEW l \in Lists, Covers(l, Recovered(a)), Covers(l, more) PROVE Covers(l, Merge(Derived(a), new))
  <2>1. Covers(l, Derived(a)) /\ Covers(l, added[a])
    BY <1>1, <1>6, <1>10, CoversFacts
  <2> QED
    BY <1>2, <1>5, <1>10, <2>1
<1> QED
  BY <1>3, <1>4, <1>5, <1>7, <1>8, <1>9, <1>10

\* Nothing but the head of the chain is between memory and the log.
LEMMA OneAtATime ==
    ASSUME Base, NEW c \in Call, Head(queue) = c, NEW d \in Call, call[d].pc = "adding"
    PROVE  d = c
<1>1. PICK k \in 1 .. Len(queue) : queue[k] = d
  BY DEF Base, ChainIsAlive, Pending
<1>2. k = 1 /\ queue \in Seq(Call)
  BY <1>1 DEF Base, ChainIsAlive, TypeOK
<1> QED
  BY <1>1, <1>2

\* The steps that touch no checklist.
SameLists ==
    /\ run'.items = run.items /\ run'.action = run.action /\ UNCHANGED <<added, acked>>
    /\ \A c \in Call : call[c].pc = "adding" \/ call'[c].pc = "adding" => call'[c] = call[c]
    /\ "log" \notin struck' => "log" \notin struck

LEMMA StepKinds ==
    ASSUME Base, Next
    PROVE  \/ SameLists \/ \E k \in DOMAIN Actions : Start(k)
           \/ \E more \in Lists : Framework(more)
           \/ run' = NoRun /\ Gone /\ UNCHANGED <<added, acked>> /\ ("log" \notin struck' => "log" \notin struck)
           \/ \E c \in Call : AddMerge(c) \/ AddRecord(c) \/ AddFails(c)
<1>1. run \in Run /\ call \in [Call -> CallTypes]
  BY TypeParts DEF Base
<1>3. CASE Session
  <2>1. CASE AgentFails \/ FailureSignaled \/ ToolActionThrows \/ SequenceStops
    BY <1>1, <2>1 DEF AgentFails, FailureSignaled, ToolActionThrows, SequenceStops, Strike, SameLists, Run, logVars, history, bounds
  <2>2. CASE Shutdown \/ Die
    BY <2>2 DEF Shutdown, Die, Gone, Strike, logVars, history, bounds
  <2> QED
    BY <1>3, <2>1, <2>2 DEF Session, Lists
<1>4. ASSUME NEW c \in Call, Begin(c) PROVE SameLists
  <2>1. run'.items = run.items /\ run'.action = run.action /\ UNCHANGED <<added, acked, struck>>
    BY <1>1, <1>4 DEF Begin, Add, Tick, CallTool, PiToolRefused, Complete, RequestRestart, Run, logVars, history, bounds
  <2>2. call' = call \/ \E new : call' = [call EXCEPT ![c] = new] /\ new.pc # "adding" /\ call[c] = Idle
    <3>1. ASSUME NEW pc, NEW items, NEW level, NEW what, Open(c, pc, items, level, what), pc # "adding"
          PROVE  \E new : call' = [call EXCEPT ![c] = new] /\ new.pc # "adding" /\ call[c] = Idle
      <4> WITNESS [pc |-> pc, items |-> items, level |-> level, what |-> what]
      <4> QED
        BY <3>1 DEF Open
    <3>2. ASSUME NEW outcome, Complete(c, outcome)
          PROVE  \E new : call' = [call EXCEPT ![c] = new] /\ new.pc # "adding" /\ call[c] = Idle
      <4>1. (IF outcome = "SUCCESS" THEN "projecting" ELSE "posting") # "adding"
        OBVIOUS
      <4> QED
        BY <3>1, <3>2, <4>1 DEF Complete
    <3> QED
      BY <1>4, <3>1, <3>2 DEF Begin, Add, Tick, CallTool, PiToolRefused, RequestRestart
  <2> QED
    BY <1>1, <2>1, <2>2 DEF SameLists, Idle
<1>5. ASSUME NEW c \in Call, Continue(c) \/ Break(c), ~AddMerge(c), ~AddRecord(c), ~AddFails(c) PROVE SameLists
  <2>1. run'.items = run.items /\ run'.action = run.action /\ UNCHANGED <<added, acked>>
    BY <1>1, <1>5 DEF Continue, TickRecord, ToolReturns, Project, Gate, Posted, Break, TickFails,
       ToolThrows, PostFails, Run, logVars, history
  <2>2. "log" \notin struck' => "log" \notin struck
    BY <1>5 DEF Continue, TickRecord, ToolReturns, Project, Gate, Posted, Break, TickFails,
       ToolThrows, PostFails, Strike, bounds, history
  <2>3. call[c].pc # "adding"
    BY <1>5 DEF Continue, TickRecord, ToolReturns, Project, Gate, Posted, Break, TickFails,
       ToolThrows, PostFails
  <2>4. call'[c].pc # "adding" /\ \A d \in Call : d # c => call'[d] = call[d]
    BY <1>1, <1>5 DEF Continue, TickRecord, ToolReturns, Project, Gate, Posted, Break, TickFails,
       ToolThrows, PostFails, Return, MoveTo, Idle, CallTypes
  <2> QED
    BY <2>1, <2>2, <2>3, <2>4 DEF SameLists
<1> QED
  BY <1>3, <1>4, <1>5 DEF Next, Continue, Break

\* An addition is in memory before it is recorded.
Known ==
    /\ RunKnowsItems
    /\ \A c \in Call : call[c].pc = "adding" => Covers(run.items, Addition(c))

LEMMA KnownFramework == ASSUME Base, Known, NEW more \in Lists, Framework(more) PROVE Known'
<1>1. TypeOK /\ Running /\ run.before # <<>> /\ call' = call /\ run \in Run
  BY DEF Base, TypeOK, Framework, ToolIsNext, ToolActionReturns, ToolActionFails, ToolActionUnrecorded
<1> SUFFICES ASSUME NEW a \in Action, a = run.action PROVE Known'
  BY <1>1 DEF Running, Run
<1>2. run.items \in Lists
  BY <1>1 DEF Run, Lists
<1>3. run'.items = Merge(run.items, more) /\ run'.action = a
  BY <1>1 DEF KeepResult, Framework, ToolActionReturns, ToolActionFails, ToolActionUnrecorded, Run
<1>4. Covers(run.items, Recovered(a)) /\ Recovered(a) \in Lists
  BY <1>1, <1>2, RecoveredTyped DEF Known, RunKnowsItems
<1>5. run'.items \in Lists /\ Covers(run'.items, run.items) /\ Covers(run'.items, more)
  BY <1>2, <1>3, MergeFacts
<1>6. Covers(run'.items, Recovered(a))
  BY <1>2, <1>4, <1>5, CoversFacts
<1>7. Covers(run'.items, Recovered(a)')
  <2>1. CASE added' = [added EXCEPT ![a] = Merge(@, more)]
    BY <1>1, <1>2, <1>5, <1>6, <2>1, RecordFacts
  <2>2. CASE added' = added
    BY <1>6, <2>2 DEF Recovered, Derived
  <2>3. added' = added \/ added' = [added EXCEPT ![a] = Merge(@, more)]
    BY <1>1 DEF Framework, ToolActionReturns, ToolActionFails, ToolActionUnrecorded, AddFromTool, TypeOK
  <2> QED
    BY <2>1, <2>2, <2>3
<1>8. \A c \in Call : call'[c].pc # "adding"
  BY <1>1 DEF Base, Quiet, Ready, Idle
<1> QED
  BY <1>3, <1>7, <1>8 DEF Known, RunKnowsItems, Recovered, Derived

\* The steps of an addition, up to its record.
LEMMA KnownAdd ==
    ASSUME Base, Known, NEW c \in Call, AddMerge(c) \/ AddRecord(c) \/ AddFails(c)
    PROVE  Known'
<1>1. call[c].pc # "idle"
  BY DEF AddMerge, AddRecord, AddFails
<1> SUFFICES ASSUME NEW a \in Action, a = run.action PROVE Known'
  BY <1>1, OpenCall
<1>2. TypeOK /\ Running /\ run \in Run /\ run.items \in Lists /\ Addition(c) \in Lists
      /\ call \in [Call -> CallTypes]
  BY <1>1, OpenCall, AdditionTyped, TypeParts DEF Base, Run, Lists, AddMerge, AddRecord, AddFails
<1>3. Covers(run.items, Recovered(a)) /\ Recovered(a) \in Lists
  BY <1>2, RecoveredTyped DEF Known, RunKnowsItems
<1>4. CASE AddMerge(c)
  <2>1. run'.items = Merge(run.items, Addition(c)) /\ run'.action = a /\ added' = added
    BY <1>2, <1>4 DEF AddMerge, Run, logVars, history
  <2>2. run'.items \in Lists /\ Covers(run'.items, run.items) /\ Covers(run'.items, Addition(c))
    BY <1>2, <2>1, MergeFacts
  <2>3. Covers(run'.items, Recovered(a))
    BY <1>2, <1>3, <2>2, CoversFacts
  <2>4. RunKnowsItems'
    BY <2>1, <2>3 DEF RunKnowsItems, Recovered, Derived
  <2>5. ASSUME NEW d \in Call, call'[d].pc = "adding" PROVE Covers(run'.items, Addition(d)')
    <3>1. Addition(d)' = Addition(d) /\ (d = c \/ call[d].pc = "adding")
      BY <1>2, <1>4, <2>5 DEF AddMerge, Return, MoveTo, Addition, Idle, CallTypes
    <3>2. d = c \/ Covers(run.items, Addition(d))
      BY <3>1 DEF Known
    <3>3. Addition(d) \in Lists
      BY <1>2, AdditionTyped
    <3> QED
      BY <1>2, <2>2, <3>1, <3>2, <3>3, CoversFacts
  <2> QED
    BY <2>4, <2>5 DEF Known
<1>5. CASE AddRecord(c) \/ AddFails(c)
  <2>1. run' = run /\ Covers(run.items, Addition(c)) /\ (added' = added \/ Recorded(c)) /\ Return(c)
    BY <1>5 DEF AddRecord, AddFails, Known
  <2>2. Covers(run.items, Recovered(a)')
    <3>1. CASE added' = added
      BY <1>3, <3>1 DEF Recovered, Derived
    <3>2. CASE Recorded(c)
      BY <1>2, <1>3, <2>1, <3>2, RecordFacts DEF Recorded
    <3> QED
      BY <2>1, <3>1, <3>2
  <2>3. RunKnowsItems'
    BY <2>1, <2>2 DEF RunKnowsItems, Recovered, Derived
  <2>4. ASSUME NEW d \in Call, call'[d].pc = "adding" PROVE Covers(run'.items, Addition(d)')
    BY <1>2, <2>1, <2>4 DEF Known, Return, Idle, Addition
  <2> QED
    BY <2>3, <2>4 DEF Known
<1> QED
  BY <1>4, <1>5

LEMMA KnownStep == Base /\ Known /\ [Next]_vars => Known'
<1>1. ASSUME Known, UNCHANGED vars PROVE Known'
  BY <1>1 DEF Known, RunKnowsItems, Running, Recovered, Derived, Addition, vars, logVars, history
<1> SUFFICES ASSUME Base, Known, Next PROVE Known'
  BY <1>1
<1>2. CASE SameLists
  BY <1>2 DEF SameLists, Known, RunKnowsItems, Running, Recovered, Derived, Addition
<1>3. ASSUME NEW k \in DOMAIN Actions, Start(k) PROVE Known'
  <2> DEFINE a == Actions[k]
  <2>0. a \in Action
    BY Positions
  <2>1. run'.action = a /\ run'.items = Recovered(a) /\ added' = added /\ call' = call
    BY <1>3 DEF Start, logVars, history
  <2>2. Covers(Recovered(a), Recovered(a))
    BY <2>0, RecoveredTyped, CoversFacts DEF Base
  <2>3. \A c \in Call : call[c].pc # "adding"
    BY <1>3 DEF Start, Base, Quiet, Ready, Idle
  <2> QED
    BY <2>1, <2>2, <2>3 DEF Known, RunKnowsItems, Recovered, Derived
<1>4. CASE run' = NoRun /\ Gone
  BY <1>4 DEF NoRun, Gone, Known, RunKnowsItems, Running, Idle
<1> QED
  BY <1>2, <1>3, <1>4, KnownFramework, KnownAdd, StepKinds

\* initializeWorkerRun and addChecklistItem: whatever a new worker would find
\* mandatory is mandatory for the worker that runs, so that neither a restart nor
\* a failed record lets an item past the gate that would have stopped it.
THEOREM RunKnowsItemsCorrect == Spec => []RunKnowsItems
<1>1. Init => Known
  BY DEF Init, NoRun, Known, RunKnowsItems, Running, Idle
<1>2. Spec => []Known
  BY <1>1, BaseHolds, KnownStep, PTL DEF Spec
<1>3. Known => RunKnowsItems
  BY DEF Known
<1> QED
  BY <1>2, <1>3, PTL

\* What is in memory is in the log, or about to be.
Backed ==
    "log" \notin struck /\ Running => \A i \in Item :
        \/ Rank[run.items[i]] <= Rank[Recovered(run.action)[i]]
        \/ \E c \in Call : call[c].pc = "adding" /\ Rank[run.items[i]] <= Rank[Addition(c)[i]]

KeepsItems == AddedIsEnforced /\ Backed

\* Without an addition on its way, the log has all that is in memory.
LEMMA BackedAlone ==
    ASSUME TypeOK, Backed, "log" \notin struck, Running, \A c \in Call : call[c].pc # "adding"
    PROVE  Covers(Recovered(run.action), run.items)
<1>1. run.action \in Action /\ run.items \in Lists
  BY DEF TypeOK, Run, Running, Lists
<1>2. \A i \in Item : Rank[run.items[i]] \in Nat /\ Rank[Recovered(run.action)[i]] \in Nat
  <2>1. Recovered(run.action) \in Lists
    BY <1>1, RecoveredTyped
  <2> QED
    BY <1>1, <2>1, StrongerFacts DEF Lists
<1> QED
  BY <1>2 DEF Backed, Covers

\* A call returns PASSED when the log has what it has added.
LEMMA Acknowledged ==
    ASSUME TypeOK, NEW a \in Action, NEW more \in Lists,
           acked' = [acked EXCEPT ![a] = Merge(@, more)],
           \A b \in Action : Recovered(b)' \in Lists /\ Covers(Recovered(b)', acked[b]),
           Covers(Recovered(a)', more)
    PROVE  \A b \in Action : Covers(Recovered(b)', acked'[b])
<1>1. acked \in [Action -> Lists]
  BY DEF TypeOK, Lists
<1>2. Covers(Recovered(a)', Merge(acked[a], more))
  BY <1>1, MergeFacts
<1> QED
  BY <1>1, <1>2

\* The same for more items, whether the log is written for them or has them.
LEMMA AddedFacts ==
    ASSUME TypeOK, NEW a \in Action, a = run.action, NEW more \in Lists, NEW items \in Lists,
           AddedIsEnforced, "log" \notin struck, "log" \notin struck',
           acked' = [acked EXCEPT ![a] = Merge(@, more)],
           \/ added' = [added EXCEPT ![a] = Merge(@, more)]
           \/ added' = added /\ Covers(Recovered(a), items) /\ Covers(items, more)
    PROVE  /\ AddedIsEnforced'
           /\ Recovered(a)' \in Lists /\ Covers(Recovered(a)', Recovered(a)) /\ Covers(Recovered(a)', more)
<1>1. \A b \in Action : Recovered(b) \in Lists /\ acked[b] \in Lists
  BY RecoveredTyped DEF TypeOK, Lists
<1>2. \A b \in Action : Recovered(b)' \in Lists /\ Covers(Recovered(b)', Recovered(b))
  <2>1. CASE added' = added
    <3>1. \A b \in Action : Recovered(b)' = Recovered(b)
      BY <2>1 DEF Recovered, Derived
    <3> QED
      BY <1>1, <3>1, CoversFacts
  <2>2. CASE added' = [added EXCEPT ![a] = Merge(@, more)]
    BY <2>2, RecordFacts
  <2> QED
    BY <2>1, <2>2
<1>3. Covers(Recovered(a)', more)
  <2>1. CASE added' = added /\ Covers(Recovered(a), items) /\ Covers(items, more)
    BY <1>1, <1>2, <2>1, CoversFacts
  <2>2. CASE added' = [added EXCEPT ![a] = Merge(@, more)]
    BY <2>2, RecordFacts
  <2> QED
    BY <2>1, <2>2
<1>4. \A b \in Action : Covers(Recovered(b)', acked[b])
  BY <1>1, <1>2, CoversFacts DEF AddedIsEnforced
<1>5. AddedIsEnforced'
  BY <1>2, <1>3, <1>4, Acknowledged DEF AddedIsEnforced
<1> QED
  BY <1>2, <1>3, <1>5

LEMMA KeepsFramework == ASSUME Base, KeepsItems, NEW more \in Lists, Framework(more) PROVE KeepsItems'
<1>1. TypeOK /\ Running /\ run.before # <<>> /\ call' = call /\ run \in Run
  BY DEF Base, TypeOK, Framework, ToolIsNext, ToolActionReturns, ToolActionFails, ToolActionUnrecorded
<1> SUFFICES ASSUME NEW a \in Action, a = run.action, "log" \notin struck' PROVE KeepsItems'
  BY <1>1 DEF Running, Run, KeepsItems, AddedIsEnforced, Backed
<1>2. AddFromTool(more) /\ "log" \notin struck
  BY <1>1 DEF Framework, ToolActionReturns, ToolActionFails, ToolActionUnrecorded, Strike, bounds, history
<1>3. run'.items = Merge(run.items, more) /\ run'.action = a
  BY <1>1 DEF KeepResult, Framework, ToolActionReturns, ToolActionFails, ToolActionUnrecorded, Run
<1>4. \A c \in Call : call[c].pc # "adding"
  BY <1>1 DEF Base, Quiet, Ready, Idle
<1>5. run.items \in Lists /\ Covers(Recovered(a), run.items) /\ Recovered(a) \in Lists
  BY <1>1, <1>2, <1>4, BackedAlone, RecoveredTyped DEF KeepsItems, Run, Lists
<1>6. /\ acked' = [acked EXCEPT ![a] = Merge(@, more)]
      /\ \/ added' = [added EXCEPT ![a] = Merge(@, more)]
         \/ added' = added /\ Merge(run.items, more) = run.items
  BY <1>1, <1>2 DEF AddFromTool, TypeOK
<1>7. Covers(Merge(run.items, more), more)
  BY <1>5, MergeFacts
<1>8. /\ AddedIsEnforced'
      /\ Recovered(a)' \in Lists /\ Covers(Recovered(a)', Recovered(a)) /\ Covers(Recovered(a)', more)
  BY <1>1, <1>2, <1>5, <1>6, <1>7, AddedFacts DEF KeepsItems
<1>9. Covers(Recovered(a)', run'.items)
  BY <1>3, <1>5, <1>8, CoversFacts, MergeFacts
<1>10. Backed'
  <2>1. run'.items \in Lists
    BY <1>3, <1>5, MergeFacts
  <2>2. \A i \in Item : Rank[run'.items[i]] \in Nat /\ Rank[Recovered(a)'[i]] \in Nat
    BY <1>8, <2>1, StrongerFacts DEF Lists
  <2>3. \A i \in Item : Rank[run'.items[i]] <= Rank[Recovered(a)'[i]]
    BY <1>9, <2>2 DEF Covers
  <2> QED
    BY <1>3, <2>3 DEF Backed, Recovered, Derived
<1> QED
  BY <1>8, <1>10 DEF KeepsItems

LEMMA KeepsAdd ==
    ASSUME Base, KeepsItems, NEW c \in Call, AddMerge(c) \/ AddRecord(c) \/ AddFails(c)
    PROVE  KeepsItems'
<1>1. call[c].pc # "idle"
  BY DEF AddMerge, AddRecord, AddFails
<1> SUFFICES ASSUME NEW a \in Action, a = run.action, "log" \notin struck' PROVE KeepsItems'
  BY <1>1, OpenCall DEF KeepsItems, AddedIsEnforced, Backed
<1>2. /\ TypeOK /\ Running /\ run \in Run /\ run.items \in Lists /\ Addition(c) \in Lists
      /\ call \in [Call -> CallTypes] /\ Recovered(a) \in Lists
  BY <1>1, OpenCall, AdditionTyped, RecoveredTyped, TypeParts
  DEF Base, Run, Lists, AddMerge, AddRecord, AddFails
<1>3. "log" \notin struck /\ (AddMerge(c) \/ AddRecord(c)) /\ Head(queue) = c
  BY <1>1, OpenCall DEF AddMerge, AddRecord, AddFails, Strike, Pending, bounds, history
<1>4. \A d \in Call : call[d].pc = "adding" => d = c
  BY <1>3, OneAtATime
<1>5. \A i \in Item : /\ Rank[run.items[i]] \in Nat /\ Rank[Addition(c)[i]] \in Nat
                      /\ Rank[Recovered(a)[i]] \in Nat
  BY <1>2, StrongerFacts DEF Lists
<1>6. CASE AddMerge(c)
  <2>1. Covers(Recovered(a), run.items)
    BY <1>2, <1>3, <1>4, <1>6, BackedAlone DEF AddMerge, KeepsItems
  <2>2. added' = added /\ run'.action = a /\ run'.items = Merge(run.items, Addition(c))
    BY <1>2, <1>6 DEF AddMerge, Run, logVars, history
  <2>3. \A b \in Action : Recovered(b)' = Recovered(b)
    BY <2>2 DEF Recovered, Derived
  <2>4. CASE Merge(run.items, Addition(c)) = run.items
    <3>1. acked' = [acked EXCEPT ![a] = Merge(@, Addition(c))]
      BY <1>6, <2>4 DEF AddMerge, Acknowledge
    <3>2. Covers(run.items, Addition(c))
      BY <1>2, <2>4, MergeFacts
    <3>3. AddedIsEnforced'
      BY <1>2, <1>3, <2>1, <2>2, <3>1, <3>2, AddedFacts DEF KeepsItems
    <3>4. Backed'
      BY <1>5, <2>1, <2>2, <2>3, <2>4 DEF Backed, Covers
    <3> QED
      BY <3>3, <3>4 DEF KeepsItems
  <2>5. CASE Merge(run.items, Addition(c)) # run.items
    <3>1. acked' = acked /\ call' = [call EXCEPT ![c].pc = "adding"]
      BY <1>6, <2>5 DEF AddMerge, MoveTo
    <3>2. call'[c].pc = "adding" /\ Addition(c)' = Addition(c)
      BY <1>2, <3>1 DEF Addition, CallTypes
    <3>3. ASSUME NEW i \in Item
          PROVE  \/ Rank[run'.items[i]] <= Rank[Recovered(a)[i]]
                 \/ Rank[run'.items[i]] <= Rank[Addition(c)[i]]
      <4>1. run'.items[i] = run.items[i] \/ run'.items[i] = Addition(c)[i]
        BY <2>2 DEF Merge, Stronger
      <4> QED
        BY <1>5, <2>1, <4>1 DEF Covers
    <3>4. Backed'
      BY <2>2, <2>3, <3>2, <3>3 DEF Backed
    <3>5. AddedIsEnforced'
      BY <1>3, <2>3, <3>1 DEF KeepsItems, AddedIsEnforced
    <3> QED
      BY <3>4, <3>5 DEF KeepsItems
  <2> QED
    BY <2>4, <2>5
<1>7. CASE AddRecord(c)
  <2>1. /\ added' = [added EXCEPT ![a] = Merge(@, Addition(c))]
        /\ acked' = [acked EXCEPT ![a] = Merge(@, Addition(c))] /\ run' = run
    BY <1>7 DEF AddRecord, Recorded, Acknowledge
  <2>2. /\ AddedIsEnforced'
        /\ Recovered(a)' \in Lists /\ Covers(Recovered(a)', Recovered(a)) /\ Covers(Recovered(a)', Addition(c))
    BY <1>2, <1>3, <2>1, AddedFacts DEF KeepsItems
  <2>3. \A i \in Item : Rank[Recovered(a)'[i]] \in Nat
    BY <2>2, StrongerFacts DEF Lists
  <2>4. ASSUME NEW i \in Item PROVE Rank[run.items[i]] <= Rank[Recovered(a)'[i]]
    <3>1. \/ Rank[run.items[i]] <= Rank[Recovered(a)[i]]
          \/ Rank[run.items[i]] <= Rank[Addition(c)[i]]
      BY <1>2, <1>3, <1>4 DEF KeepsItems, Backed
    <3> QED
      BY <1>5, <2>2, <2>3, <3>1 DEF Covers
  <2>5. Backed'
    BY <2>1, <2>4 DEF Backed, Recovered, Derived
  <2> QED
    BY <2>2, <2>5 DEF KeepsItems
<1> QED
  BY <1>3, <1>6, <1>7

LEMMA KeepsStep == Base /\ KeepsItems /\ [Next]_vars => KeepsItems'
<1>1. ASSUME KeepsItems, UNCHANGED vars PROVE KeepsItems'
  BY <1>1 DEF KeepsItems, AddedIsEnforced, Backed, Running, Recovered, Derived, Addition, vars, logVars, history, bounds
<1> SUFFICES ASSUME Base, KeepsItems, Next PROVE KeepsItems'
  BY <1>1
<1>2. CASE SameLists
  <2>1. AddedIsEnforced'
    BY <1>2 DEF SameLists, KeepsItems, AddedIsEnforced, Recovered, Derived
  <2>2. \A c \in Call : call[c].pc = "adding" => call'[c].pc = "adding" /\ Addition(c)' = Addition(c)
    BY <1>2 DEF SameLists, Addition
  <2>3. Backed'
    BY <1>2, <2>2 DEF SameLists, KeepsItems, Backed, Running, Recovered, Derived
  <2> QED
    BY <2>1, <2>3 DEF KeepsItems
<1>3. ASSUME NEW k \in DOMAIN Actions, Start(k) PROVE KeepsItems'
  <2> DEFINE a == Actions[k]
  <2>0. a \in Action
    BY Positions
  <2>1. run'.action = a /\ run'.items = Recovered(a) /\ UNCHANGED <<added, acked, struck>>
    BY <1>3 DEF Start, logVars, history
  <2>2. \A i \in Item : Rank[Recovered(a)[i]] \in Nat
    BY <2>0, RecoveredTyped, StrongerFacts DEF Base, Lists
  <2>3. Backed'
    BY <2>1, <2>2 DEF Backed, Recovered, Derived
  <2> QED
    BY <2>1, <2>3 DEF KeepsItems, AddedIsEnforced, Recovered, Derived
<1>4. CASE run' = NoRun /\ UNCHANGED <<added, acked>> /\ ("log" \notin struck' => "log" \notin struck)
  BY <1>4 DEF NoRun, KeepsItems, AddedIsEnforced, Backed, Running, Recovered, Derived
<1> QED
  BY <1>2, <1>3, <1>4, KeepsFramework, KeepsAdd, StepKinds

\* addChecklistItem: an addition that the agent was told of is in the log by
\* then, also when the worker answered from memory because another call had
\* added the item; while the log can be written, no restart forgets it.
THEOREM AddedIsEnforcedCorrect == Spec => []AddedIsEnforced
<1>1. Init => KeepsItems
  <2>1. ASSUME Init PROVE AddedIsEnforced
    <3>1. \A a \in Action : acked[a] = added[a] /\ added[a] \in Lists
      BY <2>1, EmptyTyped DEF Init
    <3> QED
      BY <3>1, DerivedTyped, MergeFacts DEF AddedIsEnforced, Recovered
  <2> QED
    BY <2>1 DEF Init, NoRun, KeepsItems, Backed, Running
<1>2. Spec => []KeepsItems
  BY <1>1, BaseHolds, KeepsStep, PTL DEF Spec
<1>3. KeepsItems => AddedIsEnforced
  BY DEF KeepsItems
<1> QED
  BY <1>2, <1>3, PTL
=============================================================================
