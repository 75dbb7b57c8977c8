------------------------------ MODULE WorkerRun ------------------------------
(***************************************************************************)
(* A worker process and the gate of signal_completion.  The agent's tool   *)
(* calls run side by side; they add and tick checklist items, run project  *)
(* tools, and signal an outcome, which the gate lets through as SUCCESS    *)
(* only when the mandatory items are ticked and the required tools have    *)
(* not failed.  The checklist lives twice: in the memory of the worker and *)
(* in the event log, from which the next worker of the bead derives it.    *)
(*                                                                         *)
(* One bead in one state of the statechart.  The coordinator is reduced to *)
(* what it does with a signal (see Harness) and the start of a new worker  *)
(* once the last one has gone.  A step stands for the code between two     *)
(* awaits; a call that is refused before it changes anything is no step.   *)
(***************************************************************************)
EXTENDS Naturals, Sequences

CONSTANTS
    Action,         \* actions of the state
    Actions,        \* their sequence
    ToolAction,     \* those of type tool
    FreshAction,    \* those that want a fresh context
    Tool,           \* project tools
    ToolOf,         \* [ToolAction -> Tool]
    External,       \* the tools registered with Pi itself, which the harness observes
    RequiredTool,   \* requiredTools of the state
    RuleOf,         \* [Tool -> SUBSET (Tool \X {"CALLED", "SUCCEEDED"})], validationRules
    Item,           \* texts of checklist items
    GateItems,      \* [Item -> Level], of the validation gates that apply to the state
    StateItems,     \* [Item -> Level], of the state's checklist
    ActionItems,    \* [Action -> [Item -> Level]], of its actions' checklists
    Outcome,        \* outcomes the state has edges for
    Call,           \* tool calls the agent may have open at a time
    RestartCompletes, \* no workflowVersion: a recorded restart completes its action
    Fault,          \* what may go wrong
    MaxFaults,      \* bound on how often
    MaxSessions     \* bound on the workers of the bead

None == "none"
Level == {"absent", "optional", "mandatory"}
FaultKinds == {"log", "signal", "tool", "death", "agent"}

ASSUME GateAssumption ==
    /\ None \notin Action /\ Actions \in Seq(Action) /\ ToolOf \in [ToolAction -> Tool]
    /\ ToolAction \subseteq Action /\ FreshAction \subseteq Action
    /\ External \subseteq Tool /\ RequiredTool \subseteq Tool
    /\ RuleOf \in [Tool -> SUBSET (Tool \X {"CALLED", "SUCCEEDED"})]
    /\ GateItems \in [Item -> Level] /\ StateItems \in [Item -> Level]
    /\ ActionItems \in [Action -> [Item -> Level]]
    /\ "SUCCESS" \in Outcome /\ RestartCompletes \in BOOLEAN
    /\ Fault \subseteq FaultKinds /\ MaxFaults \in Nat /\ MaxSessions \in Nat

VARIABLES
    \* The event log, as projected.
    ticked,     \* items ticked for the bead, whatever the action
    added,      \* [Action -> [Item -> Level]], items added while it was active
    done,       \* completed actions
    \* The worker process.
    run,        \* activeRun, the recorded tool results and the process's end
    call,       \* [Call -> where an open tool call stands]
    queue,      \* the calls chained on checklistMutationQueue
    \* Bounds and history.
    sessions, mishaps,
    struck,     \* the kinds of faults that have happened
    acked,      \* [Action -> [Item -> Level]], additions whose call returned PASSED
    proven,     \* tools that have returned without failure for this bead
    signed      \* actions completed by a signal of their worker

logVars == <<ticked, added, done>>
bounds == <<sessions, mishaps, struck>>
history == <<acked, proven, signed>>
vars == <<logVars, run, call, queue, bounds, history>>

Result == {None, "plain", "passed", "failed"}   \* plain: neither failed nor stated to have passed

Run == [action : Action \cup {None}, items : [Item -> Level], results : [Tool -> Result],
        before : Seq(Action),                   \* actions still to run at session start
        failure : {None, "signaling", "signaled"},  \* agentFailureSignaled
        closing : BOOLEAN]                      \* the shutdown timer is set

NoRun == [action |-> None, items |-> [i \in Item |-> "absent"], results |-> [t \in Tool |-> None],
          before |-> <<>>, failure |-> None, closing |-> FALSE]

CallPC == {"idle", "queued", "adding", "ticking", "projecting", "gate", "posting", "running"}
Idle == [pc |-> "idle", items |-> {}, level |-> "absent", what |-> None]

TypeOK ==
    /\ ticked \subseteq Item /\ added \in [Action -> [Item -> Level]]
    /\ done \subseteq Action
    /\ run \in Run
    /\ call \in [Call -> [pc : CallPC, items : SUBSET Item, level : Level,
                          what : Outcome \cup {"RESTART"} \cup Tool \cup {None}]]
    /\ queue \in Seq(Call) /\ sessions \in 0 .. MaxSessions /\ mishaps \in 0 .. MaxFaults /\ struck \subseteq Fault
    /\ acked \in [Action -> [Item -> Level]] /\ proven \subseteq Tool /\ signed \subseteq Action

-----------------------------------------------------------------------------
(* Checklists: a mandatory mention of an item wins over an optional one.   *)

Rank == [l \in Level |-> IF l = "absent" THEN 0 ELSE IF l = "optional" THEN 1 ELSE 2]
Stronger(x, y) == IF Rank[x] >= Rank[y] THEN x ELSE y
Covers(list, part) == \A i \in Item : Rank[list[i]] >= Rank[part[i]]
Merge(list, more) == [i \in Item |-> Stronger(list[i], more[i])]

Derived(a) == Merge(Merge(GateItems, StateItems), ActionItems[a])
Recovered(a) == Merge(Derived(a), added[a])
Mandatory(list) == {i \in Item : list[i] = "mandatory"}
Missing(list, ticks) == Mandatory(list) \ ticks

\* Mutant: the action itself is kept as its tool's result.
EvidenceOfAction(completed) ==
    [t \in Tool |-> IF \E a \in ToolAction \cap completed : ToolOf[a] = t
                    THEN CHOOSE a \in ToolAction \cap completed : ToolOf[a] = t ELSE None]

\* seedCompletedActionToolEvidence: a completed tool action vouches for its tool.
Evidence(completed) ==
    [t \in Tool |-> IF \E a \in ToolAction \cap completed : ToolOf[a] = t THEN "passed" ELSE None]

-----------------------------------------------------------------------------

Init ==
    /\ ticked = {} /\ added = [a \in Action |-> [i \in Item |-> "absent"]] /\ done = {}
    /\ run = NoRun /\ call = [c \in Call |-> Idle] /\ queue = <<>>
    /\ sessions = 0 /\ mishaps = 0 /\ struck = {}
    /\ acked = [a \in Action |-> [i \in Item |-> "absent"]] /\ proven = {} /\ signed = {}

Strike(f) ==
    /\ f \in Fault /\ mishaps < MaxFaults
    /\ mishaps' = mishaps + 1 /\ struck' = struck \cup {f} /\ UNCHANGED sessions

Running == run.action # None

\* The agent's turn: the session has started, its tools can be called.
Ready == Running /\ run.before = <<>>

\* Where a worker may begin when the actions in completed are: at a pending one,
\* or at any when none is; at prompts before actions that want a fresh context,
\* and at the tool actions when there is nothing else.
Eligible(completed) ==
    LET pending == {k \in DOMAIN Actions : Actions[k] \notin completed}
        space   == IF pending # {} THEN pending ELSE DOMAIN Actions
        prompts == {k \in space : Actions[k] \notin ToolAction \cup FreshAction}
        fresh   == {k \in space : Actions[k] \in FreshAction}
    IN  IF prompts # {} THEN prompts ELSE IF fresh # {} THEN fresh ELSE space

\* selectActiveAction: the first of these, which may be a tool action.
Selected(k) == k \in Eligible(done) /\ \A j \in Eligible(done) : k <= j

\* Mutant: without the items of earlier workers.
StartConfigured(k) ==
    /\ ~Running /\ sessions < MaxSessions /\ Selected(k)
    /\ run' = [action |-> Actions[k], items |-> Derived(Actions[k]), results |-> Evidence(done),
               before |-> SubSeq(Actions, 1, k - 1), failure |-> None, closing |-> FALSE]
    /\ sessions' = sessions + 1
    /\ UNCHANGED <<logVars, call, queue, mishaps, struck, history>>

\* initializeWorkerRun; the actions before the active one are run afterwards,
\* those that have been completed too.
Start(k) ==
    /\ ~Running /\ sessions < MaxSessions /\ Selected(k)
    /\ run' = [action |-> Actions[k], items |-> Recovered(Actions[k]), results |-> Evidence(done),
               before |-> SubSeq(Actions, 1, k - 1), failure |-> None, closing |-> FALSE]
    /\ sessions' = sessions + 1
    /\ UNCHANGED <<logVars, call, queue, mishaps, struck, history>>

\* The framework tool calls of a tool's result: the items they add.
AddFromTool(more) ==
    /\ added' = [added EXCEPT ![run.action] = IF Merge(run.items, more) # run.items
                                              THEN Merge(@, more) ELSE @]
    /\ acked' = [acked EXCEPT ![run.action] = Merge(@, more)]

\* The next of the actions before the active one is for the harness to run.
ToolIsNext == Running /\ run.before # <<>> /\ Head(run.before) \in ToolAction \ FreshAction
NextTool == ToolOf[Head(run.before)]

\* What the step of a tool action makes of activeRun: its result is kept, and the
\* actions in rest are still to run.
KeepResult(r, more, rest) ==
    run' = [run EXCEPT !.results[NextTool] = r, !.items = Merge(@, more), !.before = rest]

Proves(r, t) == proven' = IF r = "failed" THEN proven ELSE proven \cup {t}

\* runParentSequenceActionsBeforeActive: the result is kept, its framework tool
\* calls are made, and the action counts as completed.
ToolActionReturns(more) ==
    /\ ToolIsNext
    /\ \E r \in {"plain", "passed"} : KeepResult(r, more, Tail(run.before)) /\ Proves(r, NextTool)
    /\ AddFromTool(more)
    /\ done' = done \cup {Head(run.before)}
    /\ UNCHANGED <<ticked, call, queue, bounds, signed>>

\* Mutant: the action counts as completed before its result is looked at.
ToolActionFailsDone(more) ==
    /\ ToolIsNext /\ Strike("tool")
    /\ \E r \in {"plain", "passed", "failed"} : KeepResult(r, more, <<>>) /\ Proves(r, NextTool)
    /\ AddFromTool(more)
    /\ done' = done \cup {Head(run.before)}
    /\ UNCHANGED <<ticked, call, queue, signed>>

\* The result is a failure, or one of its framework tool calls is refused: the
\* exception ends the sequence; Pi reports it and lets the agent go on.
ToolActionFails(more) ==
    /\ ToolIsNext /\ Strike("tool")
    /\ \E r \in {"plain", "passed", "failed"} : KeepResult(r, more, <<>>) /\ Proves(r, NextTool)
    /\ AddFromTool(more)
    /\ UNCHANGED <<ticked, done, call, queue, signed>>

\* So does a failed record, of the item or of the completion.
ToolActionUnrecorded(more) ==
    /\ ToolIsNext /\ Strike("log")
    /\ \E r \in {"plain", "passed"} : KeepResult(r, more, <<>>) /\ Proves(r, NextTool)
    /\ AddFromTool(more) \/ UNCHANGED <<added, acked>>
    /\ UNCHANGED <<ticked, done, call, queue, signed>>

\* So does a prompt or an action that wants a fresh context.
SequenceStops ==
    /\ Running /\ run.before # <<>> /\ ~ToolIsNext
    /\ run' = [run EXCEPT !.before = <<>>]
    /\ UNCHANGED <<logVars, call, queue, bounds, history>>

\* So does a tool that throws, or is not configured: there is no result.
ToolActionThrows ==
    /\ ToolIsNext /\ Strike("tool")
    /\ run' = [run EXCEPT !.before = <<>>]
    /\ UNCHANGED <<logVars, call, queue, history>>

-----------------------------------------------------------------------------
(* Tool calls of the agent.                                                *)

Open(c, pc, items, level, what) ==
    /\ Ready /\ call[c] = Idle
    /\ call' = [call EXCEPT ![c] = [pc |-> pc, items |-> items, level |-> level, what |-> what]]

Return(c) == call' = [call EXCEPT ![c] = Idle]
MoveTo(c, pc) == call' = [call EXCEPT ![c].pc = pc]
Addition(c) == [i \in Item |-> IF i \in call[c].items THEN call[c].level ELSE "absent"]
Acknowledge(c) == acked' = [acked EXCEPT ![run.action] = Merge(@, Addition(c))]

\* add_checklist_item waits for the additions before it, whatever became of them.
Add(c, i, level) ==
    /\ Open(c, "queued", {i}, level, None)
    /\ queue' = Append(queue, c)
    /\ UNCHANGED <<logVars, run, bounds, history>>

\* Mutant: additions do not wait for each other.
AddMergeAtOnce(c) ==
    LET items == Merge(run.items, Addition(c)) IN
    /\ Running /\ call[c].pc = "queued"
    /\ run' = [run EXCEPT !.items = items]
    /\ IF items = run.items
       THEN Acknowledge(c) /\ Return(c) /\ queue' = Tail(queue)
       ELSE MoveTo(c, "adding") /\ UNCHANGED <<queue, acked>>
    /\ UNCHANGED <<logVars, bounds, proven, signed>>

\* addChecklistItemInner: the list in memory is changed before the log is; an
\* item that is there already is acknowledged without a record.
AddMerge(c) ==
    LET items == Merge(run.items, Addition(c)) IN
    /\ Running /\ call[c].pc = "queued" /\ Head(queue) = c
    /\ run' = [run EXCEPT !.items = items]
    /\ IF items = run.items
       THEN Acknowledge(c) /\ Return(c) /\ queue' = Tail(queue)
       ELSE MoveTo(c, "adding") /\ UNCHANGED <<queue, acked>>
    /\ UNCHANGED <<logVars, bounds, proven, signed>>

Recorded(c) == added' = [added EXCEPT ![run.action] = Merge(@, Addition(c))]

AddRecord(c) ==
    /\ Running /\ call[c].pc = "adding"
    /\ Recorded(c) /\ Acknowledge(c) /\ Return(c)
    /\ queue' = Tail(queue)
    /\ UNCHANGED <<ticked, done, run, bounds, proven, signed>>

\* Mutant: a failed addition is not taken off the chain.
AddFailsInQueue(c) ==
    /\ Running /\ call[c].pc = "adding" /\ Strike("log")
    /\ Recorded(c) \/ UNCHANGED added
    /\ Return(c)
    /\ UNCHANGED <<queue, ticked, done, run, history>>

\* The record fails, or one of those that follow it: the call returns an error.
AddFails(c) ==
    /\ Running /\ call[c].pc = "adding" /\ Strike("log")
    /\ Recorded(c) \/ UNCHANGED added
    /\ Return(c) /\ queue' = Tail(queue)
    /\ UNCHANGED <<ticked, done, run, history>>

\* tick_item and tick_items: only items of the current checklist.
Tick(c, items) ==
    /\ items # {} /\ \A i \in items : Running /\ run.items[i] # "absent"
    /\ Open(c, "ticking", items, "absent", None)
    /\ UNCHANGED <<logVars, run, queue, bounds, history>>

\* One event per item, each awaited.
TickRecord(c, i) ==
    /\ Running /\ call[c].pc = "ticking" /\ i \in call[c].items
    /\ ticked' = ticked \cup {i}
    /\ IF call[c].items = {i} THEN Return(c) ELSE call' = [call EXCEPT ![c].items = @ \ {i}]
    /\ UNCHANGED <<added, done, run, queue, bounds, history>>

TickFails(c) ==
    /\ Running /\ call[c].pc = "ticking" /\ Strike("log") /\ Return(c)
    /\ UNCHANGED <<logVars, run, queue, history>>

-----------------------------------------------------------------------------
(* Project tools, and the rules that come before them.                     *)

Satisfied(rule) ==
    IF rule[2] = "CALLED" THEN run.results[rule[1]] # None ELSE run.results[rule[1]] = "passed"

CallTool(c, t) ==
    /\ Running /\ \A rule \in RuleOf[t] : Satisfied(rule)
    /\ Open(c, "running", {}, "absent", t)
    /\ UNCHANGED <<logVars, run, queue, bounds, history>>

\* A refused call of an observed Pi tool counts as a failed one; a refused call of
\* a wrapped tool leaves no trace, and is no step.
PiToolRefused(c, t) ==
    /\ Ready /\ call[c] = Idle /\ t \in External /\ \E rule \in RuleOf[t] : ~Satisfied(rule)
    /\ run' = [run EXCEPT !.results[t] = "failed"]
    /\ UNCHANGED <<logVars, call, queue, bounds, history>>

ToolReturns(c, r) ==
    LET t == call[c].what IN
    /\ Running /\ call[c].pc = "running" /\ (t \in External => r # "plain")
    /\ run' = [run EXCEPT !.results[t] = r] /\ Proves(r, t)
    /\ Return(c)
    /\ UNCHANGED <<logVars, queue, bounds, acked, signed>>

\* The exception of a wrapped tool is caught, and its result stays the old one.
ToolThrows(c) ==
    LET t == call[c].what IN
    /\ Running /\ call[c].pc = "running" /\ Strike("tool")
    /\ run' = [run EXCEPT !.results[t] = IF t \in External THEN "failed" ELSE @]
    /\ Return(c)
    /\ UNCHANGED <<logVars, queue, history>>

-----------------------------------------------------------------------------
(* signal_completion and the restart requests.                             *)

\* Only SUCCESS goes through the gate.
Complete(c, outcome) ==
    /\ Open(c, IF outcome = "SUCCESS" THEN "projecting" ELSE "posting", {}, "absent", outcome)
    /\ UNCHANGED <<logVars, run, queue, bounds, history>>

RequestRestart(c) ==
    /\ Open(c, "posting", {}, "absent", "RESTART")
    /\ UNCHANGED <<logVars, run, queue, bounds, history>>

\* Mutant: what is missing is worked out before the log is read.
ProjectTooEarly(c) ==
    /\ Running /\ call[c].pc = "projecting"
    /\ call' = [call EXCEPT ![c].pc = "gate", ![c].items = Item \ Missing(run.items, ticked)]
    /\ UNCHANGED <<logVars, run, queue, bounds, history>>

\* projectBead: the log is read; the gate goes on in a later turn of the loop.
Project(c) ==
    /\ Running /\ call[c].pc = "projecting"
    /\ call' = [call EXCEPT ![c].pc = "gate", ![c].items = ticked]
    /\ UNCHANGED <<logVars, run, queue, bounds, history>>

Audited == \A t \in RequiredTool : run.results[t] \in {"plain", "passed"}

\* The rest of the gate up to the request is one turn.
Gate(c) ==
    /\ Running /\ call[c].pc = "gate"
    /\ IF Missing(run.items, call[c].items) = {} /\ Audited THEN MoveTo(c, "posting") ELSE Return(c)
    /\ UNCHANGED <<logVars, run, queue, bounds, history>>

\* What the coordinator's handler records of the signal.
Completes(what) == what = "SUCCESS" \/ (what = "RESTART" /\ RestartCompletes)
Handled(what) ==
    /\ done' = IF Completes(what) THEN done \cup {run.action} ELSE done
    /\ signed' = IF Completes(what) THEN signed \cup {run.action} ELSE signed
Unheard == UNCHANGED <<done, signed>>

Posted(c) ==
    /\ Running /\ call[c].pc = "posting"
    /\ Handled(call[c].what) /\ Return(c)
    /\ run' = [run EXCEPT !.closing = TRUE]
    /\ UNCHANGED <<ticked, added, queue, bounds, acked, proven>>

\* No answer, or one that says 500: the agent sees an error, and no timer is set.
PostFails(c) ==
    /\ Running /\ call[c].pc = "posting" /\ Strike("signal")
    /\ Handled(call[c].what) \/ Unheard
    /\ Return(c)
    /\ UNCHANGED <<ticked, added, run, queue, acked, proven>>

-----------------------------------------------------------------------------
(* The end of the session.                                                 *)

\* handleAgentLifecycleFailure, at the end of a turn and once per session.
AgentFails ==
    /\ Running /\ run.failure = None /\ Strike("agent")
    /\ run' = [run EXCEPT !.failure = "signaling"]
    /\ UNCHANGED <<logVars, call, queue, history>>

\* What an error of the agent amounts to: a restart for an overflow of its context
\* or a lost connection, the end of the worker for a usage limit, else a block.
FailureSignals == {"RESTART", "BLOCKED", "EXITED"}

\* The worker shuts down whether or not the coordinator hears of it.
FailureSignaled ==
    /\ Running /\ run.failure = "signaling"
    /\ Unheard \/ \E what \in FailureSignals : Handled(what)
    /\ run' = [run EXCEPT !.failure = "signaled", !.closing = TRUE]
    /\ UNCHANGED <<ticked, added, call, queue, bounds, acked, proven>>

Gone == run' = NoRun /\ call' = [c \in Call |-> Idle] /\ queue' = <<>>

Shutdown == Running /\ run.closing /\ Gone /\ UNCHANGED <<logVars, bounds, history>>

Die == Running /\ Strike("death") /\ Gone /\ UNCHANGED <<logVars, history>>

-----------------------------------------------------------------------------

Framework(more) == ToolActionReturns(more) \/ ToolActionFails(more) \/ ToolActionUnrecorded(more)

Session ==
    \/ \E k \in DOMAIN Actions : Start(k)
    \/ \E more \in [Item -> Level] : Framework(more)
    \/ SequenceStops \/ ToolActionThrows
    \/ AgentFails \/ FailureSignaled \/ Shutdown \/ Die

Begin(c) ==
    \/ \E i \in Item, level \in {"optional", "mandatory"} : Add(c, i, level)
    \/ \E items \in SUBSET Item : Tick(c, items)
    \/ \E t \in Tool : CallTool(c, t) \/ PiToolRefused(c, t)
    \/ \E outcome \in Outcome : Complete(c, outcome)
    \/ RequestRestart(c)

Continue(c) ==
    \/ AddMerge(c) \/ AddRecord(c) \/ \E i \in Item : TickRecord(c, i)
    \/ \E r \in {"plain", "passed", "failed"} : ToolReturns(c, r)
    \/ Project(c) \/ Gate(c) \/ Posted(c)

Break(c) == AddFails(c) \/ TickFails(c) \/ ToolThrows(c) \/ PostFails(c)

Next == Session \/ \E c \in Call : Begin(c) \/ Continue(c) \/ Break(c)

Spec == Init /\ [][Next]_vars

-----------------------------------------------------------------------------
(* Properties.                                                             *)

\* The worker enforces at least the items a new worker would derive from the
\* log, so that a restart of the worker opens no gate.
RunKnowsItems == Running => Covers(run.items, Recovered(run.action))

\* An added item that the agent was told is on the list is on the list of every
\* later worker of the action, unless the log could not be written.
AddedIsEnforced ==
    "log" \notin struck => \A a \in Action : Covers(Recovered(a), acked[a])

\* Evidence that a tool has passed is of a tool that has, if not for this worker
\* then for an earlier one, although completed actions vouch for their tools.
\* The one way to evidence without a run is a tool action that was given to the
\* agent, because nothing else was pending, and completed by the agent's signal.
Signed(t) == \E a \in ToolAction \cap signed : ToolOf[a] = t
EvidenceIsReal ==
    Running => \A t \in Tool : run.results[t] = "passed" => t \in proven \/ Signed(t)

\* SUCCESS leaves the worker only when everything that is mandatory at that
\* moment is ticked in the log and every required tool's result will do, although
\* other calls add items and run tools while the gate reads the log.
GateHolds ==
    [][\A c \in Call : call[c].pc = "gate" /\ call'[c].pc = "posting" =>
          Mandatory(run.items) \subseteq ticked /\ Audited]_vars

\* The chain of additions is the additions under way, in some order and each once:
\* none of them waits for a call that has returned or was never made.
Pending(c) == call[c].pc \in {"queued", "adding"}
ChainIsAlive ==
    /\ \A k \in 1 .. Len(queue) : Pending(queue[k])
    /\ \A c \in Call : Pending(c) => \E k \in 1 .. Len(queue) : queue[k] = c
    /\ \A k, n \in 1 .. Len(queue) : queue[k] = queue[n] => k = n
    /\ \A k \in 1 .. Len(queue) : call[queue[k]].pc = "adding" => k = 1
=============================================================================
