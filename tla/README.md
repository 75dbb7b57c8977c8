# Orr Else: a TLA+ model of the harness

Orr Else (`src/`) is a coordinator for coding agents. It polls the Beads
issue tracker, hands each bead to a *teammate*, a worker process in a tmux pane
with a git worktree of its own, listens to the workers' HTTP signals, and moves
the bead along a configured statechart until its branch is merged and the issue
closed. Everything durable lives outside the coordinator: in the tracker, in an
append-only event log from which state is projected, in git and in tmux.

This directory holds the TLA+ modules that model the program, the TLC
configurations that check them, and the TLAPS proofs. `PROJECT.json` maps every
definition to the lines it stands for and lists runs, hazards and theorems. All
paths below are relative to the repository.

    tlc -workers 2 -config MCHarnessSlot.cfg MCHarness    # one run
    tlapm HarnessProofs.tla                               # one module of proofs

## 1. The system

### Components

| Component | State it keeps | Operations | Talks to |
|---|---|---|---|
| Supervisor (`core/Supervisor.ts`) | `startedBeads`, `missingStartedBeadChecks`, `processedSignals`, `schedulingPausedUntilMs`, `isStopping`, `stepInProgress` | poll step: reconcile, scan, claim, worktree, spawn, slot health, recovery; `markBeadExited`, `pauseScheduling`, `stop` | Orchestrator, bd, git and teammate plugins, event store |
| Orchestrator, Scheduler (`core/Orchestrator.ts`, `core/Scheduler.ts`) | none | ready beads, resumable in-progress beads, scores, selection | bd plugin, FlowManager |
| FlowManager (`core/FlowManager.ts`) | none; the configured statechart | `stateForBead`, `nextState` | everybody |
| Event store (`core/EventStore.ts`) | the JSON-lines log shared by all processes, projection caches | `record`, projections of statechart and metadata | bd plugin, handlers, workers |
| bd plugin (`plugins/bd.ts`) | none; drives the `bd` command | claim, release, close, update status, ready, list, show | tracker, event store |
| Teammate factory (`plugins/teammates.ts`) | none; drives `tmux` | count and list panes, spawn, terminate | tmux, event store |
| Signal handling (`extension.ts`, `handleTeammateEvent`) | none of its own | one handler per signal, interleaved with the poll step | all of the above |
| Worker session (`extension.ts`) | `activeRun`, `agentFailureSignaled` | choice of the action, tool actions before it, completion tools, lifecycle failures, shutdown | signaling server, event store |
| Teammate (`core/Teammate.ts`), SignalingServer (`core/SignalingServer.ts`) | heartbeat timer and token budget; HTTP server | heartbeats, POST of signals | each other |
| Git plugin (`plugins/git.ts`) | the lock file `GIT_LOCK_FILE`, worktrees, branches, the exclude file | `withGitLock`, `create_worktree`, `remove_worktree`, `merge_and_commit` | git, event store |
| Project tools (`plugins/projectTools.ts`, `core/ToolCallPathFactory.ts`) | a result file per call | run a configured command or MCP operation, persist and record its verdict | event store, child processes, MCP servers, the results the gate reads |
| Tool policy, checklists, gates (`extension.ts`, `core/ChecklistRequirements.ts`) | the list in `activeRun.requiredItems`, additions and ticks in the log, `checklistMutationQueue`, the last result of every tool | add and tick items, validation rules, the gate of `signal_completion` | event store, tools |
| Mailbox, telemetry, configuration, prompts, paths | files | pure I/O and text | agents |

### What is hard about it

* **One thread, many tasks.** The poll step and any number of signal handlers
  interleave at every `await`. Reads made before an await (scan results, the
  issue's status before a reopen, pane counts) are acted on after it.
* **Several processes.** Workers and the coordinator append to one log and use
  the same lock file; nothing but the order of appends relates them.
* **No transaction spans two stores.** A claim is a tracker command and then an
  event; a completion is an event, a merge, a close, another event. Each may
  fail, and the coordinator may die between any two.
* **Timeouts.** Leases run out, stalled workers are killed while their late
  signals are handled, missing panes are reaped at the third check.
* **Half-done work.** A git tool is several commands, each of which may fail
  and some of which leave a trace: a branch without a worktree, an open conflict. Its
  callback runs again in the retries of the lock. The verdict of a project tool
  is written to four places one after another.
* **Commands outside of the process.** A killed command may ignore the signal or
  exit with 0 all the same; the commands of a dead worker run on.
* **Calls of one turn.** An agent may have several tool calls open; they share
  the list in memory, and the gate reads the log between its looks at them.
* **Projections.** A state is whatever the folds make of the events, and two
  folds are laid over each other.

### What must hold

* Supervisor: never more panes than slots; one worker per bead; every working
  worker is in `startedBeads`; slots of lost workers come back.
* Orchestrator and bd plugin: a claim records the state the bead is in; a closed
  bead stays closed; an in-progress bead without a worker is resumed.
* Signal handling: a bead moves by signals only, and only from the state a
  signal is about; a key is handled once; no bead closes unmerged; every bead
  is closed or blocked in the end.
* Worker: a state is left by success only when all its actions are done; an
  action is completed by its success.
* Gate: SUCCESS leaves a worker only with the mandatory items of that moment
  ticked and the required tools passed, by evidence that is real; no restart, no
  race of additions and no failed record opens it; additions never block.
* Event store: the incremental projection says what the whole log says.
* Git lock: mutual exclusion; every call settles, with the outcome of a run of its
  callback; a stale file is never removed.
* Git tools: a call takes effect at most once and answers success only if it did;
  a merge's answer is what happened; removing a worktree loses no work.
* Project tools: log, file, memory and answer tell one story of a call; what the
  gate takes for a pass was one; nothing is left open; every call ends.

Where the code does not do this, section 6 says so.

## 2. The modules

| Module | Models | State |
|---|---|---|
| `BeadProjection` | `applyEvent` for the statechart and metadata projections, `statusFor`, `stateForBead` | none: operators on a projection and one event |
| `EventLog` | one bead's log, its two projections kept up to date event by event, compared with definitions that read the whole log | `log`, `chart`, `meta` |
| `GitLock` | `withGitLock`, one step per await, several calls | `pc`, `retries`, `fnResult`, `lockFile` |
| `GitOps` | the three git tools over `GitLock`: what each does before, under and after the lock, command by command | those of `GitLock`; the repository; where each call stands |
| `GitTools` | what callers take the git tools for: calls with one atomic effect and an answer (the abstract specification of `GitOps`) | `effect`, `answer`, `worktree`, `target` |
| `Harness` | Supervisor, Orchestrator, bd claim/release/close, panes, workers and signal handlers together; uses the folds of `BeadProjection` for every event | see below |
| `WorkerRun` | one bead in one state: the workers that work on it one after another, their tool calls, checklists, tool results, the gate and the end of a session | see below |
| `ProjectTools` | calls of command and MCP tools from the invocation to the answer, for the agent and for tool actions | see below |
| `MC*` | constants for TLC | |
| `ProjectionLemmas`, `EventLogProofs`, `GitLockProofs`, `GitOpsProofs`, `HarnessProofs`, `HarnessTracking`, `WorkerRunProofs`, `ProjectToolsProofs` | the theorems | |

How they fit together: `EventLog` and `Harness` use the folds of
`BeadProjection`; `GitOps` extends `GitLock` and implements both it and
`GitTools`; `Harness` takes the git tools for what `GitTools` says they are, one step
and an answer each; `WorkerRun` takes a tool's result as one of
`plain`, `passed` and `failed`, and `ProjectTools` shows what stands behind it.

### Harness and the code

| Variables | Code |
|---|---|
| `sup`, `session`, `pc` | whether the coordinator runs or has been stopped; the observability session id that marks its leases; the await at which `Supervisor.step` stands (`idle`: `stepInProgress` is false) |
| `slots`, `seen`, `todo`, `cur`, `carry`, `after`, `inactive` | the locals of the step: free slots, states read, assignments, the bead at hand, the restart target read by the claim, what follows `bd_release`, beads to recover |
| `started`, `missing`, `paused`, `processed` | the supervisor's fields |
| `issue`, `chart`, `leaseLive`, `merged` | the tracker's status; the projection of the bead's events; whether the lease's expiry is ahead; whether the branch is merged |
| `pane`, `run` | a tmux pane: `boot` (session start), `tools` (parent sequence), `work`, `stall`, `wait` (a POST is open), `exiting`; the bead, state and action of its worker |
| `hpc`, `signal` | the await at which the handler of a worker's i-th signal stands; what the signal says |

The actions follow the code in order. Poll step: `Poll`, `Reconcile`,
`FindSlots`, `ScanReady`, `ScanInProgress`, `Select`, `ScanFails`,
`NextAssignment`, `Claim`, `ClaimRead`, `ClaimRecord`, `CreateWorktree`,
`SpawnCheck`, `SplitWindow`, `RecordSpawned`, the three steps of `bd_release`,
`AssignmentFailed`, `CheckHealth`, `Recover`, `Kill`, `Recovered`. Workers:
`WorkerInit`, `RunToolActions`, `Post`, `Answered`, `Shutdown`, and the
misfortunes `Stall`, `Die`, `Vanish`, `GiveUp`. Handlers: `Receive`, `GetBead`,
`RecordOutcome`, `Merge`, `Close`, `CloseRecord`, `Block`, `BlockRecord`,
`RemoveWorktree`, the three steps of `bd_release`, `HandlerExit`. Clock and
user: `LeaseExpires`, `PauseEnds`, `Stop`, `Stopped`, `StartAgain`, `Crash`.

Failures of the environment cost one of `MaxMishaps` each and are switched on by
`Fault`: `bd` (a tracker command fails), `record` (an event cannot be recorded: the
command's own success, the claim, the worktree, a signal, its transition, the new
status, the release, the recovery's restart request), `worktree`, `merge`, `spawn` (tmux
split, title or the spawn event), `tmux` (listing or killing panes; a failed
listing reads as "no panes", as in the code), `init` (a session start fails once its
action is chosen: the run is not recorded and no tool action is run, but Pi lets
the agent go on), `tool`, `stall`, `death`,
`vanish` (a pane dies while its signal is handled), `late` (a signal overtakes
the end of its own spawn), `stop` and `crash` of the coordinator.

### WorkerRun and the code

| Variables | Code |
|---|---|
| `ticked`, `added`, `done` | what `projectBead` says of the bead: `checklists`, `dynamicChecklists` of the state's actions, `completedActionIds` |
| `run` | `activeRun` (action, `requiredItems`), the results kept by Observability, the rest of the parent sequence, `agentFailureSignaled`, and whether the shutdown timer is set |
| `call`, `queue` | the await at which each open tool call stands; the calls chained on `checklistMutationQueue` |
| `acked`, `proven`, `signed` | history, read by properties only: additions answered PASSED, tools that have returned without failure, actions completed by a signal of their worker |

A session goes `Start` on the action that `selectActiveAction` gives out
(`Selected`: the first pending prompt, else the first pending fresh-context action,
else the first pending action, which is then a tool action), the actions of the
sequence before that one, whether completed or not (`ToolActionReturns`,
`ToolActionFails`, `ToolActionUnrecorded`, `ToolActionThrows`, and `SequenceStops` at
the first that is no tool action), the agent's calls, `Shutdown` or `Die`. Calls: `Add`, `AddMerge`, `AddRecord` or `AddFails` for
`add_checklist_item`; `Tick`, one `TickRecord` per event, `TickFails`; `CallTool`,
`ToolReturns`, `ToolThrows`, `PiToolRefused`; `Complete`, `Project`, `Gate`,
`Posted` or `PostFails` for `signal_completion`, the last two for
`RequestRestart` too. `AgentFails` and `FailureSignaled` are
`handleAgentLifecycleFailure`. A list is a function from items to `absent`,
`optional` or `mandatory`; a merge takes the stronger mention. Of a tool's result
the code asks whether it says failure or success, so it is one of `plain`,
`passed`, `failed`. `AgentFails` may come while calls are open, since
Pi may go on after it; the coordinator's side of a signal is reduced to which
action it completes (`Handled`), which `Harness` models in full.

### GitOps and the code

| Variables | Code |
|---|---|
| `pc`, `retries`, `fnResult`, `lockFile` | `withGitLock`, as in `GitLock` |
| `at`, `found`, `outcome` | the command or record at which a call stands, `show-ref`'s answer, `success` of the tool's result |
| `tree`, `branch`, `ahead` | a bead's worktree (`none`; `partial`, after a death in `worktree add`; `clean`; `dirty`; `late`, written after the merge read the status), its branch, work of it that is not in the target branch |
| `excluded`, `merging`, `inTarget` | the exclude file; the conflicting merge that is open in the main checkout; merged beads |
| `logLost` | history, read by properties only: a record outside of the lock failed |

A tool begins with `BeginCreate` (a directory that exists is reused without the
lock), `BeginRemove` (a missing one is skipped) or `BeginMerge`. Under the lock
come `Probe` and `Add`; `Remove`; or `Status`, `Commit`, `Switch` and `Merge`. A
command that throws ends the callback, and a retry starts at its first command
(`Throws`). After the lock come `Excludes` for create, and `Finish`, which
answers and records; a record that fails turns the answer into a failure, as the
catch block does. `After` gives the order in which the poll step and
the handlers invoke the tools: merge after create, remove after a successful
merge. `Edit` is the agent, `Die` the end of the process that runs a call.

### ProjectTools and the code

| Variables | Code |
|---|---|
| `alive`, `at` | the worker process; the await at which each call stands |
| `command`, `connected` | the child of `execFile`, before and after it was sent SIGTERM; the MCP client and its transport |
| `status`, `file`, `logged`, `evidence`, `told` | the raw result; the result file of each call's directory; the call's events; the result `recordToolInvocation` keeps for the gate; the answer |
| `truth`, `unlogged` | history, read by properties only: how the command really ended; calls whose record failed |

A call goes `Invoke` (of the agent only), `Start`, `Prepare`, then `Spawn` and
`Exits`, or `Connect`, `Replies` and `Close`, then `Persist`, `Verdict`, and
`ReportToAgent` or `CompleteAction`. Exceptions lead to `Catch` and `Thrown`. The
agent's calls begin when the tool actions have ended; tool actions take turns, and
the first that fails is the last (`Stopped`).

### Abstractions to know about

* Scores: the scheduler's order is any order (`Orders`).
* `Reconcile` reaps all missing beads in one step; in the code a handler may run
  between two of its event records.
* `FindSlots` reads `startedBeads.size` and the pane count together; the code
  reads the size first. The factory counts the panes again before each spawn.
* The state of an inactive bead is that of one of its live workers; the code
  takes the latest heartbeat or progress event of the bead.
* The throttle of the slot-health check is part of the time it takes to call a
  worker stalled.
* The configuration has one workflow without `settings.workflowVersion`.
* Worker identities are used again once their pane is dead and their signals are
  handled; the real ones are unique.
* A second Supervisor that overlaps the end of the first one's work is left out:
  `StartAgain` waits for it.
* Behaviour of the outside, modelled from how the code uses it and marked external in the map:
  `bd update --claim` succeeds on open issues only; Pi reports an exception
  of the session start and lets the agent go on; tmux, the process model,
  `execFile`, and MCP clients, whose own timeout ends every request.
* git refuses to switch branches while a merge is open, and to add a worktree
  twice; a failing `worktree add` removes its directory but may leave the branch;
  any command may fail for other reasons, without effect.
* What the agent writes into a worktree after the merge has read its status is
  `late`: the removal takes it with it, in the model as in the code.
* A record is written whole or not at all. Those of a claim, a spawn, a run, a signal,
  a release and the recovery may fail, under `record`, `spawn` and `init` in `Harness` and
  under `log` in `WorkerRun`; that of `Reconcile` does not.
* A few awaits with nothing to interleave are one step: in `Harness`, a claim's
  command with the read of the projection behind it, the read and the record of
  `WorkerInit`, and all tool actions of a session start (`RunToolActions`); in
  `WorkerRun`, a tool action's result, the items it adds and its completion. The
  agent has no call open during the last two; `WorkerRun` lets the sequence break off
  between any two tool actions and before either record.
* `worktree add` is one step unless its process dies, and the calls for one bead come
  in the order of `After`, so that none reuses a directory while it is being added.

## 3. The runs

| Run | Instance | What it shows |
|---|---|---|
| `git_lock` | 3 calls, 2 retries, failing callbacks, writes, records and unlinks, crashes | every call settles, with the outcome of a run of its callback; until something fails half-way the file has an owner; a stale file is never removed |
| `git_ops` | 5 calls for 2 beads, 2 retries, failing commands, records and files, conflicts, deaths | a merge's answer is what happened; no work is lost; a created worktree is whole; a conflict blocks all merges; the lock's protocol is kept; `GitTools` is implemented |
| `project_tools` | 1 tool action, then a command and an MCP call side by side, 2 faults, fairness | log, file, memory and answer agree; the gate's evidence is backed; nothing is left open; every call ends |
| `event_log` | every log of up to 3 of 44 events | projection = reading of the whole log; its layers agree; recorded statuses and restart requests hold |
| `slot` | 1 bead, 2 workers, 1 slot, all kinds of signals, 2 mishaps (bd, record, worktree, merge, init, death) | bookkeeping knows all workers; closing follows merging; only signals move a bead, from the state they are about |
| `slots` | 2 beads, 3 workers, 2 slots, 1 mishap (bd, record, death) | slot bound; never a second worker of a bead; closed beads stay closed although scans go stale |
| `faults` | 1 bead, 1 worker, 2 SUCCESS signals, 1 mishap of any kind | types; one handler per key |
| `live` | 1 bead, 2 workers, 1 slot, 1 mishap (death, vanish, stall, worktree, tmux, spawn, late), fairness | states are left complete even when workers are killed; every bead is closed or blocked, in-progress beads are resumed, slots come back |
| `worker_run` | 1 item, 2 calls at a time, 2 tools, a prompt between 2 tool actions of one tool, 3 workers, 1 fault of any kind | the gate, the evidence, the lists in memory and in the log, and the chain of additions, with restarts between the workers |
| `git_lock_mutex` | 2 calls, failing callbacks | violation 1 of section 6 |
| `steal` | 1 bead, 2 workers, 2 slots, no mishap | violation 2 |
| `lost` | 1 bead, 1 crash of the coordinator, fairness | violation 3 |

### Bounds

* Two beads and three workers: two workers can hold both slots while a third is
  spawned, which is all `SlotBound` and the reuse of a slot need. Beads meet
  only through the slots and the scan order; properties of one bead use one.
* Two states and four actions (`Chain`): a prompt followed by a fresh-context
  action, and a tool action before a prompt, so that each kind of next
  action and both ways of leaving a state occur, with a way back. `Short` has one
  state and is used where the statechart does not matter.
* One signal per worker; two in `faults`, where duplicate keys are the question.
  Two mishaps in `slot` (one to bring about the odd situation, one in
  its repair), one elsewhere. Sessions A and B: one crash and what follows.
* Three events of a log: every pair of events that write one field, with one
  between them. Three calls of the lock: an owner, a waiter and a racer.
* Five git calls: a worktree that is created, created again if that failed,
  merged and removed, while another call competes for the lock with a second bead.
  With two retries a callback is started over after each of its failures and
  then gives up. Faults are not counted there: every command may fail every time.
* Three tool calls: a tool action and a later call of the same tool, which share
  its evidence, and an MCP call beside the latter. Two faults: a failure and one in
  the handling of it. The command of one call does not end when killed, the tool
  with a command accepts overflows and the MCP tool is optional, so that each
  of these branches is taken.
* One item and two calls in `worker_run`: what can go wrong there concerns one
  item added, upgraded or ticked by one call while another call adds, ticks or
  signals; the proofs cover any number of both. Three workers: the first completes the
  prompt, the second is given a tool action and completes that, and the third takes
  it as evidence.
* Symmetry on workers (and beads, and calls) is used in runs without liveness only; no
  definition tells them apart.

### Fairness

`FairSpec` has weak fairness of the poll step (a `setInterval` that is never
cleared while the supervisor is up), of every handler and worker step (an awaited
command or request returns; a session's observers see to its end), of
`LeaseExpires` and `PauseEnds` (the clock advances), and of `Stopped` and
`StartAgain` (the user starts the coordinator again: without it nothing is
promised). No misfortune is fair, and a stalled worker need not resume: recovery
has to deal with it. For the lock, weak fairness of each call's steps except its
crash. In `ToolsFairness`, weak fairness of the steps of a call (the event loop),
of its command's timeout (a timer) and of the end of a command that was killed,
unless it is one that does not end. A command that is neither killed nor over
need not end by itself. `GitOps` has no fairness: that its calls end
follows from the lock's, and is checked there.

The `live` run has `SUCCESS` signals only: a review state that rejects for ever
keeps a bead going for ever, and nothing in the code bounds that.

## 4. What is proved

TLAPS checks these for every value of the constants that satisfies the named
assumptions of the modules.

* `GitLockProofs!TypeCorrect`: the types, with `RetryLeft` (a call that is not
  settled has retries left), which the decrement in `Wait` needs.
* `GitLockProofs!LockOwned`: until a write, a record or a process fails, the
  file has an owner. It is inductive with the types: the unlink
  of one call while another is inside is what it must survive, and it does since
  "no file" makes the claim empty.
* `GitLockProofs!StaleStays`: nothing unlinks a file but a call inside, and a
  call gets inside only by finding no file. `Stale` is inductive with the types.
* `GitLockProofs!OutcomeHonest`: a call resolves only with the success of its
  callback, and gives up only after its last retry. `ResultHonest` ties
  `fnResult` to the place a call stands at.
* `GitOpsProofs!LockProtocolKept`: every step of the git tools is a step of
  `GitLock` or leaves its variables alone, action by action. What is proved of
  `GitLock` therefore holds under the tools (`LockUnderTools`); the types of the lock
  and `ResultHonest` are used that way in what follows.
* `GitOpsProofs!OpsTypeCorrect`, by the invariant `OpsInv`: the types and `Placed`,
  which says at which commands a call of each tool may stand, and what is known
  of its callback there.
* `GitOpsProofs!ToolsActAsOne`: `GitOps` implements `GitTools` under the mapping at
  the end of `GitOps`. Initial states map to initial states; a step maps to taking
  effect (the `Add`, `Remove` or `Merge` that succeeds, or the start of a call that finds
  its work done), to an answer, to the half of a worktree a death leaves, or to a
  stutter. The mapped `effect` is computed from where a call stands, so
  `OpsInv` is needed to see that only a failure takes it back.
* `GitOpsProofs!ConflictStays`: no tool touches an open merge or, while one is open,
  the target; an action property that needs no invariant.
* `GitOpsProofs!MergesHonest`, with `OneMerge` (one merge call per bead): `MergeInv`
  adds what holds past the status (nothing is dirty) and past the merge
  (everything is in the target).
* `GitOpsProofs!WorkIsKept`, with `RemovedAfterMerge` in addition (the handler
  awaits the merge before the removal): the removal runs after a successful
  merge, and `MergeInv` says that nothing is dirty then.
* `GitOpsProofs!CreatedAreWhole`, with `CreatesFirst` (the merge and the removal of a
  bead come after the calls that create its worktree): `CreateInv` says that every
  worktree is whole unless a process died on it, and that a call past the creation has
  its worktree; `OverInv`, that what a call comes after is over, keeps a removal
  from getting between the lock and the answer.
* `EventLogProofs!TypeCorrect`, `StatusHeld`, `RestartDecides`: by cases on the
  type of the event, through one lemma on `ChartApply` each. The temporal part is
  an action property from the type invariant.
* `EventLogProofs!ReplayAlwaysMatches`: for logs of any length, the projection kept
  up to date event by event is what the log says when read as a whole. One lemma
  per part of the projection compares the new event with the latest one that spoke of
  that part. That a latest one exists would need an induction over the log; `HasLatest`
  makes it part of the invariant instead, where one more event at the end is all
  there is to show. It assumes `ClaimsLease`: `bd_claim` always records a lease, as
  its owner falls back to `'agent'`.
* `EventLogProofs!LayersAlwaysAgree`: for logs of any length the layers agree where a
  decision may read either. It assumes `ClaimsNameTarget`: a claim that
  carries a restart request carries its target, which `bd_claim` reads along with it.
* `HarnessProofs!SlotsBounded`: as long as tmux answers, never more panes than
  slots, with any number of beads and workers, any statechart, signals and all
  other faults. The bound alone is not inductive: `SplitWindow` adds a pane
  without looking. `SlotInv` adds `RoomForSplit` (at `split` there are fewer
  panes than slots: `SpawnCheck` counted them, and since then panes
  could only die, because a single poll step splits windows) and `ReleaseEnds`
  (`bd_release` never returns into the spawn). The lemmas show that all other
  actions leave `LivePanes` alone or make it smaller.
* `HarnessProofs!TypeCorrect`: the types of all of `Harness`. They are not
  inductive: what an action writes comes from locals of earlier awaits. `TypeInv`
  adds what is known at each `pc`: that there is an assignment while one
  is spawned (`SupTyped`), that a live worker has a bead, a state and an action
  of it (`WorkTyped`), that a busy handler has a signal (`HandTyped`), and what the
  projection and the memory hold (`BdTyped`, `MemTyped`). One lemma per group of
  actions; `ProjectionLemmas` gives the types of the folds.
* `HarnessProofs!KeysHandledOnce`: one handler per key and session. `KeyInv` adds
  that the key of every busy handler is in `processed`: it is recorded in the step
  that looks it up, before any await, and `processed` is emptied only by the start of a new
  supervisor, when no handler is busy.
* `HarnessProofs!StatesLeftDone`: a state is left when its actions are done. The worker
  chooses its action from one read of the log and the handler looks for a next
  one in another. `DoneInv` follows what is known of the actions before
  the chosen one from the start of a worker (they are done, or tool actions it
  will run) to its signal and to the handler that has looked. It holds because a
  completed action is never forgotten while the bead stays in the state. No
  fault but a failing tool action or session start can break it, crashes, restarts
  and any number of signals included. The hypothesis `Ordered` is about the configured sequences;
  section 6 says what happens without it.
* `HarnessTracking!WorkTracked` and `WorkersAlone`: who works on a bead and which
  slot that takes. Neither property is inductive: a bead is started before it has a
  worker, and remains so while the handler of its worker's signal may still
  send the worker back to work. `TrackInv` therefore speaks of *holders* (a worker
  from its start until its handler has given the slot back): the bead of every holder is
  started, no bead has two, the beads that wait for an assignment are not started and
  differ, and the bead at hand has no holder before the split. The
  lemmas are about the ways a bead leaves `startedBeads`: its handler's exit,
  a failed assignment, and `Reconcile`, which finds every holder among the panes.
* `HarnessTracking!ClosedQuiet` and `ClosedForGood`: only the holder closes a bead
  (`ClosedInv`), after its merge, and the claim is refused by a tracker whose issue is
  closed, so that an assignment past the claim is of an open one. `ReopenInv` is
  about the release of a handler, which reopens what it has read as in progress:
  an `EXITED` gives the slot back before that, which is why the theorem
  has the hypothesis `OneSlotOrNoExit`.
* `HarnessTracking!PhasesMatch`: from the recorded claim until the worker's signal is
  applied nothing moves a holder's bead (`PhaseInv`), not even the spawn event
  that the poll step records behind its back: it names the same state. That the
  claim is enough matters when the worker's own start cannot be recorded.
* `HarnessTracking!SignalsMove`: claims and spawns record a state that the scan read
  some awaits ago. With one slot nobody works between the scan and the
  split (`AloneUntilSplit`), so that the reads stay true (`SeenFits`, `CarryFits`,
  `ClaimFits`), and the spawn event is recorded before its worker's signal is
  taken (`TitledAlone`). `ChartsFine` says that a restart request names the state
  the bead stands in, so that honouring it moves nothing, and `TargetsNamed` that
  a signal about to be applied leads to a state or a final status.
* `WorkerRunProofs`: all six properties of `WorkerRun`, and one more. `Base` joins the types, the
  chain, `Quiet` (no call before the session is ready or after its end) and `Named`
  (a call that runs a tool knows which); the chain is needed for the types,
  because `Tail(queue)` is a sequence only if the returning call is in it.
  `GateCorrect` needs `Snapshot`: what a call has read of the log is still in it, as
  nothing unticks. `EvidenceCorrect` needs `Vouched`: a completed tool action's
  tool has returned, unless a signal of the agent completed the action; section 6 says
  how that comes about. `LeadingToolsRun` says when it does not: if the state's tool
  actions come first in its sequence and neither they, a record nor the agent's turn
  fail, a pass is always of a tool that returned, whatever the signals and deaths. A
  worker given a prompt or a later action runs them all or is gone before it signals.
  `RunKnowsItemsCorrect` needs that an addition is in memory
  before it is recorded. `AddedIsEnforcedCorrect` needs `Backed`: every item in
  memory is in the log or belongs to the addition at the head of the chain, of which
  there is one; this is where a chain without waiting would break the proof.
* `ProjectToolsProofs`: the types and the three safety properties of `ProjectTools`,
  from one invariant `ToolsInv`. `LogInv` says of each place a call can stand at
  what is in the log and on disk by then, `OpenInv` where a command or a connection can
  be open. A verdict lasts because the directory of a call is its own:
  `Persist` of another call writes to another file.

The assumptions are those named in the modules: the constants have their types, no state has the name
that stands for "no value" or "no candidate" in the models, and so on.

The theorems of `HarnessTracking` have hypotheses, and each of them is needed:
TLC finds a counterexample in a small instance without it.

| Hypothesis | Says | Without it |
|---|---|---|
| `OneSignal` | a worker posts one signal | a second signal is handled when the slot belongs to somebody else (signals are applied in any state, section 6); all of these properties fail |
| `Tame` | tmux answers; spawns do not fail half-way; panes do not hang or disappear under a handler; the coordinator is not stopped and does not crash | a worker lives on that the coordinator does not know, or a killed worker's late signal is handled; all fail, for each of these faults alone (a tmux that fails needs three listings in a row) |
| `OneSlotOrNoExit` | one slot, or no `EXITED` | `ClosedStaysClosed`: another worker closes the bead between the read and the reopen of the release |
| `OneSlot` | one slot | `OnlySignalsMove`: violation 2 of section 6 |
| `OnTime` | no signal overtakes the end of its own spawn | `OnlySignalsMove`: the spawn event takes the bead back |
| `NamedTargets` | transitions lead to states or final statuses | `OnlySignalsMove`: after a transition to `ready` the next claim takes the bead to the start state |

Failing commands of bd and git, failing records, session starts and tool actions, dying workers, leases that run out at any
time, usage limits and every kind of signal are admitted by all of them. The
runs `slot` and `slots`, which check these properties, satisfy the hypotheses, and
`live` satisfies those of `StatesLeftDone`.

Only model-checked: liveness (`EveryCallSettles`, `EveryCallEnds`,
`EveryBeadSettles`, `ResumesInProgress`, `SlotsComeBack`), since fairness and
ENABLED are beyond the prover. Every safety property of the passing runs is a
theorem.

## 5. What is not modelled

Heartbeats and the token budget of `Teammate`; checkpoints and
the shell and read policies for Pi tools; the scheduler's scores;
validation of signals; damaged log lines and event ids; overlapping
supervisors. Those that bear on decisions are planned (section 7). Of the git tools,
the confirmation dialog of the removal and the empty repository, which changes how a
worktree is added. A session start that cannot read its bead (`bd_get_bead`), after
which the worker has no run. Of the project tools, arguments and templates, allowlists,
tools that extensions provide, the size of inline results and registration.
Left out for good: configuration loading, prompts, telemetry, mailbox, paths and
worklogs, which are I/O or text on which no decision of the harness depends.

Some properties do not hold under every fault, and the runs say which they were
given: `SlotBound` needs a tmux that answers; `WorkIsTracked` and
`OneWorkerPerBead` fail with crashes or failures half-way through a
spawn (the worker lives on, unknown); `StateLeftWhenDone` fails when tool
actions or session starts fail, because the handler only looks at the actions after
the one that succeeded; `ResumesInProgress` and `EveryBeadSettles` fail when the record
of a claim does, and `EveryBeadSettles` fails with failing trackers, because a close
that fails after the transition leaves the bead in progress with a completed
statechart; `AddedIsEnforced` holds while the log can be written, because an addition
stays in memory when its record fails, and its retry is then answered PASSED without
one; `HonestMerge` admits that a merge whose record fails is answered as a failure;
`EveryCallEnds` excepts a command that survives SIGTERM. The hazards of `PROJECT.json` give the lines.

## 6. Where the code and its documentation disagree

Each of these has a run that TLC ends with a counterexample.

1. **The git lock is not exclusive** (`git_lock_mutex`, `plugins/git.ts:33`).
   Two calls both see no file; the write that follows has no `wx` flag and
   cannot tell that another process "beat us".
2. **A claim can put a bead back** (`steal`, `bd.ts:616`). It records the state an
   older scan read. If a worker's signal was applied since then (the scan
   listed the bead because its lease had run out), the bead goes back to the state
   it has left. With one slot the scan never runs while a worker is alive, which is why
   `OnlySignalsMove` holds in `slot`.
3. **A crash in the claim loses the bead** (`lost`, `bd.ts:605`). It is in
   progress without an owner, which neither scan lists.

More follow from the modelled code without a run of their own:

* A failed git callback is run again (`git.ts:53`): the catch meant for write
  errors takes the callback's error too, and the caller gets "Git lock
  timeout" in the end. `HonestOutcome` and `HonestMerge` hold nevertheless.
* A release can reopen a closed bead (`bd.ts:657`): it reads the status and reopens in
  a later command, and a usage limit frees the slot before that. The
  `slots` run has no such signal.
* After a conflict the merge stays open in the main checkout, so every later merge
  fails at the switch, for every bead, until somebody cleans up (`ConflictBlocks`).
* A merge that succeeded is answered as a failure when its record fails, and
  the handler blocks the merged bead (`git.ts:262`).
* A command that is killed for its time and then exits with 0 counts as
  passed (`projectTools.ts:360`), and one that survives SIGTERM holds its call, and
  the agent's turn, for ever.
* An allowlist or a default that the configuration keys by an operation's alias does not
  apply when the operation is requested by its own name (`projectTools.ts:466-492`).
* Signals are applied in any state: `decideTeammateEventProcessing`, which would
  refuse them, is never called. `PhaseSignalsMatch` fails as soon as
  `MaxSignals` is 2.
* A tool action is handed to the agent when nothing else is pending (`selectActiveAction`,
  `extension.ts:957-966`): always one that comes after the prompts, and one before them
  once it has failed. Its tool is not run then, the agent's signal or a restart
  completes the action, and the next worker takes the completed action for a passed
  tool (`extension.ts:1217-1224`). `EvidenceIsReal` names this as the only way to a pass
  without a run.
* A claim whose event cannot be recorded (`bd.ts:630`) leaves the bead in progress
  without an owner, as in 3.
* A restart request completes its action when no `workflowVersion` is set
  (`EventStore.ts:438`, `ChartRestart`), although the action never succeeded.
* One bead with a state that is not configured ends every poll step: `stateForBead`
  throws (`Orchestrator.ts:117`) before the code that would skip the bead.
* The audit's "was NEVER invoked" (`extension.ts:1844`) also meets a wrapped tool
  that was invoked and threw: only results are kept. If the tool had
  passed before, the throw leaves that result and the audit passes.
* In a sequence with a prompt behind a fresh-context action the prompt is given out
  first (`selectActiveAction`, `extension.ts:950`), and the handler, which looks
  behind the completed action only (`extension.ts:968`), then leaves the state with the
  other undone. TLC shows it with `StateLeftWhenDone` on such a statechart.
* `checkpointAccepted` is never set or read, so no gate asks for the checkpoint that
  the prompt (`core/ProtocolParser.ts`) demands.

## 7. Plan

Done: `GitLock`, `BeadProjection`, `EventLog`, `Harness`, `WorkerRun`, `GitOps` with
`GitTools`, `ProjectTools`, their runs, and the theorems above.

Next, in this order:

1. `Dispatch`, an abstract specification of what the harness promises for one
   bead (open, assigned, merged, closed or blocked), and `Harness` shown to
   implement it by a refinement mapping in the fault-free instance; then the same
   as a theorem, step by step.
2. `Heartbeats`: `Teammate` and `SignalingServer`: heartbeat timer, stop with
   requests open, automatic context restart, and slot health's view of them.
3. `EventFile`: appends that fail half-way, and what readers make of a torn line.
4. `Scheduler`: scores as a function over bounded inputs against its weights.
5. Wider hypotheses: which of the theorems of `HarnessTracking` survive a usage limit
   that is followed by a second signal, and a spawn whose event alone fails.
