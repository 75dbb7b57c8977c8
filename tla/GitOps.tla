------------------------------- MODULE GitOps -------------------------------
(***************************************************************************)
(* create_worktree, remove_worktree and merge_and_commit (src/plugins/     *)
(* git.ts) over the lock of GitLock: what each tool does before, under and *)
(* after the lock, and the worktrees, branches and target branch it leaves *)
(* behind.  A Call is one invocation of a tool; its steps in withGitLock   *)
(* are those of GitLock, except that the callback is a series of commands. *)
(*                                                                         *)
(* Every git command, file access and event record is an await.  git and   *)
(* the agent that edits a worktree are the environment.  An empty          *)
(* repository, which only changes how a worktree is added, is left out, and*)
(* so is the confirmation dialog of remove_worktree.                       *)
(***************************************************************************)
EXTENDS GitLock

CONSTANTS
    Bead,
    Op,         \* Op[c]: the tool call c invokes
    On,         \* On[c]: the bead it is invoked for
    After,      \* After[c]: the call its caller awaits first, or NoCall
    Worked,     \* beads that have a worktree and a branch from the start
    OpsFaults   \* what may go wrong outside of the lock, and merge conflicts

OpKind == {"create", "remove", "merge"}
NoCall == "none"
OpsFaultKinds == {"conflict", "log", "files"}

\* A git command may always fail.
ASSUME OpsAssumption ==
    /\ Op \in [Call -> OpKind] /\ On \in [Call -> Bead]
    /\ After \in [Call -> Call \cup {NoCall}]
    /\ Worked \subseteq Bead /\ OpsFaults \subseteq OpsFaultKinds /\ "fn" \in Faults

VARIABLES
    at,         \* at[c]: the command or record call c stands at
    outcome,    \* outcome[c]: none, or success: true or false as returned
    found,      \* found[c]: show-ref's answer
    tree,       \* tree[b]: its worktree is none, partial, clean, dirty or late
    branch,     \* branch[b]: its branch exists
    ahead,      \* ahead[b]: its branch has work that is not in the target
    excluded,   \* the exclude file, which all worktrees share, is configured
    merging,    \* the bead whose conflicting merge is open in the checkout
    inTarget,   \* beads that were merged
    logLost     \* has a record outside of the lock failed (history)

lockVars == <<pc, retries, fnResult, lockFile, broken>>
callVars == <<at, outcome, found>>
repoVars == <<tree, branch, ahead, excluded, merging, inTarget>>
opsVars  == <<lockVars, callVars, repoVars, logLost>>

First(c) == CASE Op[c] = "create" -> "probe"
              [] Op[c] = "remove" -> "remove"
              [] Op[c] = "merge"  -> "status"

OpsInit ==
    /\ Init
    /\ at = [c \in Call |-> "new"] /\ outcome = [c \in Call |-> "none"]
    /\ found = [c \in Call |-> FALSE]
    /\ tree = [b \in Bead |-> IF b \in Worked THEN "clean" ELSE "none"]
    /\ branch = [b \in Bead |-> b \in Worked] /\ ahead = [b \in Bead |-> FALSE]
    /\ excluded = (Worked # {}) /\ merging = NoCall /\ inTarget = {} /\ logLost = FALSE

-----------------------------------------------------------------------------
(* Before the lock.                                                        *)

\* A worktree is created again when the call before it has ended in any way; it
\* is merged, and after that removed, when that call has answered success.
Ready(c) ==
    After[c] # NoCall =>
        IF Op[c] = "create" THEN at[After[c]] = "returned" \/ pc[After[c]] = "dead"
        ELSE outcome[After[c]] = "success"

\* What a tool answers, and the record of it.  If the record of a success
\* fails, the catch block turns it into a failure; that of a failure may fail.
Answer(c, success) ==
    /\ at' = [at EXCEPT ![c] = "returned"]
    /\ \/ outcome' = [outcome EXCEPT ![c] = IF success THEN "success" ELSE "failure"]
          /\ UNCHANGED logLost
       \/ success /\ "log" \in OpsFaults
          /\ outcome' = [outcome EXCEPT ![c] = "failure"] /\ logLost' = TRUE

EnterLock(c) == Enter(c) /\ at' = [at EXCEPT ![c] = First(c)] /\ UNCHANGED <<outcome, logLost>>

\* An existing directory is reused as it is, without the lock.
BeginCreate(c) ==
    /\ at[c] = "new" /\ Ready(c) /\ Op[c] = "create"
    /\ \/ tree[On[c]] = "none" /\ EnterLock(c)
       \/ /\ tree[On[c]] # "none"
          /\ at' = [at EXCEPT ![c] = "excludes"] /\ UNCHANGED <<lockVars, outcome, logLost>>
    /\ UNCHANGED <<found, repoVars>>

\* A missing worktree is skipped.
BeginRemove(c) ==
    /\ at[c] = "new" /\ Ready(c) /\ Op[c] = "remove"
    /\ \/ tree[On[c]] # "none" /\ EnterLock(c)
       \/ tree[On[c]] = "none" /\ Answer(c, TRUE) /\ UNCHANGED lockVars
    /\ UNCHANGED <<found, repoVars>>

\* MERGE_AND_COMMIT_STARTED comes first: if it fails nothing is tried.
BeginMerge(c) ==
    /\ at[c] = "new" /\ Ready(c) /\ Op[c] = "merge"
    /\ \/ EnterLock(c)
       \/ "log" \in OpsFaults /\ Answer(c, FALSE) /\ UNCHANGED lockVars
    /\ UNCHANGED <<found, repoVars>>

-----------------------------------------------------------------------------
(* Under the lock: the commands of the callback.                           *)

Standing(c, cmd) == pc[c] = "body" /\ at[c] = cmd

\* The callback goes on to its next command ...
GoOn(c, cmd) == at' = [at EXCEPT ![c] = cmd] /\ UNCHANGED lockVars

\* Mutant: the callback's end skips the finally block.
EndsHolding(c, r, to) ==
    /\ Goto(c, "body", IF r = "ok" THEN "resolved" ELSE "wait")
    /\ fnResult' = [fnResult EXCEPT ![c] = r]
    /\ at' = [at EXCEPT ![c] = to]
    /\ UNCHANGED <<retries, lockFile, broken>>

\* ... or ends: RunFn of GitLock, with a result.  It starts over in a retry.
Ends(c, r, to) ==
    /\ Goto(c, "body", "unlink") /\ fnResult' = [fnResult EXCEPT ![c] = r]
    /\ at' = [at EXCEPT ![c] = to]
    /\ UNCHANGED <<retries, lockFile, broken>>

Returns(c, to) == Ends(c, "ok", to)
Throws(c) == Ends(c, "failed", First(c))

\* rev-parse HEAD, branch --show-current and show-ref.
Probe(c) ==
    /\ Standing(c, "probe")
    /\ GoOn(c, "add") /\ found' = [found EXCEPT ![c] = branch[On[c]]]
    /\ UNCHANGED <<outcome, repoVars, logLost>>

\* worktree add, of the branch that was found or with -b.  A failing one removes
\* the directory again but may leave the branch behind.
Add(c) ==
    LET b == On[c] IN
    /\ Standing(c, "add")
    /\ \/ /\ tree[b] = "none" /\ found[c] = branch[b]
          /\ tree' = [tree EXCEPT ![b] = "clean"] /\ branch' = [branch EXCEPT ![b] = TRUE]
          /\ Returns(c, "excludes")
       \/ branch' \in {branch, [branch EXCEPT ![b] = TRUE]} /\ Throws(c) /\ UNCHANGED tree
    /\ found' = [found EXCEPT ![c] = FALSE]
    /\ UNCHANGED <<outcome, ahead, excluded, merging, inTarget, logLost>>

\* worktree remove --force: uncommitted work goes with the directory, the branch
\* stays.
Remove(c) ==
    /\ Standing(c, "remove")
    /\ \/ tree[On[c]] # "none" /\ tree' = [tree EXCEPT ![On[c]] = "none"] /\ Returns(c, "record")
       \/ Throws(c) /\ UNCHANGED tree
    /\ UNCHANGED <<outcome, found, branch, ahead, excluded, merging, inTarget, logLost>>

\* Mutant: work that is not committed yet is left to the agent.
StatusIgnored(c) ==
    /\ Standing(c, "status")
    /\ GoOn(c, "switch")
    /\ UNCHANGED <<outcome, found, repoVars, logLost>>

\* status --porcelain, if there is a worktree.
Status(c) ==
    /\ Standing(c, "status")
    /\ \/ GoOn(c, IF tree[On[c]] \in {"dirty", "late"} THEN "commit" ELSE "switch")
       \/ Throws(c)
    /\ UNCHANGED <<outcome, found, repoVars, logLost>>

\* add --all and commit, in the worktree.
Commit(c) ==
    LET b == On[c] IN
    /\ Standing(c, "commit")
    /\ \/ /\ tree[b] # "none" /\ GoOn(c, "switch")
          /\ tree' = [tree EXCEPT ![b] = "clean"] /\ ahead' = [ahead EXCEPT ![b] = TRUE]
       \/ Throws(c) /\ UNCHANGED <<tree, ahead>>
    /\ UNCHANGED <<outcome, found, branch, excluded, merging, inTarget, logLost>>

\* Mutant: the switch throws an open merge away.
SwitchForced(c) ==
    /\ Standing(c, "switch")
    /\ GoOn(c, "merge") /\ merging' = NoCall
    /\ UNCHANGED <<outcome, found, tree, branch, ahead, excluded, inTarget, logLost>>

\* switch to the target branch: git refuses while a merge is open.
Switch(c) ==
    /\ Standing(c, "switch")
    /\ \/ merging = NoCall /\ GoOn(c, "merge")
       \/ Throws(c)
    /\ UNCHANGED <<outcome, found, repoVars, logLost>>

\* merge --no-ff.  A conflict stays open in the main checkout: nothing aborts it.
Merge(c) ==
    LET b == On[c] IN
    /\ Standing(c, "merge")
    /\ \/ /\ branch[b] /\ merging = NoCall
          /\ inTarget' = inTarget \cup {b} /\ ahead' = [ahead EXCEPT ![b] = FALSE]
          /\ Returns(c, "record") /\ UNCHANGED merging
       \/ /\ "conflict" \in OpsFaults /\ branch[b] /\ ahead[b] /\ merging = NoCall
          /\ merging' = b
          /\ Throws(c) /\ UNCHANGED <<ahead, inTarget>>
       \/ Throws(c) /\ UNCHANGED <<ahead, merging, inTarget>>
    /\ UNCHANGED <<outcome, found, tree, branch, excluded, logLost>>

-----------------------------------------------------------------------------
(* After the lock, and around it.                                          *)

\* Mutant: the answer does not wait for the exclude file.
ExcludesSkipped(c) ==
    /\ at[c] = "excludes" /\ pc[c] \in {"idle", "resolved"}
    /\ at' = [at EXCEPT ![c] = "record"]
    /\ UNCHANGED <<lockVars, outcome, found, repoVars, logLost>>

\* configureOperationalExcludes: read, append what is missing, record.  Without
\* the lock: two calls may both append, which does no harm.
Excludes(c) ==
    /\ at[c] = "excludes" /\ pc[c] \in {"idle", "resolved"}
    /\ \/ at' = [at EXCEPT ![c] = "record"] /\ excluded' = TRUE /\ UNCHANGED <<outcome, logLost>>
       \/ "files" \in OpsFaults /\ excluded' \in {excluded, TRUE} /\ Answer(c, FALSE)
    /\ UNCHANGED <<lockVars, found, tree, branch, ahead, merging, inTarget>>

\* Mutant: a rejected lock is answered like a resolved one.
FinishAnyway(c) ==
    /\ \/ at[c] = "record" /\ pc[c] \in {"idle", "resolved"}
       \/ at[c] # "returned" /\ pc[c] = "timeout"
    /\ Answer(c, TRUE)
    /\ UNCHANGED <<lockVars, found, repoVars>>

\* WORKTREE_CREATED, WORKTREE_REUSED, WORKTREE_REMOVED or
\* MERGE_AND_COMMIT_SUCCEEDED; or the catch block, when the lock has timed out.
Finish(c) ==
    /\ \/ at[c] = "record" /\ pc[c] \in {"idle", "resolved"} /\ Answer(c, TRUE)
       \/ at[c] # "returned" /\ pc[c] = "timeout" /\ Answer(c, FALSE)
    /\ UNCHANGED <<lockVars, found, repoVars>>

LockStep(c) ==
    /\ Check(c) \/ WriteLock(c) \/ RecordAcquired(c) \/ Unlink(c) \/ Wait(c)
    /\ UNCHANGED <<callVars, repoVars, logLost>>

\* A process that dies while git adds a worktree may leave half of one.
Die(c) ==
    /\ Crash(c)
    /\ at' = [at EXCEPT ![c] = "returned"]
    /\ \/ UNCHANGED tree
       \/ Standing(c, "add") /\ tree[On[c]] = "none" /\ tree' = [tree EXCEPT ![On[c]] = "partial"]
    /\ UNCHANGED <<outcome, found, branch, ahead, excluded, merging, inTarget, logLost>>

\* The agent works in a finished worktree.  Other tools of its last turn may run
\* on while the merge of its signal is at work: what they write after the status
\* was read is late.
Edit(b) ==
    LET isRead == \E c \in Call : /\ On[c] = b /\ Op[c] = "merge"
                                 /\ at[c] \notin {"new", "status"}
    IN  /\ tree[b] = "clean"
        /\ tree' = [tree EXCEPT ![b] = IF isRead THEN "late" ELSE "dirty"]
        /\ UNCHANGED <<lockVars, callVars, branch, ahead, excluded, merging, inTarget, logLost>>

Command(c) ==
    Probe(c) \/ Add(c) \/ Remove(c) \/ Status(c) \/ Commit(c) \/ Switch(c) \/ Merge(c)

OpsNext ==
    \/ \E c \in Call :
        \/ BeginCreate(c) \/ BeginRemove(c) \/ BeginMerge(c)
        \/ LockStep(c) \/ Command(c) \/ Excludes(c) \/ Finish(c) \/ Die(c)
    \/ \E b \in Bead : Edit(b)

OpsSpec == OpsInit /\ [][OpsNext]_opsVars

-----------------------------------------------------------------------------
OpsTypeOK ==
    /\ TypeOK
    /\ at \in [Call -> {"new", "probe", "add", "remove", "status", "commit", "switch", "merge",
                        "excludes", "record", "returned"}]
    /\ outcome \in [Call -> {"none", "success", "failure"}] /\ found \in [Call -> BOOLEAN]
    /\ tree \in [Bead -> {"none", "partial", "clean", "dirty", "late"}]
    /\ branch \in [Bead -> BOOLEAN] /\ ahead \in [Bead -> BOOLEAN] /\ excluded \in BOOLEAN
    /\ merging \in Bead \cup {NoCall} /\ inTarget \subseteq Bead /\ logLost \in BOOLEAN

\* What merge_and_commit answers is what happened, through retries, timeouts and
\* other calls inside the lock: success means that all the work of the bead is
\* in the target branch; failure, after which the handler blocks the bead, means
\* that it is not, unless the log could not be written.
HonestMerge ==
    \A c \in Call : Op[c] = "merge" =>
        /\ outcome[c] = "success" =>
              On[c] \in inTarget /\ ~ahead[On[c]] /\ tree[On[c]] # "dirty"
        /\ outcome[c] = "failure" => On[c] \notin inTarget \/ logLost

\* The forced removal of a worktree never takes uncommitted work with it: the
\* merge reads the status anew in every attempt, under the lock.
NoWorkLost == [][\A b \in Bead : tree[b] = "dirty" => tree'[b] # "none"]_opsVars

\* Whoever is told that a worktree was created finds it complete, with its
\* branch and the excludes that keep the harness's own files out of commits,
\* although reuse takes any directory for a worktree and the excludes are outside
\* the lock.  Only a worktree that a process died over may be half of one.
CreatedIsWhole ==
    [][\A c \in Call :
        Op[c] = "create" /\ outcome[c] = "none" /\ outcome'[c] = "success" =>
            /\ excluded /\ tree[On[c]] # "none"
            /\ \/ tree[On[c]] # "partial" /\ branch[On[c]]
               \/ \E d \in Call : On[d] = On[c] /\ pc[d] = "dead"]_opsVars

\* No code path ends an open merge: after a conflict no bead is merged any more.
ConflictBlocks == [][merging # NoCall => merging' = merging /\ inTarget' = inTarget]_opsVars

\* The tools keep to the protocol of withGitLock as GitLock has it, with their
\* commands for its callback, so what holds of the lock holds under them.
KeepsLockProtocol == Spec

Done(c) ==
    \/ outcome[c] = "success"
    \/ outcome[c] = "none" /\ (fnResult[c] = "ok" \/ at[c] \in {"excludes", "record"})

\* A tool that is retried, times out or leaves half of its work behind is still
\* the single operation that Supervisor and handleTeammateEvent take it for.
Tools == INSTANCE GitTools WITH
    effect <- [c \in Call |-> Done(c)],
    answer <- outcome,
    worktree <- {b \in Bead : tree[b] # "none"},
    target <- inTarget

ActsAsOne == Tools!Spec
=============================================================================
