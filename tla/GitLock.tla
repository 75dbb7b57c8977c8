------------------------------- MODULE GitLock -------------------------------
(***************************************************************************)
(* withGitLock (src/plugins/git.ts): the advisory lock file under which    *)
(* create_worktree, remove_worktree and merge_and_commit run their git     *)
(* commands.  A Call is one invocation of withGitLock; calls belong to the *)
(* asynchronous handlers of one coordinator and to other pi sessions of    *)
(* the same checkout, so their awaits interleave freely.                   *)
(*                                                                         *)
(* Every await is a step boundary.  The file's content (a pid) is written  *)
(* and never read, so the file is modelled by whether it exists.           *)
(***************************************************************************)
EXTENDS Integers, FiniteSets

CONSTANTS
    Call,          \* invocations of withGitLock
    MaxRetries,    \* WorktreeDefaults.MAX_LOCK_RETRIES
    Faults         \* what may go wrong in this instance

FaultKinds == {"fn", "write", "record", "unlink", "crash"}

ASSUME RetriesAssumption == MaxRetries \in Nat \ {0}
ASSUME FaultsAssumption  == Faults \subseteq FaultKinds

VARIABLES
    pc,         \* pc[c]: the await call c stands at
    retries,    \* retries[c]: iterations of the while loop c has left
    fnResult,   \* fnResult[c]: how the latest run of c's callback ended
    lockFile,   \* does GIT_LOCK_FILE exist
    broken      \* has a write, a record, an unlink or a process failed (history)

vars == <<pc, retries, fnResult, lockFile, broken>>

Inside  == {"acquired", "body", "unlink"}             \* between write and unlink
Settled == {"resolved", "timeout", "dead"}
PCs     == {"idle", "check", "write", "wait"} \cup Inside \cup Settled
Results == {"none", "ok", "failed"}

Init ==
    /\ pc = [c \in Call |-> "idle"]
    /\ retries = [c \in Call |-> MaxRetries]
    /\ fnResult = [c \in Call |-> "none"]
    /\ lockFile = FALSE /\ broken = FALSE

Goto(c, from, to) == pc[c] = from /\ pc' = [pc EXCEPT ![c] = to]

-----------------------------------------------------------------------------
Enter(c) ==
    /\ Goto(c, "idle", "check")
    /\ UNCHANGED <<retries, fnResult, lockFile, broken>>

\* fs.existsSync: the answer is acted on after the next await.
Check(c) ==
    /\ Goto(c, "check", IF lockFile THEN "wait" ELSE "write")
    /\ UNCHANGED <<retries, fnResult, lockFile, broken>>

\* writeFile without the 'wx' flag: it overwrites a file that appeared since
\* the check.  A failed write may or may not have created the file.
WriteLock(c) ==
    \/ /\ Goto(c, "write", "acquired")
       /\ lockFile' = TRUE
       /\ UNCHANGED <<retries, fnResult, broken>>
    \/ /\ "write" \in Faults
       /\ Goto(c, "write", "wait")
       /\ lockFile' \in {lockFile, TRUE} /\ broken' = TRUE
       /\ UNCHANGED <<retries, fnResult>>

\* GIT_LOCK_ACQUIRED is recorded after the file is written and before the
\* try whose finally removes it: if the append fails, the file stays.
RecordAcquired(c) ==
    /\ \/ Goto(c, "acquired", "body") /\ UNCHANGED broken
       \/ /\ "record" \in Faults
          /\ Goto(c, "acquired", "wait") /\ broken' = TRUE
    /\ UNCHANGED <<retries, fnResult, lockFile>>

RunFn(c) ==
    /\ Goto(c, "body", "unlink")
    /\ \E r \in IF "fn" \in Faults THEN {"ok", "failed"} ELSE {"ok"} :
          fnResult' = [fnResult EXCEPT ![c] = r]
    /\ UNCHANGED <<retries, lockFile, broken>>

\* Mutant: the finally block is forgotten on the path that throws.
UnlinkOnSuccess(c) ==
    /\ Goto(c, "unlink", IF fnResult[c] = "ok" THEN "resolved" ELSE "wait")
    /\ lockFile' = IF fnResult[c] = "ok" THEN FALSE ELSE lockFile
    /\ UNCHANGED <<retries, fnResult, broken>>

\* Mutant: the callback's rejection is dropped by the finally block.
UnlinkResolves(c) ==
    /\ Goto(c, "unlink", "resolved")
    /\ lockFile' = FALSE
    /\ UNCHANGED <<retries, fnResult, broken>>

\* The finally block; an unlink that fails, for a missing file (ENOENT) or for
\* another reason, and a failed record are swallowed.  Then the callback's value
\* is returned, or its error reaches the outer catch, which ignores it.
Unlink(c) ==
    /\ Goto(c, "unlink", IF fnResult[c] = "ok" THEN "resolved" ELSE "wait")
    /\ \/ lockFile' = FALSE /\ UNCHANGED broken
       \/ "unlink" \in Faults /\ broken' = TRUE /\ UNCHANGED lockFile
    /\ UNCHANGED <<retries, fnResult>>

\* Mutant: the loop forgets to count the attempt.
WaitForever(c) ==
    /\ Goto(c, "wait", "check")
    /\ UNCHANGED <<retries, fnResult, lockFile, broken>>

\* Mutant: the loop runs while retries >= 0.
WaitOneMore(c) ==
    /\ Goto(c, "wait", IF retries[c] = 0 THEN "timeout" ELSE "check")
    /\ retries' = [retries EXCEPT ![c] = @ - 1]
    /\ UNCHANGED <<fnResult, lockFile, broken>>

\* Mutant: the timeout path removes the file as if it were stale.
WaitCleansUp(c) ==
    /\ Goto(c, "wait", IF retries[c] = 1 THEN "timeout" ELSE "check")
    /\ retries' = [retries EXCEPT ![c] = @ - 1]
    /\ lockFile' = IF retries[c] = 1 THEN FALSE ELSE lockFile
    /\ UNCHANGED <<fnResult, broken>>

\* The LOCK_WAIT_MS timer, retries--, and the loop's condition.
Wait(c) ==
    /\ Goto(c, "wait", IF retries[c] = 1 THEN "timeout" ELSE "check")
    /\ retries' = [retries EXCEPT ![c] = @ - 1]
    /\ UNCHANGED <<fnResult, lockFile, broken>>

\* The process of the call dies; the file outlives it.
Crash(c) ==
    /\ "crash" \in Faults
    /\ pc[c] \notin Settled \cup {"idle"}
    /\ pc' = [pc EXCEPT ![c] = "dead"] /\ broken' = TRUE
    /\ UNCHANGED <<retries, fnResult, lockFile>>

Step(c) ==
    \/ Check(c) \/ WriteLock(c) \/ RecordAcquired(c)
    \/ RunFn(c) \/ Unlink(c) \/ Wait(c)

Next == \E c \in Call : Enter(c) \/ Step(c) \/ Crash(c)

Spec == Init /\ [][Next]_vars

\* The event loop resumes every pending await; git commands terminate.
FairSpec == Spec /\ \A c \in Call : WF_vars(Step(c))

-----------------------------------------------------------------------------
TypeOK ==
    /\ pc \in [Call -> PCs]
    /\ retries \in [Call -> 0 .. MaxRetries]
    /\ fnResult \in [Call -> Results]
    /\ lockFile \in BOOLEAN /\ broken \in BOOLEAN

\* The lock file exists only while some call stands between its write and its
\* unlink, however the callers interleave and overwrite or remove each other's
\* file, unless a write, a record, an unlink or a process has failed.
LockHasOwner == lockFile /\ ~broken => \E c \in Call : pc[c] \in Inside

\* A call that resolves ran its callback to success after its last failure, and
\* a call gives up only after its last retry: no failed git command is reported
\* as done, and no call is rejected early.
HonestOutcome ==
    \A c \in Call :
        /\ pc[c] = "resolved" => fnResult[c] = "ok"
        /\ fnResult[c] = "ok" => pc[c] \in {"unlink", "resolved", "dead"}
        /\ pc[c] \in {"check", "write", "wait"} \cup Inside => retries[c] > 0

\* A lock file nobody is about to remove: every call has seen it or will.
Stale == lockFile /\ \A c \in Call : pc[c] \notin Inside \cup {"write"}

\* No code path repairs a lock file left by a dead process, a failed record or a
\* failed unlink:
\* once stale it stays, so no callback of any later call ever runs again.
StaleForever == [][Stale => Stale']_vars

\* The comment at git.ts:54 says that the error ignored is the write error of a
\* caller that another process beat: two calls never both hold the lock.
MutualExclusion == Cardinality({c \in Call : pc[c] \in Inside}) <= 1

\* Every call that entered settles: a holder that is slow, dead or has leaked
\* the file costs the others MAX_LOCK_RETRIES waits and never a hang.
EveryCallSettles == \A c \in Call : pc[c] = "check" ~> pc[c] \in Settled
=============================================================================
