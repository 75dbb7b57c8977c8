--------------------------- MODULE GitLockProofs ----------------------------
(***************************************************************************)
(* Machine-checked proofs about GitLock, for any set of calls, any number  *)
(* of retries and any set of faults.                                       *)
(***************************************************************************)
EXTENDS GitLock, TLAPS

\* Type correctness of the lock's state, and the bound on the retry counter
\* (it needs the loop's condition: a waiting call has a retry left).
RetryLeft == \A c \in Call : pc[c] \notin Settled => retries[c] > 0

LEMMA TypeStep == TypeOK /\ RetryLeft /\ [Next]_vars => TypeOK' /\ RetryLeft'
<1> SUFFICES ASSUME TypeOK, RetryLeft, [Next]_vars PROVE TypeOK' /\ RetryLeft'
  OBVIOUS
<1> USE RetriesAssumption, FaultsAssumption
<1> USE DEF TypeOK, RetryLeft, PCs, Inside, Settled, Results, Goto
<1>1. ASSUME NEW c \in Call, Enter(c) PROVE TypeOK' /\ RetryLeft'
  BY <1>1 DEF Enter
<1>2. ASSUME NEW c \in Call, Check(c) PROVE TypeOK' /\ RetryLeft'
  BY <1>2 DEF Check
<1>3. ASSUME NEW c \in Call, WriteLock(c) PROVE TypeOK' /\ RetryLeft'
  BY <1>3 DEF WriteLock
<1>4. ASSUME NEW c \in Call, RecordAcquired(c) PROVE TypeOK' /\ RetryLeft'
  BY <1>4 DEF RecordAcquired
<1>5. ASSUME NEW c \in Call, RunFn(c) PROVE TypeOK' /\ RetryLeft'
  BY <1>5 DEF RunFn
<1>6. ASSUME NEW c \in Call, Unlink(c) PROVE TypeOK' /\ RetryLeft'
  BY <1>6 DEF Unlink
<1>7. ASSUME NEW c \in Call, Wait(c) PROVE TypeOK' /\ RetryLeft'
  BY <1>7 DEF Wait
<1>8. ASSUME NEW c \in Call, Crash(c) PROVE TypeOK' /\ RetryLeft'
  BY <1>8 DEF Crash
<1>9. CASE UNCHANGED vars
  BY <1>9 DEF vars
<1>10. QED
  BY <1>1, <1>2, <1>3, <1>4, <1>5, <1>6, <1>7, <1>8, <1>9 DEF Next, Step

\* TypeOK holds in every reachable state: the retry counter never leaves
\* 0 .. MaxRetries, because the loop ends before it would.
THEOREM TypeCorrect == Spec => [](TypeOK /\ RetryLeft)
<1>1. Init => TypeOK /\ RetryLeft
  <2>1. MaxRetries \in 0 .. MaxRetries /\ MaxRetries > 0
    BY RetriesAssumption
  <2>2. Init => TypeOK
    BY <2>1 DEF Init, TypeOK, PCs, Results
  <2>3. Init => RetryLeft
    BY <2>1 DEF Init, RetryLeft
  <2>4. QED
    BY <2>2, <2>3
<1>2. QED
  BY <1>1, TypeStep, PTL DEF Spec

-----------------------------------------------------------------------------
\* One step preserves LockHasOwner: only WriteLock creates the file, and its
\* caller is then inside; only Unlink leaves the inside without a fault, and
\* it leaves no file behind, whoever wrote it.
LEMMA OwnerStep == TypeOK /\ LockHasOwner /\ [Next]_vars => LockHasOwner'
<1> SUFFICES ASSUME TypeOK, LockHasOwner, [Next]_vars, lockFile', ~broken'
             PROVE  \E c \in Call : pc'[c] \in Inside
  BY DEF LockHasOwner
<1> USE DEF TypeOK, Goto
<1>0. broken = FALSE
  BY DEF Next, Step, Enter, Check, WriteLock, RecordAcquired, RunFn, Unlink, Wait, Crash, vars
<1>1. CASE lockFile = FALSE
  <2>1. PICK c \in Call : WriteLock(c)
    BY <1>1 DEF Next, Step, Enter, Check, RecordAcquired, RunFn, Unlink, Wait, Crash, vars
  <2>2. pc'[c] = "acquired"
    BY <2>1 DEF WriteLock
  <2>3. QED
    BY <2>2 DEF Inside
<1>2. CASE lockFile = TRUE
  <2>1. PICK o \in Call : pc[o] \in Inside
    BY <1>0, <1>2 DEF LockHasOwner
  <2>2. ASSUME NEW c \in Call, Step(c) PROVE pc'[o] \in Inside \/ pc'[c] \in Inside
    BY <2>1, <2>2
       DEF Step, Check, WriteLock, RecordAcquired, RunFn, Unlink, Wait, Inside
  <2>3. ASSUME NEW c \in Call, Enter(c) \/ Crash(c) PROVE pc'[o] \in Inside
    BY <2>1, <2>3 DEF Enter, Crash, Inside
  <2>4. CASE UNCHANGED vars
    BY <2>1, <2>4 DEF vars
  <2>5. QED
    BY <2>2, <2>3, <2>4 DEF Next
<1>3. QED
  BY <1>1, <1>2 DEF TypeOK

\* For any number of racing calls, the lock file is on disk only while some
\* call is between its write and its unlink, until something fails half-way.
THEOREM LockOwned == Spec => []LockHasOwner
<1>1. Init => LockHasOwner
  BY DEF Init, LockHasOwner
<1>2. QED
  BY <1>1, OwnerStep, TypeCorrect, PTL DEF Spec

-----------------------------------------------------------------------------
\* A stale lock file is permanent, for any number of later calls and under
\* every combination of faults: no path of withGitLock removes a file it did
\* not write itself.
THEOREM StaleStays == Spec => StaleForever
<1>1. TypeOK /\ Stale /\ [Next]_vars => Stale'
  <2> SUFFICES ASSUME TypeOK, Stale, [Next]_vars PROVE Stale'
    OBVIOUS
  <2> USE DEF TypeOK, Stale, Inside, Goto
  <2>1. ASSUME NEW c \in Call, Step(c) PROVE Stale'
    BY <2>1 DEF Step, Check, WriteLock, RecordAcquired, RunFn, Unlink, Wait
  <2>2. ASSUME NEW c \in Call, Enter(c) \/ Crash(c) PROVE Stale'
    BY <2>2 DEF Enter, Crash
  <2>3. CASE UNCHANGED vars
    BY <2>3 DEF vars
  <2>4. QED
    BY <2>1, <2>2, <2>3 DEF Next
<1>2. QED
  BY <1>1, TypeCorrect, PTL DEF Spec, StaleForever

-----------------------------------------------------------------------------
\* A callback runs at most to its first success: after that its call can only
\* unlink, resolve or die.
ResultHonest ==
    \A c \in Call :
        /\ pc[c] = "resolved" => fnResult[c] = "ok"
        /\ fnResult[c] = "ok" => pc[c] \in {"unlink", "resolved", "dead"}

LEMMA ResultStep == TypeOK /\ ResultHonest /\ [Next]_vars => ResultHonest'
<1> SUFFICES ASSUME TypeOK, ResultHonest, [Next]_vars, NEW d \in Call
             PROVE  /\ pc'[d] = "resolved" => fnResult'[d] = "ok"
                    /\ fnResult'[d] = "ok" => pc'[d] \in {"unlink", "resolved", "dead"}
  BY DEF ResultHonest
<1> USE DEF TypeOK, ResultHonest, Goto
<1>1. ASSUME NEW c \in Call, Enter(c) \/ Check(c) \/ WriteLock(c) \/ RecordAcquired(c) \/ Wait(c)
      PROVE  /\ fnResult' = fnResult
             /\ pc'[d] = pc[d] \/ (pc[d] \notin {"unlink", "resolved", "dead"} /\ pc'[d] # "resolved")
  BY <1>1 DEF Enter, Check, WriteLock, RecordAcquired, Wait
<1>2. ASSUME NEW c \in Call, RunFn(c)
      PROVE  /\ pc'[d] = "resolved" => fnResult'[d] = "ok"
             /\ fnResult'[d] = "ok" => pc'[d] \in {"unlink", "resolved", "dead"}
  BY <1>2 DEF RunFn
<1>3. ASSUME NEW c \in Call, Unlink(c)
      PROVE  /\ pc'[d] = "resolved" => fnResult'[d] = "ok"
             /\ fnResult'[d] = "ok" => pc'[d] \in {"unlink", "resolved", "dead"}
  BY <1>3 DEF Unlink
<1>4. ASSUME NEW c \in Call, Crash(c)
      PROVE  /\ pc'[d] = "resolved" => fnResult'[d] = "ok"
             /\ fnResult'[d] = "ok" => pc'[d] \in {"unlink", "resolved", "dead"}
  BY <1>4 DEF Crash
<1>5. CASE UNCHANGED vars
  BY <1>5 DEF vars
<1>6. QED
  BY <1>1, <1>2, <1>3, <1>4, <1>5 DEF Next, Step

\* However often a callback is retried and whoever dies, a call that resolves
\* has run it to success, and none gives up while retries are left.
THEOREM OutcomeHonest == Spec => []HonestOutcome
<1>1. Init => ResultHonest
  BY DEF Init, ResultHonest
<1>2. TypeOK /\ RetryLeft /\ ResultHonest => HonestOutcome
  BY DEF RetryLeft, ResultHonest, HonestOutcome, Settled, Inside
<1>3. QED
  BY <1>1, <1>2, ResultStep, TypeCorrect, PTL DEF Spec
=============================================================================
