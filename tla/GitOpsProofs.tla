---------------------------- MODULE GitOpsProofs ----------------------------
(***************************************************************************)
(* Machine-checked proofs about GitOps: for any number of calls and beads, *)
(* any order of calls and every set of faults, the git tools keep to the   *)
(* protocol of the lock and act as the single operations their callers     *)
(* take them for.                                                          *)
(***************************************************************************)
EXTENDS GitOps, GitLockProofs

\* What the steps of GitOps do to the variables of GitLock.
LEMMA EnterLockIsLock == ASSUME NEW c \in Call, EnterLock(c) PROVE Next
  BY DEF EnterLock, Next

LEMMA EndsIsLock ==
  ASSUME NEW c \in Call, NEW r \in {"ok", "failed"}, NEW to, Ends(c, r, to) PROVE Next
<1>1. RunFn(c)
  BY OpsAssumption DEF Ends, RunFn
<1>2. QED
  BY <1>1 DEF Next, Step

LEMMA CommandIsLock == ASSUME NEW c \in Call, Command(c) PROVE [Next]_vars
<1> USE DEF GoOn, lockVars, vars
<1>1. ASSUME NEW to, Returns(c, to) PROVE Next
  BY <1>1, EndsIsLock DEF Returns
<1>2. ASSUME Throws(c) PROVE Next
  BY <1>2, EndsIsLock DEF Throws
<1>3. CASE Probe(c)
  BY <1>3 DEF Probe
<1>4. CASE Add(c)
  BY <1>1, <1>2, <1>4 DEF Add
<1>5. CASE Remove(c)
  BY <1>1, <1>2, <1>5 DEF Remove
<1>6. CASE Status(c)
  BY <1>2, <1>6 DEF Status
<1>7. CASE Commit(c)
  BY <1>2, <1>7 DEF Commit
<1>8. CASE Switch(c)
  BY <1>2, <1>8 DEF Switch
<1>9. CASE Merge(c)
  BY <1>1, <1>2, <1>9 DEF Merge
<1>10. QED
  BY <1>3, <1>4, <1>5, <1>6, <1>7, <1>8, <1>9 DEF Command

LEMMA StepIsLock == [OpsNext]_opsVars => [Next]_vars
<1> SUFFICES ASSUME [OpsNext]_opsVars PROVE [Next]_vars
  OBVIOUS
<1> USE DEF lockVars, vars
<1>1. ASSUME NEW c \in Call, BeginCreate(c) \/ BeginRemove(c) \/ BeginMerge(c) PROVE [Next]_vars
  BY <1>1, EnterLockIsLock DEF BeginCreate, BeginRemove, BeginMerge
<1>2. ASSUME NEW c \in Call, LockStep(c) PROVE Next
  BY <1>2 DEF LockStep, Next, Step
<1>3. ASSUME NEW c \in Call, Command(c) PROVE [Next]_vars
  BY <1>3, CommandIsLock
<1>4. ASSUME NEW c \in Call, Excludes(c) \/ Finish(c) PROVE UNCHANGED vars
  BY <1>4 DEF Excludes, Finish
<1>5. ASSUME NEW c \in Call, Die(c) PROVE Next
  BY <1>5 DEF Die, Next
<1>6. ASSUME NEW b \in Bead, Edit(b) PROVE UNCHANGED vars
  BY <1>6 DEF Edit
<1>7. CASE UNCHANGED opsVars
  BY <1>7 DEF opsVars
<1>8. QED
  BY <1>1, <1>2, <1>3, <1>4, <1>5, <1>6, <1>7 DEF OpsNext

\* The tools implement the lock's specification, whatever their commands do.
THEOREM LockProtocolKept == OpsSpec => KeepsLockProtocol
<1>1. OpsInit => Init
  BY DEF OpsInit
<1>2. QED
  BY <1>1, StepIsLock, PTL DEF OpsSpec, Spec, KeepsLockProtocol

\* What is proved of the lock therefore holds while the tools run under it.
COROLLARY LockUnderTools ==
  OpsSpec => [](TypeOK /\ RetryLeft) /\ []LockHasOwner /\ []HonestOutcome /\ StaleForever
BY LockProtocolKept, TypeCorrect, LockOwned, OutcomeHonest, StaleStays, PTL DEF KeepsLockProtocol

-----------------------------------------------------------------------------
(* Types, and where a call can stand.                                      *)

Commands == {"probe", "add", "remove", "status", "commit", "switch", "merge"}

\* A call stands at the commands of its own tool; it has an answer when it has
\* returned, and its callback has ended well when it is past its commands.
Placed(c) ==
    /\ at[c] \in {"probe", "add", "excludes"} => Op[c] = "create"
    /\ at[c] = "remove" => Op[c] = "remove"
    /\ at[c] \in {"status", "commit", "switch", "merge"} => Op[c] = "merge"
    /\ outcome[c] # "none" => at[c] = "returned"
    /\ at[c] = "new" => pc[c] = "idle"
    /\ at[c] = "returned" => pc[c] \in Settled \cup {"idle"}
    /\ at[c] \in {"excludes", "record"} => fnResult[c] = "ok" \/ pc[c] = "idle"

PlacedInv == \A c \in Call : Placed(c)

OpsInv == OpsTypeOK /\ RetryLeft /\ ResultHonest /\ PlacedInv

\* Only call c is touched.
Alone(c) ==
    \A d \in Call \ {c} : /\ pc'[d] = pc[d] /\ fnResult'[d] = fnResult[d]
                          /\ at'[d] = at[d] /\ outcome'[d] = outcome[d]

LEMMA AloneKeeps ==
  ASSUME PlacedInv, NEW c \in Call, Alone(c), Placed(c)' PROVE PlacedInv'
BY DEF PlacedInv, Alone, Placed

\* The types of the variables that GitOps adds to those of GitLock.
CallTypes ==
    /\ at \in [Call -> Commands \cup {"new", "excludes", "record", "returned"}]
    /\ outcome \in [Call -> {"none", "success", "failure"}] /\ found \in [Call -> BOOLEAN]
    /\ logLost \in BOOLEAN

RepoTypes ==
    /\ tree \in [Bead -> {"none", "partial", "clean", "dirty", "late"}]
    /\ branch \in [Bead -> BOOLEAN] /\ ahead \in [Bead -> BOOLEAN] /\ excluded \in BOOLEAN
    /\ merging \in Bead \cup {NoCall} /\ inTarget \subseteq Bead

LEMMA TypeParts == OpsTypeOK <=> TypeOK /\ CallTypes /\ RepoTypes
BY DEF OpsTypeOK, CallTypes, RepoTypes, Commands

LEMMA BeginStep ==
  ASSUME OpsInv, NEW c \in Call, BeginCreate(c) \/ BeginRemove(c) \/ BeginMerge(c)
  PROVE  CallTypes' /\ RepoTypes' /\ PlacedInv'
<1> USE TypeParts, OpsAssumption
<1> USE DEF OpsInv, BeginCreate, BeginRemove, BeginMerge, EnterLock, Enter, Goto, Answer, First
<1>1. CallTypes' /\ RepoTypes'
  BY DEF CallTypes, RepoTypes, Commands, repoVars, OpKind, lockVars
<1>2. Alone(c)
  BY DEF Alone, TypeOK, CallTypes, lockVars
<1>3. Placed(c)'
  BY DEF PlacedInv, Placed, Commands, TypeOK, CallTypes, lockVars, ResultHonest
<1>4. QED
  BY <1>1, <1>2, <1>3, AloneKeeps

LEMMA CommandTypes == ASSUME OpsInv, NEW c \in Call, Command(c) PROVE CallTypes' /\ RepoTypes'
<1>1. CallTypes /\ RepoTypes /\ On[c] \in Bead /\ Op[c] \in OpKind
  BY TypeParts, OpsAssumption DEF OpsInv
<1>2. First(c) \in Commands
  BY <1>1 DEF First, Commands, OpKind
<1> USE <1>1, <1>2 DEF Ends, Returns, Throws, GoOn
<1>3. CASE Probe(c)
  <2>1. branch[On[c]] = TRUE \/ branch[On[c]] = FALSE
    BY DEF RepoTypes
  <2>2. found' = [found EXCEPT ![c] = TRUE] \/ found' = [found EXCEPT ![c] = FALSE]
    BY <1>3, <2>1, Zenon DEF Probe
  <2>3. at' = [at EXCEPT ![c] = "add"] /\ UNCHANGED <<outcome, logLost>>
    BY <1>3 DEF Probe
  <2>4. CallTypes'
    BY <2>2, <2>3 DEF CallTypes, Commands
  <2>5. RepoTypes'
    BY <1>3 DEF Probe, RepoTypes, repoVars
  <2>6. QED
    BY <2>4, <2>5
<1>4. CASE Add(c)
  <2>1. /\ UNCHANGED <<outcome, logLost>> /\ found' = [found EXCEPT ![c] = FALSE]
        /\ at' = [at EXCEPT ![c] = "excludes"] \/ at' = [at EXCEPT ![c] = First(c)]
    BY <1>4 DEF Add
  <2>2. CallTypes'
    BY <2>1 DEF CallTypes, Commands
  <2>3. RepoTypes'
    BY <1>4 DEF Add, RepoTypes
  <2>4. QED
    BY <2>2, <2>3
<1>5. CASE Remove(c)
  <2>1. CallTypes'
    BY <1>5 DEF Remove, CallTypes, Commands
  <2>2. RepoTypes'
    BY <1>5 DEF Remove, RepoTypes
  <2>3. QED
    BY <2>1, <2>2
<1>6. CASE Status(c)
  <2>1. CallTypes'
    BY <1>6 DEF Status, CallTypes, Commands
  <2>2. RepoTypes'
    BY <1>6 DEF Status, RepoTypes, repoVars
  <2>3. QED
    BY <2>1, <2>2
<1>7. CASE Commit(c)
  <2>1. CallTypes'
    BY <1>7 DEF Commit, CallTypes, Commands
  <2>2. RepoTypes'
    BY <1>7 DEF Commit, RepoTypes
  <2>3. QED
    BY <2>1, <2>2
<1>8. CASE Switch(c)
  <2>1. CallTypes'
    BY <1>8 DEF Switch, CallTypes, Commands
  <2>2. RepoTypes'
    BY <1>8 DEF Switch, RepoTypes, repoVars
  <2>3. QED
    BY <2>1, <2>2
<1>9. CASE Merge(c)
  <2>1. CallTypes'
    BY <1>9 DEF Merge, CallTypes, Commands
  <2>2. RepoTypes'
    BY <1>9 DEF Merge, RepoTypes
  <2>3. QED
    BY <2>1, <2>2
<1>10. QED
  BY <1>3, <1>4, <1>5, <1>6, <1>7, <1>8, <1>9 DEF Command

LEMMA CommandPlaced == ASSUME OpsInv, NEW c \in Call, Command(c) PROVE PlacedInv'
<1> USE TypeParts, OpsAssumption
<1>1. /\ pc[c] = "body" /\ at[c] \in Commands /\ UNCHANGED outcome
      /\ \/ UNCHANGED <<pc, fnResult>>
         \/ /\ pc' = [pc EXCEPT ![c] = "unlink"]
            /\ \/ fnResult' = [fnResult EXCEPT ![c] = "ok"]
               \/ fnResult' = [fnResult EXCEPT ![c] = "failed"]
      /\ \E to : at' = [at EXCEPT ![c] = to]
    BY DEF Command, Probe, Add, Remove, Status, Commit, Switch, Merge, Standing, GoOn, Ends,
           Returns, Throws, Goto, lockVars, repoVars, Commands
<1>2. Alone(c)
  BY <1>1 DEF OpsInv, Alone, TypeOK, CallTypes
<1> USE DEF OpsInv, CallTypes, TypeOK, PlacedInv, Placed, Standing, GoOn, Ends, Returns, Throws, First,
            Goto, lockVars, Settled, OpKind
<1>3. CASE Probe(c)
  BY <1>3 DEF Probe
<1>4. CASE Add(c)
  BY <1>4 DEF Add
<1>5. CASE Remove(c)
  BY <1>5 DEF Remove
<1>6. CASE Status(c)
  BY <1>6 DEF Status
<1>7. CASE Commit(c)
  BY <1>7 DEF Commit
<1>8. CASE Switch(c)
  BY <1>8 DEF Switch
<1>9. CASE Merge(c)
  BY <1>9 DEF Merge
<1>10. Placed(c)'
  BY <1>3, <1>4, <1>5, <1>6, <1>7, <1>8, <1>9 DEF Command
<1>11. QED
  BY <1>2, <1>10, AloneKeeps

LEMMA OtherStep ==
  ASSUME OpsInv, NEW c \in Call, LockStep(c) \/ Excludes(c) \/ Finish(c) \/ Die(c)
  PROVE  CallTypes' /\ RepoTypes' /\ PlacedInv'
<1> USE TypeParts, OpsAssumption
<1>1. CASE LockStep(c)
  <2> USE <1>1 DEF OpsInv, LockStep, Check, WriteLock, RecordAcquired, Unlink, Wait, Goto, callVars, repoVars
  <2>1. CallTypes' /\ RepoTypes'
    BY DEF CallTypes, RepoTypes
  <2>2. Alone(c)
    BY DEF Alone, TypeOK
  <2>3. Placed(c)'
    BY DEF PlacedInv, Placed, TypeOK, Settled
  <2>4. QED
    BY <2>1, <2>2, <2>3, AloneKeeps
<1>2. CASE Excludes(c)
  <2> USE <1>2 DEF OpsInv, Excludes, Answer, lockVars
  <2>1. CallTypes' /\ RepoTypes'
    BY DEF CallTypes, RepoTypes
  <2>2. Alone(c)
    BY DEF Alone, TypeOK, CallTypes
  <2>3. Placed(c)'
    BY DEF PlacedInv, Placed, TypeOK, CallTypes, Settled
  <2>4. QED
    BY <2>1, <2>2, <2>3, AloneKeeps
<1>3. CASE Finish(c)
  <2> USE <1>3 DEF OpsInv, Finish, Answer, lockVars, repoVars
  <2>1. CallTypes' /\ RepoTypes'
    BY DEF CallTypes, RepoTypes
  <2>2. Alone(c)
    BY DEF Alone, TypeOK, CallTypes
  <2>3. Placed(c)'
    BY DEF PlacedInv, Placed, TypeOK, CallTypes, Settled
  <2>4. QED
    BY <2>1, <2>2, <2>3, AloneKeeps
<1>4. CASE Die(c)
  <2> USE <1>4 DEF OpsInv, Die, Crash
  <2>1. CallTypes' /\ RepoTypes'
    BY DEF CallTypes, RepoTypes
  <2>2. Alone(c)
    BY DEF Alone, TypeOK, CallTypes
  <2>3. Placed(c)'
    BY DEF PlacedInv, Placed, TypeOK, CallTypes, Settled
  <2>4. QED
    BY <2>1, <2>2, <2>3, AloneKeeps
<1>5. QED
  BY <1>1, <1>2, <1>3, <1>4

LEMMA OpsInvStep == OpsInv /\ [OpsNext]_opsVars => OpsInv'
<1> SUFFICES ASSUME OpsInv, [OpsNext]_opsVars PROVE OpsInv'
  OBVIOUS
<1>1. TypeOK' /\ RetryLeft' /\ ResultHonest'
  BY StepIsLock, TypeStep, ResultStep, TypeParts DEF OpsInv
<1>2. ASSUME NEW b \in Bead, Edit(b) PROVE CallTypes' /\ RepoTypes' /\ PlacedInv'
  <2>1. CallTypes' /\ PlacedInv'
    BY <1>2, TypeParts DEF OpsInv, Edit, CallTypes, PlacedInv, Placed, callVars, lockVars
  <2>2. RepoTypes'
    BY <1>2, TypeParts DEF OpsInv, Edit, RepoTypes
  <2>3. QED
    BY <2>1, <2>2
<1>3. ASSUME UNCHANGED opsVars PROVE CallTypes' /\ RepoTypes' /\ PlacedInv'
  <2>1. UNCHANGED <<pc, fnResult>> /\ UNCHANGED callVars /\ UNCHANGED repoVars /\ UNCHANGED logLost
    BY <1>3 DEF opsVars, lockVars
  <2>2. CallTypes'
    BY <2>1, TypeParts DEF OpsInv, CallTypes, callVars
  <2>3. RepoTypes'
    BY <2>1, TypeParts DEF OpsInv, RepoTypes, repoVars
  <2>4. PlacedInv'
    BY <2>1 DEF OpsInv, PlacedInv, Placed, callVars
  <2>5. QED
    BY <2>2, <2>3, <2>4
<1>4. ASSUME NEW c \in Call, BeginCreate(c) \/ BeginRemove(c) \/ BeginMerge(c)
      PROVE  CallTypes' /\ RepoTypes' /\ PlacedInv'
  BY <1>4, BeginStep
<1>5. ASSUME NEW c \in Call, Command(c) PROVE CallTypes' /\ RepoTypes' /\ PlacedInv'
  BY <1>5, CommandTypes, CommandPlaced
<1>6. ASSUME NEW c \in Call, LockStep(c) \/ Excludes(c) \/ Finish(c) \/ Die(c)
      PROVE  CallTypes' /\ RepoTypes' /\ PlacedInv'
  BY <1>6, OtherStep
<1>7. CallTypes' /\ RepoTypes' /\ PlacedInv'
  BY <1>2, <1>3, <1>4, <1>5, <1>6 DEF OpsNext
<1>8. QED
  BY <1>1, <1>7 DEF OpsInv, OpsTypeOK, CallTypes, RepoTypes, Commands

LEMMA OpsInvInit == OpsInit => OpsInv
<1> SUFFICES ASSUME OpsInit PROVE OpsInv
  OBVIOUS
<1> USE OpsAssumption DEF OpsInit, Init
<1>1. TypeOK
  <2>1. MaxRetries \in 0 .. MaxRetries
    BY RetriesAssumption
  <2>2. QED
    BY <2>1 DEF TypeOK, PCs, Results
<1>2. CallTypes /\ RepoTypes
  <2>1. CallTypes
    BY DEF CallTypes
  <2>2. tree \in [Bead -> {"none", "partial", "clean", "dirty", "late"}]
    OBVIOUS
  <2>3. branch \in [Bead -> BOOLEAN] /\ ahead \in [Bead -> BOOLEAN] /\ excluded \in BOOLEAN
    <3>1. branch \in [Bead -> BOOLEAN]
      BY SMT
    <3>2. ahead \in [Bead -> BOOLEAN]
      BY SMT
    <3>3. excluded \in BOOLEAN
      BY Zenon
    <3>4. QED
      BY <3>1, <3>2, <3>3
  <2>4. merging \in Bead \cup {NoCall} /\ inTarget \subseteq Bead
    OBVIOUS
  <2>5. QED
    BY <2>1, <2>2, <2>3, <2>4 DEF RepoTypes
<1> USE RetriesAssumption
<1>3. RetryLeft /\ ResultHonest /\ PlacedInv
  BY DEF RetryLeft, ResultHonest, PlacedInv, Placed, Settled
<1>4. QED
  BY <1>1, <1>2, <1>3, TypeParts DEF OpsInv

LEMMA OpsInvAlways == OpsSpec => []OpsInv
BY OpsInvInit, OpsInvStep, PTL DEF OpsSpec

\* What the tools leave behind stays well formed, whatever fails and whoever
\* dies, with any number of calls at once.
THEOREM OpsTypeCorrect == OpsSpec => []OpsTypeOK
BY OpsInvAlways, PTL DEF OpsInv

-----------------------------------------------------------------------------
(* The tools as single operations.  Effect and worktree are the mapped     *)
(* variables; a step of one call is a step of that call in GitTools.       *)

Effect == [c \in Call |-> Done(c)]
Trees  == {b \in Bead : tree[b] # "none"}

Mapped == Tools!Next \/ UNCHANGED Tools!vars

LEMMA EffectAlone ==
  ASSUME NEW c \in Call, Alone(c) PROVE Effect' = [Effect EXCEPT ![c] = Done(c)']
<1>1. \A d \in Call \ {c} : Done(d)' = Done(d)
  BY DEF Alone, Done
<1>2. QED
  BY <1>1 DEF Effect

\* A step that leaves the effect, the answers, the directories and the target
\* alone is a stutter.
LEMMA Stutter ==
  ASSUME NEW c \in Call, Alone(c), Done(c)' <=> Done(c), UNCHANGED outcome, Trees' = Trees,
         UNCHANGED inTarget
  PROVE  Mapped
<1>1. Done(c)' = Done(c)
  BY DEF Done
<1>2. Effect' = Effect
  BY <1>1, EffectAlone DEF Effect
<1>3. QED
  BY <1>2 DEF Mapped, Tools!vars, Effect, Trees

LEMMA Works ==
  ASSUME NEW c \in Call, Alone(c), ~Done(c), Done(c)', UNCHANGED outcome, outcome[c] = "none",
         Trees' = CASE Op[c] = "create" -> Trees \cup {On[c]}
                    [] Op[c] = "remove" -> Trees \ {On[c]}
                    [] Op[c] = "merge"  -> Trees,
         inTarget' = IF Op[c] = "merge" THEN inTarget \cup {On[c]} ELSE inTarget
  PROVE  Mapped
<1>1. Done(c)' = TRUE
  BY DEF Done
<1>2. Effect' = [Effect EXCEPT ![c] = TRUE]
  BY <1>1, EffectAlone
<1>3. ~Effect[c]
  BY DEF Effect
<1>4. Tools!Work(c)
  BY <1>2, <1>3 DEF Tools!Work, Tools!TakeEffect, Tools!Does, Effect, Trees
<1>5. QED
  BY <1>4 DEF Mapped, Tools!Next

LEMMA Answers ==
  ASSUME OpsInv, NEW c \in Call, Alone(c), NEW success \in BOOLEAN, Answer(c, success),
         outcome[c] = "none", UNCHANGED <<fnResult, tree, inTarget>>,
         success => Done(c) \/ (Op[c] = "remove" /\ tree[On[c]] = "none")
  PROVE  Mapped
<1>1. outcome' = [outcome EXCEPT ![c] = "success"] \/ outcome' = [outcome EXCEPT ![c] = "failure"]
  BY DEF Answer
<1>2. c \in DOMAIN outcome /\ UNCHANGED Trees
  BY TypeParts DEF OpsInv, CallTypes, Trees
<1>3. CASE outcome' = [outcome EXCEPT ![c] = "failure"]
  <2>1. Done(c)' = FALSE
    BY <1>2, <1>3 DEF Done
  <2>2. Effect' = [Effect EXCEPT ![c] = FALSE]
    BY <2>1, EffectAlone
  <2>3. Tools!Fail(c)
    BY <1>2, <1>3, <2>2 DEF Tools!Fail, Effect, Trees
  <2>4. QED
    BY <2>3 DEF Mapped, Tools!Next
<1>4. CASE outcome' = [outcome EXCEPT ![c] = "success"]
  <2>1. Done(c)' = TRUE /\ success
    BY <1>2, <1>4 DEF Done, Answer
  <2>2. Effect' = [Effect EXCEPT ![c] = TRUE]
    BY <2>1, EffectAlone
  <2>3. CASE Done(c)
    <3>1. Effect[c] = TRUE
      BY <2>3 DEF Effect, Done
    <3>2. Effect' = Effect
      BY <2>2, <3>1 DEF Effect
    <3>3. Tools!Succeed(c)
      BY <1>2, <1>4, <3>1, <3>2 DEF Tools!Succeed, Effect, Trees
    <3>4. QED
      BY <3>3 DEF Mapped, Tools!Next
  <2>4. CASE ~Done(c)
    <3>1. Op[c] = "remove" /\ Trees = Trees \ {On[c]} /\ ~Effect[c]
      BY <2>1, <2>4 DEF Trees, Effect
    <3>2. Tools!Succeed(c)
      BY <1>2, <1>4, <2>2, <3>1 DEF Tools!Succeed, Tools!TakeEffect, Tools!Does, Effect, Trees
    <3>3. QED
      BY <3>2 DEF Mapped, Tools!Next
  <2>5. QED
    BY <2>3, <2>4
<1>5. QED
  BY <1>1, <1>3, <1>4

LEMMA BeginMapped ==
  ASSUME OpsInv, NEW c \in Call, BeginCreate(c) \/ BeginRemove(c) \/ BeginMerge(c) PROVE Mapped
<1>1. /\ at[c] = "new" /\ pc[c] = "idle" /\ outcome[c] = "none" /\ ~Done(c) /\ Op[c] \in OpKind
      /\ fnResult[c] # "ok"
  BY OpsAssumption
     DEF OpsInv, BeginCreate, BeginRemove, BeginMerge, PlacedInv, Placed, Done, ResultHonest
<1>2. UNCHANGED <<fnResult, tree, inTarget>> /\ UNCHANGED Trees
  BY DEF BeginCreate, BeginRemove, BeginMerge, EnterLock, Enter, lockVars, repoVars, Trees
<1>3. Alone(c)
  BY TypeParts DEF OpsInv, BeginCreate, BeginRemove, BeginMerge, EnterLock, Enter, Goto, Answer,
                   Alone, TypeOK, CallTypes, lockVars
<1>4. CASE EnterLock(c)
  <2>1. ~Done(c)' /\ UNCHANGED outcome
    BY <1>1, <1>2, <1>4, TypeParts
       DEF Done, EnterLock, Enter, First, OpKind, OpsInv, TypeOK, CallTypes
  <2>2. QED
    BY <1>1, <1>2, <1>3, <2>1, Stutter
<1>5. CASE \E success \in BOOLEAN : Answer(c, success) /\ (success => Op[c] = "remove" /\ tree[On[c]] = "none")
  BY <1>1, <1>2, <1>3, <1>5, Answers
<1>6. CASE tree[On[c]] # "none" /\ Op[c] = "create" /\ at' = [at EXCEPT ![c] = "excludes"] /\ UNCHANGED outcome
  <2>1. Done(c)'
    BY <1>1, <1>6, TypeParts DEF Done, OpsInv, CallTypes
  <2>2. Trees \cup {On[c]} = Trees
    BY <1>6, OpsAssumption DEF Trees
  <2>3. QED
    BY <1>1, <1>2, <1>3, <1>6, <2>1, <2>2, Works
<1>7. QED
  BY <1>4, <1>5, <1>6 DEF BeginCreate, BeginRemove, BeginMerge

\* A callback that has ended well has done its work; one that goes on or fails
\* has not.
LEMMA CommandAlone ==
  ASSUME OpsInv, NEW c \in Call, Command(c)
  PROVE  /\ Alone(c) /\ UNCHANGED outcome /\ outcome[c] = "none" /\ ~Done(c)
         /\ pc[c] = "body" /\ at[c] \in Commands
BY TypeParts
   DEF OpsInv, Alone, TypeOK, CallTypes, PlacedInv, Placed, ResultHonest, Done, Command, Probe, Add,
       Remove, Status, Commit, Switch, Merge, Standing, GoOn, Ends, Returns, Throws, Goto, lockVars,
       Commands

LEMMA EndsDone ==
  ASSUME OpsInv, NEW c \in Call, outcome[c] = "none", UNCHANGED outcome, at[c] \in Commands, ~Done(c)
  PROVE  /\ \A to : Returns(c, to) => Done(c)'
         /\ Throws(c) => ~Done(c)'
         /\ \A cmd \in Commands : GoOn(c, cmd) => ~Done(c)'
<1>1. First(c) \in Commands
  BY OpsAssumption DEF First, OpKind, Commands
<1>2. ASSUME NEW to, Returns(c, to) PROVE Done(c)'
  BY <1>2, TypeParts DEF Returns, Ends, Done, OpsInv, TypeOK
<1>3. ASSUME Throws(c) PROVE ~Done(c)'
  BY <1>1, <1>3, TypeParts DEF Throws, Ends, Done, OpsInv, TypeOK, CallTypes, Commands
<1>4. ASSUME NEW cmd \in Commands, GoOn(c, cmd) PROVE ~Done(c)'
  BY <1>4, TypeParts DEF GoOn, Done, OpsInv, TypeOK, CallTypes, Commands, lockVars
<1>5. QED
  BY <1>2, <1>3, <1>4

LEMMA CommandMapped == ASSUME OpsInv, NEW c \in Call, Command(c) PROVE Mapped
<1> USE CommandAlone, EndsDone
<1>0. /\ RepoTypes /\ On[c] \in Bead /\ Placed(c)
  BY TypeParts, OpsAssumption DEF OpsInv, PlacedInv
<1>1. ASSUME ~Done(c)', UNCHANGED Trees, UNCHANGED inTarget PROVE Mapped
  BY <1>1, Stutter
<1>2. CASE Probe(c)
  BY <1>1, <1>2 DEF Probe, Commands, repoVars, Trees
<1>3. CASE Add(c)
  <2>1. CASE Throws(c) /\ UNCHANGED tree
    BY <1>1, <1>3, <2>1 DEF Add, Trees
  <2>2. CASE tree' = [tree EXCEPT ![On[c]] = "clean"] /\ Returns(c, "excludes")
    <3>1. Op[c] = "create"
      BY <1>0, <1>3 DEF Add, Standing, Placed
    <3>2. Trees' = Trees \cup {On[c]}
      BY <1>0, <2>2 DEF Trees, RepoTypes
    <3>3. UNCHANGED inTarget /\ Done(c)'
      BY <1>3, <2>2 DEF Add
    <3>4. QED
      BY <3>1, <3>2, <3>3, Works
  <2>3. QED
    BY <1>3, <2>1, <2>2 DEF Add
<1>4. CASE Remove(c)
  <2>1. CASE Throws(c) /\ UNCHANGED tree
    BY <1>1, <1>4, <2>1 DEF Remove, Trees
  <2>2. CASE tree' = [tree EXCEPT ![On[c]] = "none"] /\ Returns(c, "record")
    <3>1. Op[c] = "remove"
      BY <1>0, <1>4 DEF Remove, Standing, Placed
    <3>2. Trees' = Trees \ {On[c]}
      BY <1>0, <2>2 DEF Trees, RepoTypes
    <3>3. UNCHANGED inTarget /\ Done(c)'
      BY <1>4, <2>2 DEF Remove
    <3>4. QED
      BY <3>1, <3>2, <3>3, Works
  <2>3. QED
    BY <1>4, <2>1, <2>2 DEF Remove
<1>5. CASE Status(c)
  <2>1. ~Done(c)'
    BY <1>5 DEF Status, Commands
  <2>2. QED
    BY <1>1, <1>5, <2>1 DEF Status, repoVars, Trees
<1>6. CASE Commit(c)
  <2>1. ~Done(c)' /\ UNCHANGED inTarget
    BY <1>6 DEF Commit, Commands
  <2>2. Trees' = Trees
    BY <1>0, <1>6 DEF Commit, Trees, RepoTypes
  <2>3. QED
    BY <1>1, <2>1, <2>2
<1>7. CASE Switch(c)
  <2>1. ~Done(c)'
    BY <1>7 DEF Switch, Commands
  <2>2. QED
    BY <1>1, <1>7, <2>1 DEF Switch, repoVars, Trees
<1>8. CASE Merge(c)
  <2>1. UNCHANGED Trees
    BY <1>8 DEF Merge, Trees
  <2>2. CASE Throws(c) /\ UNCHANGED inTarget
    BY <1>1, <2>1, <2>2
  <2>3. CASE inTarget' = inTarget \cup {On[c]} /\ Returns(c, "record")
    <3>1. Op[c] = "merge"
      BY <1>0, <1>8 DEF Merge, Standing, Placed
    <3>2. QED
      BY <2>1, <2>3, <3>1, Works
  <2>4. QED
    BY <1>8, <2>2, <2>3 DEF Merge
<1>9. QED
  BY <1>2, <1>3, <1>4, <1>5, <1>6, <1>7, <1>8 DEF Command

LEMMA OtherMapped ==
  ASSUME OpsInv, NEW c \in Call, LockStep(c) \/ Excludes(c) \/ Finish(c) \/ Die(c) PROVE Mapped
<1>0. /\ TypeOK /\ CallTypes /\ RepoTypes /\ On[c] \in Bead /\ Placed(c) /\ ResultHonest
  BY TypeParts, OpsAssumption DEF OpsInv, PlacedInv
<1>1. CASE LockStep(c)
  <2>1. UNCHANGED fnResult /\ UNCHANGED <<at, outcome, tree, inTarget>>
    BY <1>1 DEF LockStep, Check, WriteLock, RecordAcquired, Unlink, Wait, callVars, repoVars
  <2>2. Alone(c)
    BY <1>0, <1>1, <2>1
       DEF LockStep, Check, WriteLock, RecordAcquired, Unlink, Wait, Goto, Alone, TypeOK
  <2>3. QED
    BY <2>1, <2>2, Stutter DEF Done, Trees
<1>2. ASSUME NEW success \in BOOLEAN, Answer(c, success), at[c] # "returned",
             UNCHANGED lockVars, UNCHANGED <<tree, inTarget>>,
             success => at[c] \in {"excludes", "record"}
      PROVE  Mapped
  <2>1. outcome[c] = "none" /\ (success => Done(c)) /\ UNCHANGED fnResult
    BY <1>0, <1>2 DEF Placed, Done, CallTypes, lockVars
  <2>2. Alone(c)
    BY <1>0, <1>2 DEF Answer, Alone, TypeOK, CallTypes, lockVars
  <2>3. QED
    BY <1>2, <2>1, <2>2, Answers
<1>3. CASE Excludes(c)
  <2>1. CASE Answer(c, FALSE)
    BY <1>2, <1>3, <2>1 DEF Excludes
  <2>2. CASE at' = [at EXCEPT ![c] = "record"] /\ UNCHANGED outcome
    <3>1. Alone(c) /\ (Done(c)' <=> Done(c))
      BY <1>0, <1>3, <2>2 DEF Excludes, Alone, TypeOK, CallTypes, Done, lockVars
    <3>2. QED
      BY <1>3, <2>2, <3>1, Stutter DEF Excludes, Trees
  <2>3. QED
    BY <1>3, <2>1, <2>2 DEF Excludes
<1>4. CASE Finish(c)
  BY <1>2, <1>4 DEF Finish, repoVars
<1>5. CASE Die(c)
  <2>1. Alone(c) /\ UNCHANGED <<outcome, fnResult, inTarget>>
    BY <1>0, <1>5 DEF Die, Crash, Alone, TypeOK, CallTypes
  <2>2. Done(c)' <=> Done(c)
    BY <1>0, <1>5, <2>1 DEF Die, Crash, Done, CallTypes, Placed, Settled
  <2>3. CASE UNCHANGED tree
    BY <2>1, <2>2, <2>3, Stutter DEF Trees
  <2>4. CASE Standing(c, "add") /\ tree[On[c]] = "none" /\ tree' = [tree EXCEPT ![On[c]] = "partial"]
    <3>1. Op[c] = "create" /\ outcome[c] = "none" /\ ~Done(c)
      BY <1>0, <2>4 DEF Standing, Placed, Done, CallTypes, ResultHonest
    <3>2. Trees' = Trees \cup {On[c]}
      BY <1>0, <2>4 DEF Trees, RepoTypes
    <3>3. Effect' = Effect /\ ~Effect[c]
      <4>1. Done(c)' = Done(c)
        BY <2>2 DEF Done
      <4>2. QED
        BY <2>1, <3>1, <4>1, EffectAlone DEF Effect
    <3>4. Tools!LeaveHalf(c)
      BY <2>1, <3>1, <3>2, <3>3 DEF Tools!LeaveHalf, Effect, Trees
    <3>5. QED
      BY <3>4 DEF Mapped, Tools!Next
  <2>5. QED
    BY <1>5, <2>3, <2>4 DEF Die
<1>6. QED
  BY <1>1, <1>3, <1>4, <1>5

\* Every step of a tool, retries, timeouts and deaths included, is a step of the
\* single operation it stands for, or no step at all.
THEOREM ToolsActAsOne == OpsSpec => ActsAsOne
<1>1. OpsInit => Tools!Init
  BY DEF OpsInit, Init, Tools!Init, Done
<1>2. OpsInv /\ [OpsNext]_opsVars => [Tools!Next]_(Tools!vars)
  <2> SUFFICES ASSUME OpsInv, [OpsNext]_opsVars PROVE Mapped
    BY DEF Mapped
  <2>1. ASSUME NEW c \in Call, BeginCreate(c) \/ BeginRemove(c) \/ BeginMerge(c) PROVE Mapped
    BY <2>1, BeginMapped
  <2>2. ASSUME NEW c \in Call, Command(c) PROVE Mapped
    BY <2>2, CommandMapped
  <2>3. ASSUME NEW c \in Call, LockStep(c) \/ Excludes(c) \/ Finish(c) \/ Die(c) PROVE Mapped
    BY <2>3, OtherMapped
  <2>4. ASSUME NEW b \in Bead, Edit(b) PROVE Mapped
    <3>1. Trees' = Trees
      BY <2>4, TypeParts DEF OpsInv, RepoTypes, Edit, Trees
    <3>2. UNCHANGED <<outcome, fnResult, at, inTarget>>
      BY <2>4 DEF Edit, lockVars, callVars
    <3>3. QED
      BY <3>1, <3>2 DEF Mapped, Tools!vars, Done, Trees
  <2>5. CASE UNCHANGED opsVars
    BY <2>5 DEF opsVars, lockVars, callVars, repoVars, Mapped, Tools!vars, Done
  <2>6. QED
    BY <2>1, <2>2, <2>3, <2>4, <2>5 DEF OpsNext
<1>3. QED
  BY <1>1, <1>2, OpsInvAlways, PTL DEF OpsSpec, ActsAsOne, Tools!Spec

-----------------------------------------------------------------------------
(* Merging.  The handler merges a bead in one call at a time.              *)

OneMerge ==
    \A c, d \in Call : Op[c] = "merge" /\ Op[d] = "merge" /\ On[c] = On[d] => c = d

\* Past the status there is nothing dirty, past the merge everything is in the
\* target, and the target has the bead only if the callback has ended well.
MergeSound(m) ==
    /\ at[m] \in {"switch", "merge"} => tree[On[m]] # "dirty"
    /\ at[m] = "record" \/ outcome[m] = "success" =>
          On[m] \in inTarget /\ ~ahead[On[m]] /\ tree[On[m]] # "dirty"
    /\ On[m] \in inTarget => fnResult[m] = "ok"
    /\ outcome[m] = "failure" => On[m] \notin inTarget \/ logLost

MergeInv == \A m \in Call : Op[m] = "merge" => MergeSound(m)

\* The steps of other calls do not reach the bead of m but to create or remove
\* its worktree.
LEMMA OthersKeepMerge ==
  ASSUME OpsInv, OneMerge, MergeInv, NEW m \in Call, Op[m] = "merge", NEW d \in Call \ {m},
         \/ BeginCreate(d) \/ BeginRemove(d) \/ BeginMerge(d) \/ Command(d)
         \/ LockStep(d) \/ Excludes(d) \/ Finish(d) \/ Die(d)
  PROVE  MergeSound(m)'
<1>1. /\ TypeOK /\ CallTypes /\ RepoTypes /\ On[m] \in Bead /\ On[d] \in Bead /\ Placed(d)
      /\ Op[d] = "merge" => On[d] # On[m]
  BY TypeParts, OpsAssumption DEF OpsInv, PlacedInv, OneMerge
<1>2. /\ at'[m] = at[m] /\ outcome'[m] = outcome[m] /\ fnResult'[m] = fnResult[m]
      /\ logLost => logLost'
  BY <1>1
     DEF BeginCreate, BeginRemove, BeginMerge, EnterLock, Enter, Goto, Answer, Command, Probe, Add,
         Remove, Status, Commit, Switch, Merge, Standing, GoOn, Ends, Returns, Throws, LockStep, Check,
         WriteLock, RecordAcquired, Unlink, Wait, Excludes, Finish, Die, Crash, lockVars, callVars,
         TypeOK, CallTypes
<1>3. /\ tree'[On[m]] = "dirty" => tree[On[m]] = "dirty"
      /\ ahead'[On[m]] = ahead[On[m]]
      /\ On[m] \in inTarget' <=> On[m] \in inTarget
  BY <1>1
     DEF BeginCreate, BeginRemove, BeginMerge, Command, Probe, Add, Remove, Status, Commit, Switch,
         Merge, Standing, LockStep, Excludes, Finish, Die, repoVars, RepoTypes, Placed
<1>4. QED
  BY <1>1, <1>2, <1>3 DEF MergeInv, MergeSound

LEMMA OwnKeepsMerge ==
  ASSUME OpsInv, MergeInv, NEW m \in Call, Op[m] = "merge",
         \/ BeginCreate(m) \/ BeginRemove(m) \/ BeginMerge(m) \/ Command(m)
         \/ LockStep(m) \/ Excludes(m) \/ Finish(m) \/ Die(m)
  PROVE  MergeSound(m)'
<1>1. /\ TypeOK /\ CallTypes /\ RepoTypes /\ On[m] \in Bead /\ Placed(m) /\ MergeSound(m)
      /\ fnResult[m] = "ok" => pc[m] \in {"unlink", "resolved", "dead"}
  BY TypeParts, OpsAssumption DEF OpsInv, PlacedInv, MergeInv, ResultHonest
<1>2. First(m) = "status"
  BY DEF First
<1>3. CASE BeginCreate(m) \/ BeginRemove(m) \/ BeginMerge(m)
  BY <1>1, <1>2, <1>3
     DEF BeginCreate, BeginRemove, BeginMerge, EnterLock, Enter, Goto, Answer, lockVars, repoVars,
         TypeOK, CallTypes, Placed, MergeSound
<1>4. CASE Probe(m) \/ Add(m) \/ Remove(m)
  BY <1>1, <1>4 DEF Probe, Add, Remove, Standing, Placed
<1>5. CASE Status(m)
  BY <1>1, <1>2, <1>5
     DEF Status, Standing, GoOn, Throws, Ends, lockVars, repoVars, TypeOK, CallTypes, Placed, MergeSound
<1>6. CASE Commit(m)
  BY <1>1, <1>2, <1>6
     DEF Commit, Standing, GoOn, Throws, Ends, lockVars, TypeOK, CallTypes, RepoTypes, Placed, MergeSound
<1>7. CASE Switch(m)
  BY <1>1, <1>2, <1>7
     DEF Switch, Standing, GoOn, Throws, Ends, lockVars, repoVars, TypeOK, CallTypes, Placed, MergeSound
<1>8. CASE Merge(m)
  BY <1>1, <1>2, <1>8
     DEF Merge, Standing, Throws, Returns, Ends, TypeOK, CallTypes, RepoTypes, Placed, MergeSound
<1>9. CASE LockStep(m)
  BY <1>1, <1>9
     DEF LockStep, Check, WriteLock, RecordAcquired, Unlink, Wait, callVars, repoVars, MergeSound
<1>10. CASE Excludes(m)
  BY <1>1, <1>10 DEF Excludes, Placed
<1>11. CASE Finish(m)
  BY <1>1, <1>11 DEF Finish, Answer, lockVars, repoVars, CallTypes, Placed, MergeSound
<1>12. CASE Die(m)
  BY <1>1, <1>12 DEF Die, Crash, Standing, CallTypes, Placed, MergeSound
<1>13. QED
  BY <1>3, <1>4, <1>5, <1>6, <1>7, <1>8, <1>9, <1>10, <1>11, <1>12 DEF Command

LEMMA MergeStep == OneMerge /\ OpsInv /\ MergeInv /\ [OpsNext]_opsVars => MergeInv'
<1> SUFFICES ASSUME OneMerge, OpsInv, MergeInv, [OpsNext]_opsVars, NEW m \in Call, Op[m] = "merge"
             PROVE  MergeSound(m)'
  BY DEF MergeInv
<1>1. ASSUME NEW d \in Call,
             \/ BeginCreate(d) \/ BeginRemove(d) \/ BeginMerge(d) \/ Command(d)
             \/ LockStep(d) \/ Excludes(d) \/ Finish(d) \/ Die(d)
      PROVE  MergeSound(m)'
  BY <1>1, OthersKeepMerge, OwnKeepsMerge
<1>2. ASSUME NEW b \in Bead, Edit(b) PROVE MergeSound(m)'
  BY <1>2, TypeParts, OpsAssumption
     DEF Edit, lockVars, callVars, OpsInv, RepoTypes, CallTypes, PlacedInv, Placed, MergeInv, MergeSound
<1>3. CASE UNCHANGED opsVars
  BY <1>3 DEF opsVars, lockVars, callVars, repoVars, MergeInv, MergeSound
<1>4. QED
  BY <1>1, <1>2, <1>3 DEF OpsNext

LEMMA MergeAlways == ASSUME OneMerge PROVE OpsSpec => []MergeInv
<1>1. OpsInit => MergeInv
  BY DEF OpsInit, MergeInv, MergeSound
<1>2. OpsInv /\ MergeInv /\ [OpsNext]_opsVars => MergeInv'
  BY MergeStep
<1>3. QED
  BY <1>1, <1>2, OpsInvAlways, PTL DEF OpsSpec

\* What a merge answers is true for any number of retries, deaths and calls for
\* other beads.
THEOREM MergesHonest == ASSUME OneMerge PROVE OpsSpec => []HonestMerge
<1>1. MergeInv => HonestMerge
  BY DEF MergeInv, MergeSound, HonestMerge
<1>2. QED
  BY <1>1, MergeAlways, PTL

-----------------------------------------------------------------------------
(* Removal.  A worktree is removed after the merge of its bead only.       *)

RemovedAfterMerge ==
    \A c \in Call : Op[c] = "remove" =>
        After[c] \in Call /\ Op[After[c]] = "merge" /\ On[After[c]] = On[c]

RemovesMerged ==
    \A c \in Call : Op[c] = "remove" /\ at[c] = "remove" => outcome[After[c]] = "success"

\* An answer is final.
LEMMA AnswerStays ==
  ASSUME OpsInv, [OpsNext]_opsVars, NEW c \in Call, outcome[c] = "success"
  PROVE  outcome'[c] = "success"
<1>1. /\ CallTypes /\ \A d \in Call : Placed(d)
  BY TypeParts DEF OpsInv, PlacedInv
<1>2. ASSUME NEW d \in Call, BeginCreate(d) \/ BeginRemove(d) \/ BeginMerge(d) PROVE outcome'[c] = "success"
  BY <1>1, <1>2 DEF BeginCreate, BeginRemove, BeginMerge, EnterLock, Answer, Placed, CallTypes
<1>3. ASSUME NEW d \in Call, Command(d) PROVE outcome'[c] = "success"
  BY <1>3, CommandAlone
<1>4. ASSUME NEW d \in Call, LockStep(d) \/ Excludes(d) \/ Finish(d) \/ Die(d)
      PROVE  outcome'[c] = "success"
  BY <1>1, <1>4 DEF LockStep, Excludes, Finish, Die, Answer, Placed, CallTypes, callVars
<1>5. ASSUME NEW b \in Bead, Edit(b) PROVE outcome'[c] = "success"
  BY <1>5 DEF Edit, callVars
<1>6. CASE UNCHANGED opsVars
  BY <1>6 DEF opsVars, callVars
<1>7. QED
  BY <1>2, <1>3, <1>4, <1>5, <1>6 DEF OpsNext

\* A call that comes to its removal was made because of the answer to the merge.
LEMMA RemoveEntered ==
  ASSUME OpsInv, [OpsNext]_opsVars, NEW r \in Call, Op[r] = "remove", After[r] \in Call,
         After[r] # NoCall, at'[r] = "remove"
  PROVE  at[r] = "remove" \/ outcome[After[r]] = "success"
<1>1. /\ CallTypes /\ \A d \in Call : Placed(d)
  BY TypeParts DEF OpsInv, PlacedInv
<1>2. ASSUME NEW d \in Call, BeginCreate(d) \/ BeginRemove(d) \/ BeginMerge(d)
      PROVE  at[r] = "remove" \/ outcome[After[r]] = "success"
  <2>1. CASE d = r
    BY <1>1, <1>2, <2>1 DEF BeginCreate, BeginRemove, BeginMerge, Ready
  <2>2. CASE d # r
    BY <1>1, <1>2, <2>2 DEF BeginCreate, BeginRemove, BeginMerge, EnterLock, Answer, CallTypes
  <2>3. QED
    BY <2>1, <2>2
<1>3. ASSUME NEW d \in Call, Command(d) PROVE at[r] = "remove"
  <2>1. CASE d = r
    BY <1>1, <1>3, <2>1, CommandAlone DEF Placed, Commands
  <2>2. CASE d # r
    BY <1>1, <1>3, <2>2, CommandAlone DEF Alone
  <2>3. QED
    BY <2>1, <2>2
<1>4. ASSUME NEW d \in Call, LockStep(d) \/ Excludes(d) \/ Finish(d) \/ Die(d)
      PROVE  at[r] = "remove"
  BY <1>1, <1>4 DEF LockStep, Excludes, Finish, Die, Answer, CallTypes, callVars
<1>5. ASSUME NEW b \in Bead, Edit(b) PROVE at[r] = "remove"
  BY <1>5 DEF Edit, callVars
<1>6. CASE UNCHANGED opsVars
  BY <1>6 DEF opsVars, callVars
<1>7. QED
  BY <1>2, <1>3, <1>4, <1>5, <1>6 DEF OpsNext

\* Uncommitted work is safe from the removal: between the status that the merge
\* read last and the removal nothing turns dirty, but what is written too late.
THEOREM WorkIsKept ==
  ASSUME OneMerge, RemovedAfterMerge, NoCall \notin Call PROVE OpsSpec => NoWorkLost
<1>1. OpsInit => RemovesMerged
  BY DEF OpsInit, RemovesMerged
<1>2. OpsInv /\ RemovesMerged /\ [OpsNext]_opsVars => RemovesMerged'
  <2> SUFFICES ASSUME OpsInv, RemovesMerged, [OpsNext]_opsVars,
                      NEW r \in Call, Op[r] = "remove", at'[r] = "remove"
               PROVE  outcome'[After[r]] = "success"
    BY DEF RemovesMerged
  <2>1. After[r] \in Call /\ After[r] # NoCall
    BY DEF RemovedAfterMerge
  <2>2. outcome[After[r]] = "success"
    BY <2>1, RemoveEntered DEF RemovesMerged
  <2>3. QED
    BY <2>1, <2>2, AnswerStays
<1>3. ASSUME OpsInv, MergeInv, RemovesMerged, [OpsNext]_opsVars, NEW b \in Bead, tree[b] = "dirty"
      PROVE  tree'[b] # "none"
  <2>1. RepoTypes /\ CallTypes /\ \A c \in Call : Placed(c) /\ On[c] \in Bead
    BY <1>3, TypeParts, OpsAssumption DEF OpsInv, PlacedInv
  <2>2. ASSUME NEW r \in Call, Remove(r) PROVE tree'[b] # "none"
    <3>1. Op[r] = "remove" /\ at[r] = "remove"
      BY <2>1, <2>2 DEF Remove, Standing, Placed
    <3>2. tree[On[r]] # "dirty"
      BY <1>3, <3>1 DEF RemovesMerged, RemovedAfterMerge, MergeInv, MergeSound
    <3>3. QED
      BY <1>3, <2>1, <2>2, <3>2 DEF Remove, RepoTypes
  <2>3. ASSUME NEW c \in Call,
               \/ BeginCreate(c) \/ BeginRemove(c) \/ BeginMerge(c)
               \/ LockStep(c) \/ Excludes(c) \/ Finish(c) \/ Die(c)
        PROVE  tree'[b] # "none"
    BY <1>3, <2>1, <2>3
       DEF BeginCreate, BeginRemove, BeginMerge, LockStep, Excludes, Finish, Die, repoVars, RepoTypes
  <2>4. ASSUME NEW c \in Call, Probe(c) \/ Add(c) \/ Status(c) \/ Commit(c) \/ Switch(c) \/ Merge(c)
        PROVE  tree'[b] # "none"
    BY <1>3, <2>1, <2>4 DEF Probe, Add, Status, Commit, Switch, Merge, repoVars, RepoTypes
  <2>5. CASE \E a \in Bead : Edit(a)
    BY <1>3, <2>1, <2>5 DEF Edit, RepoTypes
  <2>6. CASE UNCHANGED opsVars
    BY <1>3, <2>6 DEF opsVars, repoVars
  <2>7. QED
    BY <1>3, <2>2, <2>3, <2>4, <2>5, <2>6 DEF OpsNext, Command
<1>4. OpsInv /\ MergeInv /\ RemovesMerged /\ [OpsNext]_opsVars
        => \A b \in Bead : tree[b] = "dirty" => tree'[b] # "none"
  BY <1>3
<1>5. QED
  BY <1>1, <1>2, <1>4, OpsInvAlways, MergeAlways, PTL DEF OpsSpec, NoWorkLost
-----------------------------------------------------------------------------
\* Only the merge of a bead touches an open merge or the target, and git refuses
\* it while one is open: no tool, in no retry, ends a conflict.
THEOREM ConflictStays == OpsSpec => ConflictBlocks
<1>1. ASSUME [OpsNext]_opsVars, merging # NoCall
      PROVE  merging' = merging /\ inTarget' = inTarget
  <2>1. ASSUME NEW c \in Call, BeginCreate(c) \/ BeginRemove(c) \/ BeginMerge(c) PROVE UNCHANGED repoVars
    BY <2>1 DEF BeginCreate, BeginRemove, BeginMerge
  <2>2. ASSUME NEW c \in Call, Command(c) PROVE merging' = merging /\ inTarget' = inTarget
    BY <1>1, <2>2 DEF Command, Probe, Add, Remove, Status, Commit, Switch, Merge, repoVars
  <2>3. ASSUME NEW c \in Call, LockStep(c) \/ Excludes(c) \/ Finish(c) \/ Die(c)
        PROVE  merging' = merging /\ inTarget' = inTarget
    BY <2>3 DEF LockStep, Excludes, Finish, Die, repoVars
  <2>4. ASSUME NEW b \in Bead, Edit(b) PROVE merging' = merging /\ inTarget' = inTarget
    BY <2>4 DEF Edit
  <2>5. QED
    BY <1>1, <2>1, <2>2, <2>3, <2>4 DEF OpsNext, opsVars, repoVars
<1>2. QED
  BY <1>1, PTL DEF OpsSpec, ConflictBlocks
-----------------------------------------------------------------------------
(* Creation.  The worktree of a bead is merged and removed only after the   *)
(* calls that create it, one after another, have been answered.             *)

CreatesFirst ==
    \A d, c \in Call :
        Op[d] \in {"merge", "remove"} /\ Op[c] = "create" /\ On[c] = On[d] =>
            /\ After[d] \in Call
            /\ \/ After[d] = c
               \/ Op[After[d]] = "create" /\ After[After[d]] = c
               \/ Op[d] = "remove" /\ Op[After[d]] = "merge" /\ On[After[d]] = On[d]

\* A dead call is over, and so is the call that another one came after.
OverInv ==
    \A c \in Call :
        /\ pc[c] = "dead" => at[c] = "returned"
        /\ at[c] # "new" /\ After[c] \in Call => at[After[c]] = "returned"

\* A worktree is whole, unless a process died on it.
Whole(b) ==
    \/ tree[b] # "partial" /\ branch[b]
    \/ \E d \in Call : On[d] = b /\ pc[d] = "dead"

\* A call past the creation has its worktree, and the excludes when it has
\* written them.
CreateInv ==
    /\ \A b \in Bead : tree[b] # "none" => Whole(b)
    /\ \A c \in Call : Op[c] = "create" =>
          /\ at[c] \in {"excludes", "record"} => tree[On[c]] # "none"
          /\ at[c] = "record" => excluded

\* A call leaves its start only when it is ready, and never what it has returned.
LEMMA AtMoves ==
  ASSUME OpsInv, [OpsNext]_opsVars, NEW c \in Call, at'[c] # at[c]
  PROVE  at[c] # "returned" /\ (at[c] = "new" => Ready(c))
<1>1. /\ CallTypes /\ \A d \in Call : Placed(d)
  BY TypeParts DEF OpsInv, PlacedInv
<1>2. ASSUME NEW d \in Call, BeginCreate(d) \/ BeginRemove(d) \/ BeginMerge(d)
      PROVE  at[c] # "returned" /\ (at[c] = "new" => Ready(c))
  BY <1>1, <1>2 DEF BeginCreate, BeginRemove, BeginMerge, EnterLock, Answer, CallTypes
<1>3. ASSUME NEW d \in Call, Command(d) PROVE at[c] \notin {"returned", "new"}
  BY <1>1, <1>3, CommandAlone DEF Alone, Commands
<1>4. ASSUME NEW d \in Call, LockStep(d) \/ Excludes(d) \/ Finish(d) \/ Die(d)
      PROVE  at[c] \notin {"returned", "new"}
  BY <1>1, <1>4 DEF LockStep, Excludes, Finish, Die, Crash, Answer, CallTypes, callVars, Placed, Settled
<1>5. ASSUME NEW b \in Bead, Edit(b) PROVE FALSE
  BY <1>5 DEF Edit, callVars
<1>6. CASE UNCHANGED opsVars
  BY <1>6 DEF opsVars, callVars
<1>7. QED
  BY <1>2, <1>3, <1>4, <1>5, <1>6 DEF OpsNext

\* Only its death takes a call to dead.
LEMMA DeadDied ==
  ASSUME OpsInv, [OpsNext]_opsVars, NEW c \in Call, pc'[c] = "dead", pc[c] # "dead"
  PROVE  at'[c] = "returned"
<1>1. /\ TypeOK /\ CallTypes
  BY TypeParts DEF OpsInv
<1>2. ASSUME NEW d \in Call, BeginCreate(d) \/ BeginRemove(d) \/ BeginMerge(d) PROVE FALSE
  BY <1>1, <1>2 DEF BeginCreate, BeginRemove, BeginMerge, EnterLock, Enter, Goto, TypeOK, lockVars
<1>3. ASSUME NEW d \in Call, Command(d) PROVE FALSE
  <2>1. pc' = pc \/ pc' = [pc EXCEPT ![d] = "unlink"]
    BY <1>3 DEF Command, Probe, Add, Remove, Status, Commit, Switch, Merge, GoOn, Ends, Returns,
               Throws, Goto, lockVars
  <2>2. QED
    BY <1>1, <2>1 DEF TypeOK
<1>4. ASSUME NEW d \in Call, LockStep(d) PROVE FALSE
  BY <1>1, <1>4 DEF LockStep, Check, WriteLock, RecordAcquired, Unlink, Wait, Goto, TypeOK
<1>5. ASSUME NEW d \in Call, Excludes(d) \/ Finish(d) PROVE FALSE
  BY <1>5 DEF Excludes, Finish, lockVars
<1>6. ASSUME NEW d \in Call, Die(d) PROVE at'[c] = "returned"
  BY <1>1, <1>6 DEF Die, Crash, TypeOK, CallTypes
<1>7. ASSUME NEW b \in Bead, Edit(b) PROVE FALSE
  BY <1>7 DEF Edit, lockVars
<1>8. CASE UNCHANGED opsVars
  BY <1>8 DEF opsVars, lockVars
<1>9. QED
  BY <1>2, <1>3, <1>4, <1>5, <1>6, <1>7, <1>8 DEF OpsNext

LEMMA OverStep == NoCall \notin Call /\ OpsInv /\ OverInv /\ [OpsNext]_opsVars => OverInv'
<1> SUFFICES ASSUME NoCall \notin Call, OpsInv, OverInv, [OpsNext]_opsVars, NEW c \in Call
             PROVE  /\ pc'[c] = "dead" => at'[c] = "returned"
                    /\ at'[c] # "new" /\ After[c] \in Call => at'[After[c]] = "returned"
  BY DEF OverInv
<1>1. \A d \in Call : at[d] = "returned" => at'[d] = "returned"
  BY AtMoves
<1>2. pc'[c] = "dead" => at'[c] = "returned"
  BY <1>1, DeadDied DEF OverInv
<1>3. ASSUME at[c] = "new", at'[c] # "new", After[c] \in Call PROVE at[After[c]] = "returned"
  BY <1>3, AtMoves DEF Ready, OverInv, OpsInv, PlacedInv, Placed
<1>4. QED
  BY <1>1, <1>2, <1>3 DEF OverInv

\* When a worktree is being removed, all that create it are over.
LEMMA RemovalIsLast ==
  ASSUME CreatesFirst, OverInv, NEW d \in Call, Op[d] = "remove", at[d] # "new",
         NEW c \in Call, Op[c] = "create", On[c] = On[d]
  PROVE  at[c] = "returned"
<1>1. ASSUME NEW m \in Call, Op[m] \in {"merge", "remove"}, On[m] = On[d], at[m] # "new",
             \/ After[m] = c
             \/ After[m] \in Call /\ After[After[m]] = c
      PROVE  at[c] = "returned"
  BY <1>1 DEF OverInv
<1>2. After[d] \in Call /\ at[After[d]] = "returned"
  BY DEF CreatesFirst, OverInv
<1>3. CASE Op[After[d]] = "merge" /\ On[After[d]] = On[d]
  BY <1>1, <1>2, <1>3 DEF CreatesFirst
<1>4. QED
  BY <1>1, <1>2, <1>3 DEF CreatesFirst

LEMMA DeadStays ==
  ASSUME TypeOK, [Next]_vars, NEW c \in Call, pc[c] = "dead" PROVE pc'[c] = "dead"
BY DEF TypeOK, Next, Step, Enter, Check, WriteLock, RecordAcquired, RunFn, Unlink, Wait, Crash,
       Goto, Settled, vars

\* What a step may do to worktrees, branches and the excludes.
LEMMA TreeMoves ==
  ASSUME OpsInv, [OpsNext]_opsVars, NEW b \in Bead
  PROVE  /\ excluded => excluded'
         /\ branch[b] => branch'[b]
         /\ \/ tree'[b] = tree[b]
            \/ tree[b] = "none" /\ tree'[b] = "clean" /\ branch'[b]
            \/ tree[b] # "none" /\ tree'[b] \notin {"none", "partial"}
            \/ tree'[b] = "none" /\ \E c \in Call : On[c] = b /\ Remove(c)
            \/ tree'[b] = "partial" /\ \E c \in Call : On[c] = b /\ pc'[c] = "dead"
<1>1. TypeOK /\ CallTypes /\ RepoTypes
  BY TypeParts DEF OpsInv
<1>2. ASSUME NEW c \in Call, BeginCreate(c) \/ BeginRemove(c) \/ BeginMerge(c) \/ LockStep(c) \/ Finish(c)
      PROVE  UNCHANGED <<tree, branch, excluded>>
  BY <1>2 DEF BeginCreate, BeginRemove, BeginMerge, LockStep, Finish, repoVars
<1>3. ASSUME NEW c \in Call, Probe(c) \/ Status(c) \/ Switch(c) \/ Merge(c)
      PROVE  UNCHANGED <<tree, branch, excluded>>
  BY <1>3 DEF Probe, Status, Switch, Merge, repoVars
<1>4. ASSUME NEW c \in Call, Excludes(c)
      PROVE  UNCHANGED <<tree, branch>> /\ (excluded => excluded')
  <2>1. excluded' = TRUE \/ excluded' \in {excluded, TRUE}
    BY <1>4 DEF Excludes
  <2>2. excluded => excluded'
    BY <2>1, Zenon
  <2>3. QED
    BY <1>4, <2>2 DEF Excludes
<1> USE DEF RepoTypes
<1>5. CASE \E c \in Call : Add(c)
  BY <1>1, <1>5 DEF Add
<1>6. CASE \E c \in Call : Remove(c)
  BY <1>1, <1>6 DEF Remove
<1>7. CASE \E c \in Call : Commit(c)
  BY <1>1, <1>7 DEF Commit
<1>8. CASE \E c \in Call : Die(c)
  BY <1>1, <1>8 DEF Die, Crash, TypeOK
<1>9. CASE \E d \in Bead : Edit(d)
  BY <1>1, <1>9 DEF Edit
<1>10. CASE UNCHANGED opsVars
  BY <1>10 DEF opsVars, repoVars
<1>11. QED
  BY <1>2, <1>3, <1>4, <1>5, <1>6, <1>7, <1>8, <1>9, <1>10 DEF OpsNext, Command

\* How a call comes past the creation.
LEMMA CreatePast ==
  ASSUME OpsInv, [OpsNext]_opsVars, NEW c \in Call, Op[c] = "create", at'[c] # at[c]
  PROVE  /\ at'[c] = "excludes" => tree'[On[c]] # "none"
         /\ at'[c] = "record" => at[c] = "excludes" /\ excluded' /\ tree' = tree
<1>1. /\ CallTypes /\ RepoTypes /\ On[c] \in Bead /\ \A d \in Call : Placed(d)
  BY TypeParts, OpsAssumption DEF OpsInv, PlacedInv
<1>2. ASSUME NEW d \in Call, BeginCreate(d) \/ BeginRemove(d) \/ BeginMerge(d)
      PROVE  at'[c] # "record" /\ (at'[c] = "excludes" => tree'[On[c]] # "none")
  BY <1>1, <1>2 DEF BeginCreate, BeginRemove, BeginMerge, EnterLock, Answer, CallTypes, First, repoVars
<1>3. ASSUME NEW d \in Call, Command(d)
      PROVE  at'[c] # "record" /\ (at'[c] = "excludes" => tree'[On[c]] # "none")
  <2>1. d = c
    BY <1>1, <1>3, CommandAlone DEF Alone
  <2>2. Probe(c) \/ Add(c)
    BY <1>1, <1>3, <2>1 DEF Command, Remove, Status, Commit, Switch, Merge, Standing, Placed
  <2>3. QED
    BY <1>1, <2>2 DEF Probe, Add, GoOn, Returns, Throws, Ends, First, CallTypes, RepoTypes
<1>4. ASSUME NEW d \in Call, Excludes(d)
      PROVE  at'[c] # "excludes" /\ (at'[c] = "record" => at[c] = "excludes" /\ excluded' /\ tree' = tree)
  BY <1>1, <1>4 DEF Excludes, Answer, CallTypes
<1>5. ASSUME NEW d \in Call, LockStep(d) \/ Finish(d) \/ Die(d)
      PROVE  at'[c] \notin {"excludes", "record"}
  BY <1>1, <1>5 DEF LockStep, Finish, Die, Answer, CallTypes, callVars
<1>6. ASSUME NEW b \in Bead, Edit(b) PROVE FALSE
  BY <1>6 DEF Edit, callVars
<1>7. CASE UNCHANGED opsVars
  BY <1>7 DEF opsVars, callVars
<1>8. QED
  BY <1>2, <1>3, <1>4, <1>5, <1>6, <1>7 DEF OpsNext

LEMMA CreateStep ==
  ASSUME CreatesFirst, OpsInv, OverInv, CreateInv, [OpsNext]_opsVars PROVE CreateInv'
<1>1. /\ TypeOK /\ [Next]_vars /\ \A c \in Call : Placed(c) /\ On[c] \in Bead
  BY TypeParts, StepIsLock, OpsAssumption DEF OpsInv, PlacedInv
<1>2. ASSUME NEW b \in Bead, tree'[b] # "none" PROVE Whole(b)'
  <2>1. \A d \in Call : pc[d] = "dead" => pc'[d] = "dead"
    BY <1>1, DeadStays
  <2>2. CASE tree[b] = "none"
    BY <1>2, <2>2, TreeMoves DEF Whole
  <2>3. CASE tree[b] # "none"
    BY <1>2, <2>1, <2>3, TreeMoves DEF Whole, CreateInv
  <2>4. QED
    BY <2>2, <2>3
<1>3. ASSUME NEW c \in Call, Op[c] = "create", at'[c] \in {"excludes", "record"}
      PROVE  tree'[On[c]] # "none"
  <2>1. CASE at'[c] = at[c]
    <3>1. tree[On[c]] # "none" /\ at[c] # "returned"
      BY <1>3, <2>1 DEF CreateInv
    <3>2. ASSUME NEW d \in Call, On[d] = On[c], Remove(d) PROVE FALSE
      <4>1. at[d] = "remove" /\ Op[d] = "remove"
        BY <1>1, <3>2 DEF Remove, Standing, Placed
      <4>2. QED
        BY <1>3, <3>1, <3>2, <4>1, RemovalIsLast
    <3>3. QED
      BY <1>1, <3>1, <3>2, TreeMoves
  <2>2. CASE at'[c] # at[c]
    BY <1>3, <2>2, CreatePast DEF CreateInv
  <2>3. QED
    BY <2>1, <2>2
<1>4. ASSUME NEW c \in Call, Op[c] = "create", at'[c] = "record" PROVE excluded'
  BY <1>1, <1>4, CreatePast, TreeMoves DEF CreateInv
<1>5. QED
  BY <1>2, <1>3, <1>4 DEF CreateInv

\* Whoever is told that a worktree was created finds it complete, for any number
\* of beads and calls, although a directory that exists is taken as it is.
THEOREM CreatedAreWhole ==
  ASSUME CreatesFirst, NoCall \notin Call PROVE OpsSpec => CreatedIsWhole
<1>1. OpsInit => OverInv /\ CreateInv
  <2> SUFFICES ASSUME OpsInit PROVE OverInv /\ CreateInv
    OBVIOUS
  <2>1. \A c \in Call : at[c] = "new" /\ pc[c] = "idle"
    BY DEF OpsInit, Init
  <2>2. \A b \in Bead : tree[b] # "none" => tree[b] # "partial" /\ branch[b]
    BY DEF OpsInit
  <2>3. QED
    BY <2>1, <2>2 DEF OverInv, CreateInv, Whole
<1>2. OpsInv /\ OverInv /\ CreateInv /\ [OpsNext]_opsVars => OverInv' /\ CreateInv'
  BY OverStep, CreateStep
<1>3. ASSUME OpsInv, CreateInv, [OpsNext]_opsVars
      PROVE  \A c \in Call :
                Op[c] = "create" /\ outcome[c] = "none" /\ outcome'[c] = "success" =>
                    /\ excluded /\ tree[On[c]] # "none"
                    /\ \/ tree[On[c]] # "partial" /\ branch[On[c]]
                       \/ \E d \in Call : On[d] = On[c] /\ pc[d] = "dead"
  <2> SUFFICES ASSUME NEW c \in Call,
                      Op[c] = "create", outcome[c] = "none", outcome'[c] = "success"
               PROVE  excluded /\ tree[On[c]] # "none" /\ Whole(On[c])
    BY DEF Whole
  <2>1. CallTypes /\ On[c] \in Bead
    BY <1>3, TypeParts, OpsAssumption DEF OpsInv
  <2>2. at[c] = "record"
    <3>1. ASSUME NEW d \in Call, BeginCreate(d) \/ BeginRemove(d) \/ BeginMerge(d) PROVE FALSE
      BY <2>1, <3>1 DEF BeginCreate, BeginRemove, BeginMerge, EnterLock, Answer, CallTypes
    <3>2. ASSUME NEW d \in Call, Command(d) \/ LockStep(d) \/ Die(d) PROVE FALSE
      BY <1>3, <3>2, CommandAlone DEF LockStep, Die, callVars
    <3>3. ASSUME NEW d \in Call, Excludes(d) PROVE FALSE
      BY <2>1, <3>3 DEF Excludes, Answer, CallTypes
    <3>4. ASSUME NEW d \in Call, Finish(d) PROVE at[c] = "record"
      BY <2>1, <3>4 DEF Finish, Answer, CallTypes
    <3>5. ASSUME NEW b \in Bead, Edit(b) PROVE FALSE
      BY <1>3, <3>5 DEF Edit, callVars
    <3>6. ASSUME UNCHANGED opsVars PROVE FALSE
      BY <1>3, <3>6 DEF opsVars, callVars
    <3>7. QED
      BY <1>3, <3>1, <3>2, <3>3, <3>4, <3>5, <3>6 DEF OpsNext
  <2>3. QED
    BY <1>3, <2>1, <2>2 DEF CreateInv
<1>4. QED
  BY <1>1, <1>2, <1>3, OpsInvAlways, PTL DEF OpsSpec, CreatedIsWhole
=============================================================================
