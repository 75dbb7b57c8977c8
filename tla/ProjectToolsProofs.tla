------------------------- MODULE ProjectToolsProofs -------------------------
(***************************************************************************)
(* Proofs about the calls of project tools.  What a call has written       *)
(* decides where it stands, and a call writes only what is its own: its    *)
(* lines of the log, the file of its directory, its command.               *)
(***************************************************************************)
EXTENDS ProjectTools, TLAPS

\* How a command or an operation ends that may count as a pass.
GoodEnd(c) == truth[c] \in {"whole", "late"} \/ (truth[c] = "long" /\ ToolOf[c] \in Lenient)

\* A command or a connection is open only where the call waits for it.
OpenInv(c) ==
    /\ command[c] # "none" => at[c] = "wait" /\ ~connected[c]
    /\ connected[c] => at[c] \in {"wait", "close"}

\* The verdict in the log says how far the call is.
LogInv(c) ==
    /\ "SUCCEEDED" \in logged[c] => at[c] \in {"report", "ended"} /\ status[c] = "PASSED" /\ file[c] = c
    /\ "FAILED" \in logged[c] => at[c] \in {"report", "thrown", "ended"}
    /\ ~({"SUCCEEDED", "FAILED"} \subseteq logged[c])
    /\ told[c] = "passed" \/ "COMPLETED" \in logged[c] => "SUCCEEDED" \in logged[c]
    /\ at[c] = "verdict" => file[c] = c
    /\ at[c] = "report" /\ status[c] = "PASSED" => "SUCCEEDED" \in logged[c]
    /\ status[c] = "PASSED" => GoodEnd(c)

ToolsInv == TypeOK /\ EvidenceIsBacked /\ \A c \in Call : OpenInv(c) /\ LogInv(c)

LEMMA ToolsInit == ASSUME Init PROVE ToolsInv
BY ToolsAssumption DEF Init, ToolsInv, TypeOK, Place, EvidenceIsBacked, OpenInv, LogInv, GoodEnd

-----------------------------------------------------------------------------
(* Types.                                                                  *)

LEMMA StepTyped ==
    ASSUME TypeOK, [Next]_vars PROVE TypeOK'
<1> USE ToolsAssumption
<1>1. ASSUME UNCHANGED vars PROVE TypeOK'
  BY <1>1 DEF TypeOK, vars, outside, results
<1>2. ASSUME Die PROVE TypeOK'
  <2>1. connected' \in [Call -> BOOLEAN]
    BY <1>2 DEF Die
  <2>2. alive' = FALSE /\ mishaps' = mishaps + 1 /\ mishaps < MaxFaults
    BY <1>2 DEF Die, Strike
  <2>3. UNCHANGED <<at, command, results, logged, told, truth, unlogged>>
    BY <1>2 DEF Die
  <2>4. mishaps' \in 0 .. MaxFaults
    BY <2>2 DEF TypeOK
  <2>5. alive' \in BOOLEAN
    BY <2>2
  <2> QED
    BY <2>1, <2>3, <2>4, <2>5 DEF TypeOK, results
<1>3. ASSUME NEW c \in Call, Invoke(c) \/ Start(c) \/ Prepare(c) PROVE TypeOK'
  BY <1>3 DEF TypeOK, Place, Event, Invoke, Start, Prepare, Stands, Go, Record, RecordFails, Strike, Tell,
              outside, results
<1>4. ASSUME NEW c \in Call, Spawn(c) \/ Connect(c) PROVE TypeOK'
  <2>1. connected' \in [Call -> BOOLEAN]
    BY <1>4 DEF TypeOK, Spawn, Connect
  <2> QED
    BY <1>4, <2>1 DEF TypeOK, Place, Spawn, Connect, Stands, Go, Settle, Unreached
<1>5. ASSUME NEW c \in Call, TimesOut(c) \/ Overflows(c) \/ Close(c) PROVE TypeOK'
  <2>1. connected' \in [Call -> BOOLEAN]
    BY <1>5 DEF TypeOK, TimesOut, Overflows, Kill, Close
  <2> QED
    BY <1>5, <2>1 DEF TypeOK, Place, TimesOut, Overflows, Kill, Close, Stands, Go, results
<1>6. ASSUME NEW c \in Call, NEW e \in Ending, Exits(c, e) PROVE TypeOK'
  BY <1>6 DEF TypeOK, Place, Exits, Settle, CommandStatus, Go
<1>7. ASSUME NEW c \in Call, Replies(c) PROVE TypeOK'
  BY <1>7 DEF TypeOK, Place, Replies, Stands, Settle, Unreached, Go
<1>8. ASSUME NEW c \in Call, Persist(c) PROVE TypeOK'
  BY <1>8 DEF TypeOK, Place, Persist, Dir, Stands, Go, Strike, outside
<1>9. ASSUME NEW c \in Call, Verdict(c) PROVE TypeOK'
  BY <1>9 DEF TypeOK, Place, Event, Verdict, Stands, Go, Record, RecordFails, Strike, outside
<1>10. ASSUME NEW c \in Call, Catch(c) \/ Thrown(c) PROVE TypeOK'
  BY <1>10 DEF TypeOK, Place, Event, Catch, Thrown, Stands, Go, Tell, Record, RecordFails, Strike, outside, results
<1>11. ASSUME NEW c \in Call, ReportToAgent(c) \/ CompleteAction(c) PROVE TypeOK'
  BY <1>11 DEF TypeOK, Place, Event, ReportToAgent, CompleteAction, Stands, Go, Tell, Record, RecordFails,
               Strike, outside, results
<1> QED
  BY <1>1, <1>2, <1>3, <1>4, <1>5, <1>6, <1>7, <1>8, <1>9, <1>10, <1>11 DEF Next, Proceed

-----------------------------------------------------------------------------
(* A call writes only what is its own.                                     *)

\* Nothing of call d has changed.
Untouched(d) ==
    /\ at'[d] = at[d] /\ command'[d] = command[d] /\ (connected'[d] => connected[d])
    /\ status'[d] = status[d] /\ file'[d] = file[d] /\ logged'[d] = logged[d]
    /\ told'[d] = told[d] /\ truth'[d] = truth[d]

LEMMA UntouchedKeeps ==
    ASSUME NEW d \in Call, OpenInv(d), LogInv(d), Untouched(d), TypeOK, TypeOK'
    PROVE  OpenInv(d)' /\ LogInv(d)'
<1>1. OpenInv(d)'
  BY DEF OpenInv, Untouched
<1>2. LogInv(d)'
  BY DEF LogInv, GoodEnd, Untouched
<1> QED
  BY <1>1, <1>2

LEMMA OthersUntouched ==
    ASSUME TypeOK, NEW c \in Call, NEW d \in Call \ {c},
           Proceed(c) \/ TimesOut(c) \/ Overflows(c) \/ \E e \in Ending : Exits(c, e)
    PROVE  Untouched(d)
<1>1. CASE Invoke(c) \/ Start(c) \/ Prepare(c) \/ Catch(c) \/ Thrown(c) \/ ReportToAgent(c) \/ CompleteAction(c)
  BY <1>1 DEF Untouched, TypeOK, Invoke, Start, Prepare, Catch, Thrown, ReportToAgent, CompleteAction, Go,
              Record, RecordFails, Tell, outside, results
<1>2. CASE Spawn(c) \/ Connect(c) \/ Replies(c) \/ Close(c)
  BY <1>2 DEF Untouched, TypeOK, Spawn, Connect, Replies, Close, Settle, Go, results
<1>3. CASE Persist(c) \/ Verdict(c)
  BY <1>3 DEF Untouched, TypeOK, Persist, Verdict, Dir, Record, RecordFails, Go, outside
<1>4. CASE TimesOut(c) \/ Overflows(c) \/ \E e \in Ending : Exits(c, e)
  BY <1>4 DEF Untouched, TypeOK, TimesOut, Overflows, Kill, Exits, Settle, Go, results
<1> QED
  BY <1>1, <1>2, <1>3, <1>4 DEF Proceed

-----------------------------------------------------------------------------
(* The call itself.                                                        *)

LEMMA OwnStepKeeps ==
    ASSUME TypeOK, TypeOK', NEW c \in Call, OpenInv(c), LogInv(c),
           Proceed(c) \/ TimesOut(c) \/ Overflows(c) \/ \E e \in Ending : Exits(c, e)
    PROVE  OpenInv(c)' /\ LogInv(c)'
<1> USE DEF OpenInv, LogInv, GoodEnd, TypeOK
<1>1. CASE Invoke(c) \/ Start(c) \/ Prepare(c)
  BY <1>1 DEF Invoke, Start, Prepare, Stands, Go, Record, RecordFails, Tell, outside, results
<1>2. CASE Spawn(c) \/ Connect(c)
  BY <1>2 DEF Spawn, Connect, Stands, Go, Settle, Unreached
<1>3. CASE Replies(c) \/ Close(c)
  BY <1>3 DEF Replies, Close, Stands, Go, Settle, Unreached, results
<1>4. CASE Persist(c)
  BY <1>4 DEF Persist, Dir, Stands, Go, outside
<1>5. CASE Verdict(c)
  BY <1>5 DEF Verdict, Stands, Go, Record, RecordFails, outside
<1>6. CASE Catch(c) \/ Thrown(c)
  BY <1>6 DEF Catch, Thrown, Stands, Go, Record, RecordFails, Tell, outside, results
<1>7. CASE ReportToAgent(c) \/ CompleteAction(c)
  BY <1>7 DEF ReportToAgent, CompleteAction, Stands, Go, Record, RecordFails, Tell, outside, results
<1>8. CASE TimesOut(c) \/ Overflows(c)
  BY <1>8 DEF TimesOut, Overflows, Kill, results
<1>9. ASSUME NEW e \in Ending, Exits(c, e) PROVE OpenInv(c)' /\ LogInv(c)'
  BY <1>9 DEF Exits, Settle, CommandStatus, Go
<1> QED
  BY <1>1, <1>2, <1>3, <1>4, <1>5, <1>6, <1>7, <1>8, <1>9 DEF Proceed

-----------------------------------------------------------------------------
(* The evidence.                                                           *)

\* A call vouches for its tool, and does so for good.
Vouches(c) == "SUCCEEDED" \in logged[c] /\ GoodEnd(c)

LEMMA VouchesOn ==
    ASSUME TypeOK, TypeOK', NEW c \in Call, OpenInv(c), LogInv(c), Vouches(c),
           Untouched(c) \/ Proceed(c) \/ TimesOut(c) \/ Overflows(c) \/ \E e \in Ending : Exits(c, e)
    PROVE  Vouches(c)'
<1> USE DEF Vouches, GoodEnd, OpenInv, LogInv, TypeOK
<1>1. CASE Untouched(c)
  BY <1>1 DEF Untouched
<1>2. CASE Proceed(c)
  BY <1>2 DEF Proceed, Invoke, Start, Prepare, Spawn, Connect, Replies, Close, Persist, Verdict, Catch,
              ReportToAgent, CompleteAction, Thrown, Stands, Record, RecordFails, outside
<1>3. CASE TimesOut(c) \/ Overflows(c) \/ \E e \in Ending : Exits(c, e)
  BY <1>3 DEF TimesOut, Overflows, Kill, Exits
<1> QED
  BY <1>1, <1>2, <1>3

\* Only a verdict makes evidence, and the call it belongs to vouches for it.
LEMMA EvidenceVouched ==
    ASSUME TypeOK, TypeOK', NEW c \in Call, OpenInv(c), LogInv(c), NEW t \in Tool,
           Proceed(c) \/ TimesOut(c) \/ Overflows(c) \/ \E e \in Ending : Exits(c, e),
           evidence'[t] = "passed", evidence[t] # "passed"
    PROVE  ToolOf[c] = t /\ Vouches(c)'
<1>1. Verdict(c)
  BY DEF Proceed, Invoke, Start, Prepare, Spawn, Connect, Replies, Close, Persist, Catch, ReportToAgent,
         CompleteAction, Thrown, TimesOut, Overflows, Kill, Exits, results
<1> QED
  BY <1>1, ToolsAssumption DEF Verdict, Vouches, GoodEnd, LogInv, Record, RecordFails, TypeOK, outside

LEMMA EvidenceKept ==
    ASSUME ToolsInv, TypeOK', NEW c \in Call,
           Proceed(c) \/ TimesOut(c) \/ Overflows(c) \/ \E e \in Ending : Exits(c, e)
    PROVE  EvidenceIsBacked'
<1> SUFFICES ASSUME NEW t \in Tool, evidence'[t] = "passed"
             PROVE  \E d \in Call : ToolOf[d] = t /\ Vouches(d)'
  BY DEF EvidenceIsBacked, Vouches, GoodEnd
<1>1. CASE evidence[t] = "passed"
  <2>1. PICK d \in Call : ToolOf[d] = t /\ Vouches(d)
    BY <1>1 DEF ToolsInv, EvidenceIsBacked, Vouches, GoodEnd
  <2>2. Untouched(d) \/ d = c
    BY OthersUntouched DEF ToolsInv
  <2> QED
    BY <2>1, <2>2, VouchesOn DEF ToolsInv
<1>2. CASE evidence[t] # "passed"
  BY <1>2, EvidenceVouched DEF ToolsInv
<1> QED
  BY <1>1, <1>2

-----------------------------------------------------------------------------
LEMMA ToolsStep ==
    ASSUME ToolsInv, [Next]_vars PROVE ToolsInv'
<1>1. TypeOK'
  BY StepTyped DEF ToolsInv
<1>2. CASE UNCHANGED vars
  BY <1>2 DEF ToolsInv, vars, outside, results, TypeOK, EvidenceIsBacked, OpenInv, LogInv, GoodEnd
<1>3. CASE Die
  <2>1. \A d \in Call : Untouched(d)
    BY <1>3 DEF Die, Untouched, results, ToolsInv, TypeOK
  <2>2. EvidenceIsBacked'
    BY <1>3 DEF Die, results, ToolsInv, EvidenceIsBacked
  <2> QED
    BY <1>1, <2>1, <2>2, UntouchedKeeps DEF ToolsInv
<1>4. ASSUME NEW c \in Call,
             Proceed(c) \/ TimesOut(c) \/ Overflows(c) \/ \E e \in Ending : Exits(c, e)
      PROVE  ToolsInv'
  <2>1. \A d \in Call : OpenInv(d)' /\ LogInv(d)'
    BY <1>1, <1>4, OthersUntouched, UntouchedKeeps, OwnStepKeeps DEF ToolsInv
  <2>2. EvidenceIsBacked'
    BY <1>1, <1>4, EvidenceKept
  <2> QED
    BY <1>1, <2>1, <2>2 DEF ToolsInv
<1> QED
  BY <1>2, <1>3, <1>4 DEF Next

LEMMA ToolsInvariant == Spec => []ToolsInv
<1>1. Init => ToolsInv
  BY ToolsInit
<1>2. ToolsInv /\ [Next]_vars => ToolsInv'
  BY ToolsStep
<1> QED
  BY <1>1, <1>2, PTL DEF Spec

\* The stores of every call stay well formed.
THEOREM ToolsTypeCorrect == Spec => []TypeOK
<1>1. ToolsInv => TypeOK
  BY DEF ToolsInv
<1> QED
  BY <1>1, ToolsInvariant, PTL

\* Log, file, memory and answer of executeConfiguredProjectTool and its callers
\* never tell of a success that one of the others denies.
THEOREM SuccessBacked == Spec => []SuccessIsBacked
<1>1. ToolsInv => SuccessIsBacked
  BY DEF ToolsInv, LogInv, SuccessIsBacked, Dir
<1> QED
  BY <1>1, ToolsInvariant, PTL

\* What the gate takes for a tool's pass is the recorded pass of one of its calls.
THEOREM EvidenceBacked == Spec => []EvidenceIsBacked
<1>1. ToolsInv => EvidenceIsBacked
  BY DEF ToolsInv
<1> QED
  BY <1>1, ToolsInvariant, PTL

\* A call that is past its command or its server has closed them.
THEOREM NothingOpen == Spec => []NothingLeftOpen
<1>1. ToolsInv => NothingLeftOpen
  BY DEF ToolsInv, OpenInv, NothingLeftOpen, TypeOK
<1> QED
  BY <1>1, ToolsInvariant, PTL
=============================================================================
