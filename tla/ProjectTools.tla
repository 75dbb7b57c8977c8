---------------------------- MODULE ProjectTools ----------------------------
(***************************************************************************)
(* executeConfiguredProjectTool (src/plugins/projectTools.ts) and its two  *)
(* callers in extension.ts: wrapPluginTool, for the calls of the agent, and*)
(* runParentSequenceActionsBeforeActive, for tool actions.  A call leaves  *)
(* its verdict in four places: the event log, the result file, the memory  *)
(* of the worker, which the gate of signal_completion reads (WorkerRun),   *)
(* and the answer.  Every write may fail, and the worker may die.          *)
(*                                                                         *)
(* One worker process; the agent's calls run side by side.  The command of *)
(* a tool and the MCP server are the environment.  Arguments, templates and*)
(* the size of the inline result are left out.                             *)
(***************************************************************************)
EXTENDS Naturals

CONSTANTS
    Call,       \* calls of project tools, each with an invocation id of its own
    Tool,
    ToolOf,     \* [Call -> Tool]
    Mcp,        \* tools that call an MCP server; the others run a command
    Optional,   \* tools with optional: true
    Lenient,    \* tools with acceptMaxBuffer: true
    Sequenced,  \* calls made for a tool action; the others are the agent's
    Stubborn,   \* calls whose command does not end when it is killed
    Faults,     \* what may fail: "log", "files", "death"
    MaxFaults   \* bound on how often

ASSUME ToolsAssumption ==
    /\ ToolOf \in [Call -> Tool] /\ Mcp \subseteq Tool /\ Optional \subseteq Tool
    /\ Lenient \subseteq Tool /\ Sequenced \subseteq Call /\ Stubborn \subseteq Call
    /\ Faults \subseteq {"log", "files", "death"} /\ MaxFaults \in Nat

VARIABLES
    alive,      \* the worker process runs
    at,         \* at[c]: where call c stands
    command,    \* command[c]: its command is none, running, late or long (killed)
    connected,  \* connected[c]: an MCP client or transport is open for it
    status,     \* status[c]: of the raw result
    file,       \* file[d]: whose result the file of directory d holds
    logged,     \* logged[c]: events of the call in the log
    evidence,   \* evidence[t]: recordToolInvocation's last result of tool t
    told,       \* told[c]: what the caller makes of it: none, passed, failed, error
    truth,      \* truth[c]: how the command or operation really ended (history)
    unlogged,   \* calls one of whose records failed (history)
    mishaps     \* the faults so far (bound)

outside == <<command, connected, truth>>
results == <<status, file, evidence>>
vars == <<alive, at, outside, results, logged, told, unlogged, mishaps>>

Event == {"STARTED", "SUCCEEDED", "FAILED", "REPORTED", "COMPLETED"}
Place == {"invoke", "start", "prepare", "run", "wait", "close", "persist", "verdict", "catch",
          "report", "thrown", "ended"}

Init ==
    /\ alive = TRUE
    /\ at = [c \in Call |-> IF c \in Sequenced THEN "start" ELSE "invoke"]
    /\ command = [c \in Call |-> "none"] /\ connected = [c \in Call |-> FALSE]
    /\ status = [c \in Call |-> "none"] /\ file = [c \in Call |-> "none"]
    /\ logged = [c \in Call |-> {}] /\ evidence = [t \in Tool |-> "none"]
    /\ told = [c \in Call |-> "none"] /\ truth = [c \in Call |-> "none"] /\ unlogged = {}
    /\ mishaps = 0

Stands(c, place) == alive /\ at[c] = place
Go(c, place) == at' = [at EXCEPT ![c] = place]
Strike(f) == f \in Faults /\ mishaps < MaxFaults /\ mishaps' = mishaps + 1

\* EventStore.record: one line is appended, or it throws.
Record(c, e) == logged' = [logged EXCEPT ![c] = @ \cup {e}] /\ UNCHANGED <<unlogged, mishaps>>
RecordFails(c) == Strike("log") /\ unlogged' = unlogged \cup {c} /\ UNCHANGED logged

\* The call is over for its caller.
Tell(c, verdict) == told' = [told EXCEPT ![c] = verdict] /\ Go(c, "ended")

-----------------------------------------------------------------------------
(* Up to the command or the operation.                                     *)

\* The tool actions run one after another, and the first that fails is the last.
Stopped == \E d \in Sequenced : told[d] = "error"
Sequencing == \E d \in Sequenced : at[d] # "ended" /\ ~(at[d] = "start" /\ Stopped)

\* wrapPluginTool: the record comes before the try block.  The agent's turns begin
\* when the tool actions are over, in whatever way.
Invoke(c) ==
    /\ Stands(c, "invoke") /\ ~Sequencing
    /\ \/ Go(c, "start") /\ UNCHANGED <<told, unlogged, mishaps>>
       \/ RecordFails(c) /\ Tell(c, "error")
    /\ UNCHANGED <<alive, outside, results, logged>>

\* PROJECT_TOOL_STARTED: without it nothing is tried, and nothing more recorded.
Start(c) ==
    /\ Stands(c, "start") /\ (c \in Sequenced => \A d \in Sequenced : at[d] = "start" \/ told[d] = "passed")
    /\ \/ Record(c, "STARTED") /\ Go(c, "prepare")
       \/ RecordFails(c) /\ Go(c, "thrown")
    /\ UNCHANGED <<alive, outside, results, told>>

\* Mutant: the directories are made before the try block.
PrepareUnguarded(c) ==
    /\ Stands(c, "prepare")
    /\ \/ Go(c, "run") /\ UNCHANGED <<logged, unlogged, mishaps>>
       \/ Strike("files") /\ Go(c, "thrown") /\ UNCHANGED <<logged, unlogged>>
       \/ RecordFails(c) /\ Go(c, "thrown")
    /\ UNCHANGED <<alive, outside, results, told>>

\* prepareProjectToolOutputDir and PROJECT_TOOL_OUTPUT_DIR_PREPARED.
Prepare(c) ==
    /\ Stands(c, "prepare")
    /\ \/ Go(c, "run") /\ UNCHANGED <<logged, unlogged, mishaps>>
       \/ Strike("files") /\ Go(c, "catch") /\ UNCHANGED <<logged, unlogged>>
       \/ RecordFails(c) /\ Go(c, "catch")
    /\ UNCHANGED <<alive, outside, results, told>>

\* A raw result, or the lack of one, goes on to persistAndBoundResult.
Settle(c, s, t) == status' = [status EXCEPT ![c] = s] /\ truth' = [truth EXCEPT ![c] = t]

\* execFile: the command starts, or there is no such command.
Spawn(c) ==
    /\ Stands(c, "run") /\ ToolOf[c] \notin Mcp
    /\ \/ /\ command' = [command EXCEPT ![c] = "running"] /\ Go(c, "wait")
          /\ UNCHANGED <<status, truth>>
       \/ Settle(c, "UNAVAILABLE", "absent") /\ Go(c, "persist") /\ UNCHANGED command
    /\ UNCHANGED <<alive, connected, file, logged, evidence, told, unlogged, mishaps>>

\* What executeMcpTool answers when the server cannot be had.
Unreached(c) == IF ToolOf[c] \in Optional THEN "UNAVAILABLE" ELSE "REJECTED"

\* No operation is selected; or the server is not configured; or the client goes
\* on to connect.
Connect(c) ==
    /\ Stands(c, "run") /\ ToolOf[c] \in Mcp
    /\ \/ Settle(c, "REJECTED", "absent") /\ Go(c, "persist") /\ UNCHANGED connected
       \/ Settle(c, Unreached(c), "absent") /\ Go(c, "persist") /\ UNCHANGED connected
       \/ /\ connected' = [connected EXCEPT ![c] = TRUE] /\ Go(c, "wait")
          /\ UNCHANGED <<status, truth>>
    /\ UNCHANGED <<alive, command, file, logged, evidence, told, unlogged, mishaps>>

-----------------------------------------------------------------------------
(* The command and the server.                                             *)

\* execFile kills a command whose time is up, or that has written too much; it
\* answers when the command has ended.
Kill(c, why) ==
    /\ alive /\ command[c] = "running"
    /\ command' = [command EXCEPT ![c] = why]
    /\ UNCHANGED <<alive, at, connected, results, logged, told, truth, unlogged, mishaps>>

TimesOut(c) == Kill(c, "late")
Overflows(c) == Kill(c, "long")

\* How a command may end: with 0, with a code of successExitCodes and nothing on
\* stderr, with such a code and an error on stderr, or in another way.
Ending == {"zero", "listed", "noisy", "other"}

\* Mutant: what the command has written on stderr is not looked at.
CommandStatusQuiet(c, e) ==
    IF \/ command[c] # "long" /\ e \in {"zero", "listed", "noisy"}
       \/ command[c] = "long" /\ ToolOf[c] \in Lenient
    THEN "PASSED" ELSE "REJECTED"

\* execFile's error of a killed command has its exit code, or that of the overflow.
CommandStatus(c, e) ==
    IF \/ command[c] # "long" /\ e \in {"zero", "listed"}
       \/ command[c] = "long" /\ ToolOf[c] \in Lenient
    THEN "PASSED" ELSE "REJECTED"

\* The command of a worker that has died runs on, and nobody hears of its end.
Exits(c, e) ==
    /\ command[c] # "none" /\ ~(c \in Stubborn /\ command[c] \in {"late", "long"})
    /\ command' = [command EXCEPT ![c] = "none"]
    /\ IF alive
       THEN /\ Settle(c, CommandStatus(c, e),
                      IF command[c] = "running" THEN IF e \in {"zero", "listed"} THEN "whole" ELSE "bad"
                      ELSE command[c])
            /\ Go(c, "persist")
       ELSE UNCHANGED <<at, status, truth>>
    /\ UNCHANGED <<alive, connected, file, logged, evidence, told, unlogged, mishaps>>

\* Mutant: only an answer closes the connection, an exception does not.
RepliesUnclosed(c) ==
    /\ Stands(c, "wait") /\ connected[c]
    /\ \/ Settle(c, "PASSED", "whole") /\ Go(c, "close")
       \/ Settle(c, "REJECTED", "bad") /\ Go(c, "close")
       \/ Settle(c, Unreached(c), "bad") /\ Go(c, "persist")
    /\ UNCHANGED <<alive, command, connected, file, logged, evidence, told, unlogged, mishaps>>

\* The operation returns a result, or one with isError; or connect or callTool
\* throws, at the latest when the client's own timeout is up.
Replies(c) ==
    /\ Stands(c, "wait") /\ connected[c]
    /\ \/ Settle(c, "PASSED", "whole")
       \/ Settle(c, "REJECTED", "bad")
       \/ Settle(c, Unreached(c), "bad")
    /\ Go(c, "close")
    /\ UNCHANGED <<alive, command, connected, file, logged, evidence, told, unlogged, mishaps>>

\* The finally block closes client and transport, and takes no error from them.
Close(c) ==
    /\ Stands(c, "close")
    /\ connected' = [connected EXCEPT ![c] = FALSE] /\ Go(c, "persist")
    /\ UNCHANGED <<alive, command, results, logged, told, truth, unlogged, mishaps>>

-----------------------------------------------------------------------------
(* The verdict.                                                            *)

\* Mutant: the directory of a call is that of its tool.
DirOfTool(c) == CHOOSE d \in Call : ToolOf[d] = ToolOf[c]

\* ToolCallPathFactory.allocate: the path ends in the invocation id.
Dir(c) == c

\* persistAndBoundResult writes the result before it bounds it.
Persist(c) ==
    /\ Stands(c, "persist")
    /\ \/ file' = [file EXCEPT ![Dir(c)] = c] /\ Go(c, "verdict") /\ UNCHANGED mishaps
       \/ Strike("files") /\ file' \in {file, [file EXCEPT ![Dir(c)] = "torn"]} /\ Go(c, "catch")
    /\ UNCHANGED <<alive, outside, status, logged, evidence, told, unlogged>>

\* Mutant: the result is kept for the gate before it is recorded.
VerdictNotedFirst(c) ==
    LET passed == status[c] = "PASSED" IN
    /\ Stands(c, "verdict")
    /\ evidence' = [evidence EXCEPT ![ToolOf[c]] = IF passed THEN "passed" ELSE "failed"]
    /\ \/ Record(c, IF passed THEN "SUCCEEDED" ELSE "FAILED") /\ Go(c, "report")
       \/ RecordFails(c) /\ Go(c, "catch")
    /\ UNCHANGED <<alive, outside, status, file, told>>

\* Mutant: the raw status is kept for the gate.
VerdictRaw(c) ==
    LET passed == status[c] = "PASSED" IN
    /\ Stands(c, "verdict")
    /\ \/ /\ Record(c, IF passed THEN "SUCCEEDED" ELSE "FAILED") /\ Go(c, "report")
          /\ evidence' = [evidence EXCEPT ![ToolOf[c]] = status[c]]
       \/ RecordFails(c) /\ Go(c, "catch") /\ UNCHANGED evidence
    /\ UNCHANGED <<alive, outside, status, file, told>>

\* PROJECT_TOOL_SUCCEEDED or PROJECT_TOOL_FAILED; back in the caller, the result
\* is kept for the gate.  A record that fails counts as a failure of the tool.
Verdict(c) ==
    LET passed == status[c] = "PASSED" IN
    /\ Stands(c, "verdict")
    /\ \/ /\ Record(c, IF passed THEN "SUCCEEDED" ELSE "FAILED") /\ Go(c, "report")
          /\ evidence' = [evidence EXCEPT ![ToolOf[c]] = IF passed THEN "passed" ELSE "failed"]
       \/ RecordFails(c) /\ Go(c, "catch") /\ UNCHANGED evidence
    /\ UNCHANGED <<alive, outside, status, file, told>>

\* The catch block records the failure, if it can, and throws.
Catch(c) ==
    /\ Stands(c, "catch")
    /\ Record(c, "FAILED") \/ RecordFails(c)
    /\ Go(c, "thrown")
    /\ UNCHANGED <<alive, outside, results, told>>

\* wrapPluginTool: TOOL_INVOCATION_SUCCEEDED or TOOL_INVOCATION_FAILED.  If the
\* record fails, the agent sees an error in place of the result.
ReportToAgent(c) ==
    /\ Stands(c, "report") /\ c \notin Sequenced
    /\ \/ Record(c, "REPORTED") /\ Tell(c, IF status[c] = "PASSED" THEN "passed" ELSE "failed")
       \/ RecordFails(c) /\ Tell(c, "error")
    /\ UNCHANGED <<alive, outside, results>>

\* The parent sequence: ACTION_COMPLETED, unless the result is a failure or one of
\* the framework tool calls it asks for is refused.
CompleteAction(c) ==
    /\ Stands(c, "report") /\ c \in Sequenced
    /\ \/ status[c] = "PASSED" /\ Record(c, "COMPLETED") /\ Tell(c, "passed")
       \/ RecordFails(c) /\ Tell(c, "error")
       \/ Tell(c, "error") /\ UNCHANGED <<logged, unlogged, mishaps>>
    /\ UNCHANGED <<alive, outside, results>>

\* Both callers turn an exception into an error; nothing is kept for the gate.
Thrown(c) ==
    /\ Stands(c, "thrown") /\ Tell(c, "error")
    /\ UNCHANGED <<alive, outside, results, logged, unlogged, mishaps>>

\* The worker dies: its sockets and pipes close with it, its commands run on.
Die ==
    /\ alive /\ Strike("death")
    /\ alive' = FALSE /\ connected' = [c \in Call |-> FALSE]
    /\ UNCHANGED <<at, command, results, logged, told, truth, unlogged>>

-----------------------------------------------------------------------------
Proceed(c) ==
    \/ Invoke(c) \/ Start(c) \/ Prepare(c) \/ Spawn(c) \/ Connect(c) \/ Replies(c) \/ Close(c)
    \/ Persist(c) \/ Verdict(c) \/ Catch(c) \/ ReportToAgent(c) \/ CompleteAction(c) \/ Thrown(c)

Killed(c) == command[c] \in {"late", "long"}
Ends(c) == Killed(c) /\ \E e \in Ending : Exits(c, e)

Next ==
    \/ Die
    \/ \E c \in Call :
        \/ Proceed(c) \/ TimesOut(c) \/ Overflows(c) \/ \E e \in Ending : Exits(c, e)

\* The worker's event loop goes on, the timer of a command goes off, and one that
\* is killed ends, if it can be.
ToolsFairness ==
    \A c \in Call : WF_vars(Proceed(c)) /\ WF_vars(TimesOut(c)) /\ WF_vars(Ends(c))

Spec == Init /\ [][Next]_vars
FairSpec == Spec /\ ToolsFairness

-----------------------------------------------------------------------------
TypeOK ==
    /\ alive \in BOOLEAN /\ at \in [Call -> Place]
    /\ command \in [Call -> {"none", "running", "late", "long"}] /\ connected \in [Call -> BOOLEAN]
    /\ status \in [Call -> {"none", "PASSED", "REJECTED", "UNAVAILABLE"}]
    /\ file \in [Call -> Call \cup {"none", "torn"}] /\ logged \in [Call -> SUBSET Event]
    /\ evidence \in [Tool -> {"none", "passed", "failed"}]
    /\ told \in [Call -> {"none", "passed", "failed", "error"}]
    /\ truth \in [Call -> {"none", "whole", "bad", "absent", "late", "long"}]
    /\ unlogged \subseteq Call /\ mishaps \in 0 .. MaxFaults

\* A success in the log is backed by the whole result on disk, for good, and is
\* never followed by a failure of the same call; an answer and a completed action
\* are backed by it in their turn.  Any write between them may fail, the worker
\* may die, and other calls of the tool write results of their own.
SuccessIsBacked ==
    \A c \in Call :
        /\ "SUCCEEDED" \in logged[c] =>
              file[Dir(c)] = c /\ status[c] = "PASSED" /\ "FAILED" \notin logged[c]
        /\ told[c] = "passed" \/ "COMPLETED" \in logged[c] => "SUCCEEDED" \in logged[c]

\* What the gate of signal_completion takes for the pass of a tool is the pass of
\* a call of it that is in the log and came to a good end, unless the command was
\* cut short: killed for its output, where that is accepted, or for its time, if
\* it answers the kill with a successful exit code.
EvidenceIsBacked ==
    \A t \in Tool : evidence[t] = "passed" =>
        \E c \in Call : /\ ToolOf[c] = t /\ "SUCCEEDED" \in logged[c]
                        /\ \/ truth[c] \in {"whole", "late"}
                           \/ truth[c] = "long" /\ t \in Lenient

\* A call that goes on to its verdict has left no command and no connection behind.
NothingLeftOpen ==
    \A c \in Call : at[c] \notin {"wait", "close"} => command[c] = "none" /\ ~connected[c]

\* Every tool that was started gets its verdict in the log, and its caller an
\* answer, unless the worker dies, a record fails, or the command survives the
\* kill: the call, and the agent's turn, then wait for it without end.
EveryCallEnds ==
    \A c \in Call :
        ("STARTED" \in logged[c]) ~>
            \/ told[c] # "none" /\ (c \in unlogged \/ logged[c] \cap {"SUCCEEDED", "FAILED"} # {})
            \/ ~alive
            \/ c \in Stubborn /\ Killed(c)
=============================================================================
