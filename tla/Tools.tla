---------------------------------- MODULE Tools ----------------------------------
(***************************************************************************)
(* The execution of tools: the executor with its locks (ToolExecutor), the   *)
(* executor of coroutines (AsyncExecutor), the shell of the bash tool        *)
(* (Shell), and the client of an MCP server (McpClient), side by side in one *)
(* state.                                                                  *)
(*                                                                         *)
(* They share no state: a step of one leaves the others as they are.        *)
(***************************************************************************)
EXTENDS ToolExecutor

CONSTANTS
    Coroutines, CoroutineDecl, Sync, Hurried, MaxConcurrency, MaxTaskAttempts, Threads, NoJob,
                                             \* of the executor of coroutines
    Commands, Deadlines, MaxShells, MaxCancels, \* of the shell
    Requests, MaxLines, MaxNoise, MaxRequestCancels, NoRequest \* of the client

VARIABLES
    asyncWriter, asyncReaders, asyncTracked, taskAt, jobs, job, taskGot, taskAttempt, taskResult,
    bashQueue, process, state, input, child, pipe, bashAt, shell, seen, output, cleanup,
    bashCancels,
    rpcQueue, server, asked, lines, at, read, answer, noise, cancels

async ==
    <<asyncWriter, asyncReaders, asyncTracked, taskAt, jobs, job, taskGot, taskAttempt,
      taskResult>>

bash ==
    <<bashQueue, process, state, input, child, pipe, bashAt, shell, seen, output, cleanup,
      bashCancels>>

mcp == <<rpcQueue, server, asked, lines, at, read, answer, noise, cancels>>

toolVars == <<vars, async, bash, mcp>>

-----------------------------------------------------------------------------

Async ==
    INSTANCE AsyncExecutor WITH
        Batch <- Coroutines, Decl <- CoroutineDecl, Timed <- Hurried,
        MaxAttempts <- MaxTaskAttempts, Users <- Threads,
        writer <- asyncWriter, readers <- asyncReaders, tracked <- asyncTracked,
        at <- taskAt, got <- taskGot, attempt <- taskAttempt, result <- taskResult

(* No reset of the shell is cancelled. *)
Bash ==
    INSTANCE Shell WITH
        Calls <- Commands, Timed <- Deadlines, Impatient <- {}, None <- 0,
        queue <- bashQueue, at <- bashAt, result <- output, cancels <- bashCancels

Mcp ==
    INSTANCE McpClient WITH
        MaxCancels <- MaxRequestCancels, None <- NoRequest, queue <- rpcQueue, result <- answer

ASSUME ToolsAssumption ==
    /\ Async!AsyncAssumption /\ Bash!ShellAssumption /\ Mcp!McpAssumption

-----------------------------------------------------------------------------

ToolsInit == Init /\ Async!Init /\ Bash!Init /\ Mcp!Init

ToolsNext ==
    \/ Next /\ UNCHANGED <<async, bash, mcp>>
    \/ Async!Next /\ UNCHANGED <<vars, bash, mcp>>
    \/ Bash!Next /\ UNCHANGED <<vars, async, mcp>>
    \/ Mcp!Next /\ UNCHANGED <<vars, async, bash>>

ToolsSpec == ToolsInit /\ [][ToolsNext]_toolVars

-----------------------------------------------------------------------------

(* Conflicting calls exclude each other also where threads release locks    *)
(* that others have acquired, and what was locked for reading comes back:   *)
(* see AsyncExecutor.                                                      *)
TasksAreSafe == Async!TypeOK /\ Async!Serialised /\ Async!ReadsAreReturned

(* What the shell returns was printed by the command, and one shell runs:   *)
(* see Shell.                                                              *)
CommandsAreSafe == Bash!TypeOK /\ Bash!OwnOutput /\ Bash!ShellIsKnown

(* The answer to a request is its own: see McpClient.                       *)
RequestsAreSafe == Mcp!TypeOK /\ Mcp!AnswerIsOwn

(* All of these together. *)
ToolsAreSafe == TasksAreSafe /\ CommandsAreSafe /\ RequestsAreSafe
=============================================================================
