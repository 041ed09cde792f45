-------------------------------- MODULE MCTools --------------------------------
(***************************************************************************)
(* The execution of tools, on small instances, with the fairness that the    *)
(* code gives each of them: three calls over two resources; three coroutines *)
(* on two threads; two commands for two shells; and two requests to a server *)
(* whose answer is expected in two lines and that says two things more.      *)
(* A behaviour shows one of them and leaves the others where they begin.     *)
(***************************************************************************)
EXTENDS Tools

CONSTANTS c1, c2, c3 \* calls of the executor

VARIABLE
    part \* the one that moves

ReadOf(k) == [key |-> k, mode |-> "READ"]
WriteOf(k) == [key |-> k, mode |-> "WRITE"]

(* Three calls over two resources.  c1 and c2 want both, each writing the   *)
(* one the other reads; c3 writes the first.  Any two of them conflict.     *)
MCBatch == <<c1, c2, c3>>

CrossedDecl ==
    c1 :> {ReadOf(1), WriteOf(2)}
        @@ c2 :> {WriteOf(1), ReadOf(2)}
        @@ c3 :> {WriteOf(1)}

(* c1 and c2 share the first resource, c3 writes it. *)
SharedDecl ==
    c1 :> {ReadOf(1), WriteOf(2)}
        @@ c2 :> {ReadOf(1)}
        @@ c3 :> {WriteOf(1), WriteOf(2)}

(* "a" reads what "b" writes, "c" reads it too.  "b" is no coroutine and has *)
(* a timeout.                                                              *)
MCCoroutines == <<"a", "b", "c">>

MCCoroutineDecl ==
    "a" :> {ReadOf(1), WriteOf(2)} @@ "b" :> {WriteOf(1)} @@ "c" :> {ReadOf(1)}

MCNoJob == [call |-> "none", does |-> "none"]

-----------------------------------------------------------------------------

(* Where another part moves, there is no batch of coroutines left. *)
AsyncIsOver ==
    /\ Async!InitLocks
    /\ taskAt = [c \in Async!Calls |-> "done"]
    /\ jobs = <<>> /\ job = [t \in Threads |-> NoJob]
    /\ taskGot = [c \in Async!Calls |-> 0]
    /\ taskAttempt = [c \in Async!Calls |-> 1]
    /\ taskResult = [c \in Async!Calls |-> "none"]

MCInit ==
    /\ part \in {"executor", "async", "bash", "mcp"}
    /\ Init /\ Bash!Init /\ Mcp!Init
    /\ \/ part = "async" /\ Async!Init
       \/ part # "async" /\ AsyncIsOver

(* Only the executor is asked to go on until all is answered. *)
Rest == part # "executor" /\ UNCHANGED <<part, toolVars>>

MCNext ==
    \/ part = "executor" /\ Next /\ UNCHANGED <<part, async, bash, mcp>>
    \/ part = "async" /\ Async!Next /\ UNCHANGED <<part, vars, bash, mcp>>
    \/ part = "bash" /\ Bash!Next /\ UNCHANGED <<part, vars, async, mcp>>
    \/ part = "mcp" /\ Mcp!Next /\ UNCHANGED <<part, vars, async, bash>>
    \/ Rest

MCSpec ==
    /\ MCInit
    /\ [][MCNext]_<<part, toolVars>>
    /\ part = "executor" => Fairness
    /\ Async!Fairness /\ Bash!Fairness /\ Mcp!Fairness

(* The executor alone. *)
ExecutorInit == part = "executor" /\ MCInit

ExecutorSpec == ExecutorInit /\ [][MCNext]_<<part, toolVars>> /\ Fairness

-----------------------------------------------------------------------------

(* What has begun ends: every patient call runs, a batch and a command with *)
(* a timeout end, and so does a request to a server, with its answer if     *)
(* that has come: see the modules.                                         *)
ToolsAnswer ==
    /\ part = "executor" => EveryToolRuns
    /\ Async!BatchEnds
    /\ Bash!TimedCallsEnd
    /\ Mcp!RequestsEnd /\ Mcp!AnswerIsTaken
=============================================================================
