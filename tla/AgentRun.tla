-------------------------------- MODULE AgentRun --------------------------------
(***************************************************************************)
(* A run of the agent: run of app/agent/base.py, think and act of          *)
(* toolcall.py and the shell of cli.py that starts, interrupts and resumes *)
(* runs, on top of the requests to the model and of the journal of state.py: *)
(* a row for each task in a database and a checkpoint of the agent's memory  *)
(* in a file.  Both outlive the process.                                   *)
(*                                                                         *)
(* The shell reads commands while a run is in progress, and it keeps one   *)
(* agent for all its prompts.  The process may be killed at any point.     *)
(***************************************************************************)
EXTENDS ModelCall

CONSTANTS
    Tasks,          \* bound: the identifiers of the rows
    None,           \* no task, no checkpoint
    MaxSteps,       \* _max_steps
    MaxNarrations,  \* _MAX_NARRATION_NUDGES
    MaxGateNudges,  \* _MAX_PLAN_GATE_NUDGES
    MaxBatch,       \* bound: the tool calls of one answer
    MaxPrompts,     \* bound: the prompts
    MaxCommands,    \* bound: the other commands: interrupts, /resume and /new
    MaxKills        \* bound: how often the process is killed

ASSUME JournalAssumption == None \notin Tasks /\ None \notin Nat

ASSUME RunAssumption ==
    {MaxSteps, MaxNarrations, MaxGateNudges, MaxBatch, MaxPrompts, MaxCommands, MaxKills}
       \subseteq Nat

VARIABLES
    status,    \* of each row; "free" when there is no row yet
    saved,     \* the steps of work in the checkpoint of each task
    agent,     \* the agent: its state and the fields that outlive a step
    pc,        \* where the run is
    left,      \* the tool calls of the answer that are still to be executed
    plan,      \* the plan of each task in the journal
    after,     \* a tool ran after the run had been declared finished
    prompts, commands, kills

journalVars == <<status, saved>>

bounds == <<prompts, commands, kills>>

runVars == <<agent, pc, left, plan, after, bounds>>

vars == <<callVars, journalVars, runVars>>

-----------------------------------------------------------------------------
(* The journal.                                                            *)

JournalInit ==
    /\ status = [t \in Tasks |-> "free"]
    /\ saved = [t \in Tasks |-> None]

TaskStart(t) == status[t] = "free" /\ status' = [status EXCEPT ![t] = "in_progress"]

TaskUpdate(t, s) == status' = [status EXCEPT ![t] = s]

(* checkpoint: written beside the old one and renamed over it. *)
Checkpoint(t, work) == saved' = [saved EXCEPT ![t] = work]

(* mark_interrupted_running_tasks, at the start of a process. *)
MarkInterrupted ==
    status' = [t \in Tasks |->
                  IF status[t] \in {"in_progress", "paused"} THEN "interrupted" ELSE status[t]]

-----------------------------------------------------------------------------

Agent(s) ==
    [state |-> s, steps |-> 0, task |-> None, graph |-> FALSE, chat |-> FALSE, worked |-> FALSE,
     narrations |-> 0, gates |-> 0, reason |-> "unknown", budget |-> "left", work |-> 0]

Fresh == Agent("IDLE")

Verified == {"final_answer", "terminate"}

Init ==
    /\ CallInit /\ JournalInit
    /\ agent = Fresh
    /\ pc = "prompt"
    /\ left = 0
    /\ plan = [t \in Tasks |-> "none"]
    /\ after = FALSE
    /\ prompts = 0 /\ commands = 0 /\ kills = 0

Goto(label) == pc' = label

Command == commands < MaxCommands /\ commands' = commands + 1

-----------------------------------------------------------------------------
(* The run: its beginning.                                                 *)

(* What belongs to the agent and not to the run is not reset. *)
Prompt ==
    /\ pc = "prompt"
    /\ prompts < MaxPrompts /\ prompts' = prompts + 1
    /\ Goto("start")
    /\ \E chat \in BOOLEAN :
         agent' = [agent EXCEPT !.state = "RUNNING", !.steps = 0, !.worked = FALSE,
                                !.reason = "unknown", !.chat = chat]
    /\ after' = FALSE
    /\ UNCHANGED <<callVars, journalVars, left, plan, commands, kills>>

(* A row for the task, unless the agent has one, and a plan, unless it has *)
(* a graph, or the prompt is chat, or the mode plans nothing.              *)
Start ==
    /\ pc = "start"
    /\ Goto("loop")
    /\ \E t \in Tasks :
         /\ IF agent.task = None THEN TaskStart(t) ELSE t = agent.task /\ UNCHANGED status
         /\ \/ /\ ~agent.chat /\ ~agent.graph
               /\ agent' = [agent EXCEPT !.task = t, !.graph = TRUE]
               /\ plan' = [plan EXCEPT ![t] = "open"]
            \/ agent' = [agent EXCEPT !.task = t] /\ UNCHANGED plan
    /\ UNCHANGED <<callVars, saved, left, after, bounds>>

-----------------------------------------------------------------------------
(* The loop over steps.                                                    *)

Stop(reason) ==
    /\ agent' = [agent EXCEPT !.state = "FINISHED", !.reason = reason]
    /\ Goto("verdict")

NextStep ==
    /\ agent' = [agent EXCEPT !.steps = @ + 1, !.budget = IF @ = "spent" THEN "graced" ELSE @]
    /\ Goto("save")

Loop ==
    /\ pc = "loop"
    /\ IF agent.state = "RUNNING" /\ agent.steps < MaxSteps
       THEN IF agent.budget = "graced" THEN Stop("token_budget") ELSE NextStep
       ELSE IF agent.state = "RUNNING" THEN Stop("max_steps")
       ELSE UNCHANGED agent /\ Goto("verdict")
    /\ UNCHANGED <<callVars, journalVars, left, plan, after, bounds>>

(* Faulty: a checkpoint at every other step. *)
SaveSometimes ==
    /\ pc = "save"
    /\ IF agent.steps % 2 = 1 THEN Checkpoint(agent.task, agent.work) ELSE UNCHANGED saved
    /\ Goto("think")
    /\ UNCHANGED <<callVars, status, agent, left, plan, after, bounds>>

Save ==
    /\ pc = "save"
    /\ Checkpoint(agent.task, agent.work)
    /\ Goto("think")
    /\ UNCHANGED <<callVars, status, agent, left, plan, after, bounds>>

Think ==
    /\ pc \in {"think", "retry"}
    /\ Ask
    /\ Goto(IF pc = "think" THEN "wait" ELSE "wait again")
    /\ UNCHANGED <<journalVars, agent, left, plan, after, bounds>>

(* The answer may use up the tokens; then one step more is granted. *)
Answered ==
    /\ pc \in {"wait", "wait again"}
    /\ call.at = "answered"
    /\ call' = NoCall
    /\ \E b \in {agent.budget} \union {"spent" : x \in {agent.budget} \intersect {"left"}} :
         agent' = [agent EXCEPT !.budget = b]
    /\ Goto("act")
    /\ UNCHANGED <<keys, journalVars, left, plan, after, bounds>>

(* An overflow is asked once more if compaction helped; the rest ends the run. *)
Unanswered ==
    /\ pc \in {"wait", "wait again"}
    /\ call.at \in {"failed", "overflow"}
    /\ call' = NoCall
    /\ \/ pc = "wait" /\ call.at = "overflow" /\ Goto("retry") /\ UNCHANGED agent
       \/ /\ agent' = [agent EXCEPT !.state = "ERROR", !.reason = "error"]
          /\ Goto("verdict")
    /\ UNCHANGED <<keys, journalVars, left, plan, after, bounds>>

-----------------------------------------------------------------------------
(* What the answer asks for.                                               *)

Finish(reason) == [agent EXCEPT !.state = "FINISHED", !.reason = reason]

(* The step is over, and what it did is in the agent's memory. *)
Done(a) == agent' = [a EXCEPT !.work = @ + 1] /\ Goto("loop")

Unfinished == plan[agent.task] = "open"

Gated == agent.gates < MaxGateNudges /\ agent.worked /\ Unfinished

(* A text is the final answer, except for an announcement of work and, once *)
(* tools have run, before the plan is finished: both are nudged, so often.  *)
Text ==
    /\ pc = "act"
    /\ \/ agent.state # "RUNNING" /\ Done(agent)
       \/ /\ agent.state = "RUNNING" /\ agent.chat /\ ~agent.worked
          /\ Done(Finish("final_answer"))
       \/ /\ agent.state = "RUNNING" /\ ~(agent.chat /\ ~agent.worked)
          /\ \/ agent.narrations < MaxNarrations /\ Done([agent EXCEPT !.narrations = @ + 1])
             \/ Gated /\ Done([agent EXCEPT !.gates = @ + 1])
             \/ ~Gated /\ Done(Finish("final_answer"))
    /\ UNCHANGED <<callVars, journalVars, left, plan, after, bounds>>

(* An empty answer does nothing; tool calls are executed one by one. *)
Batch ==
    /\ pc = "act"
    /\ \E n \in 0..MaxBatch :
         /\ left' = n
         /\ IF n = 0 THEN Done(agent) ELSE UNCHANGED agent /\ Goto("tools")
    /\ UNCHANGED <<callVars, journalVars, plan, after, bounds>>

Called(a) ==
    /\ left' = left - 1
    /\ IF left = 1 THEN Done(a) ELSE agent' = a /\ UNCHANGED pc

(* Every fourth execution of a tool takes a checkpoint within the step.    *)
Stock == UNCHANGED saved \/ Checkpoint(agent.task, agent.work)

(* A tool that is denied leaves no observation; one that runs may finish   *)
(* the plan or add to it. *)
Tool ==
    /\ pc = "tools"
    /\ after' = (after \/ agent.state = "FINISHED")
    /\ \/ Called(agent) /\ UNCHANGED <<plan, saved>>
       \/ /\ Called([agent EXCEPT !.worked = TRUE])
          /\ Stock
          /\ \E p \in {plan[agent.task], "open"} \union
                      {"done" : x \in {plan[agent.task]} \intersect {"open"}} :
               plan' = [plan EXCEPT ![agent.task] = p]
    /\ UNCHANGED <<callVars, status, bounds>>

(* Faulty: a terminate that nothing verifies. *)
TerminateAtOnce ==
    /\ pc = "tools"
    /\ Called([agent EXCEPT !.worked = TRUE, !.state = "FINISHED", !.reason = "terminate"])
    /\ Stock
    /\ UNCHANGED <<callVars, status, plan, after, bounds>>

(* terminate counts as a tool call before its gate is looked at.  The calls *)
(* that follow in the same answer are still executed.                       *)
Terminate ==
    /\ pc = "tools"
    /\ IF agent.gates < MaxGateNudges /\ Unfinished
       THEN Called([agent EXCEPT !.worked = TRUE, !.gates = @ + 1])
       ELSE Called([agent EXCEPT !.worked = TRUE, !.state = "FINISHED", !.reason = "terminate"])
    /\ Stock
    /\ UNCHANGED <<callVars, status, plan, after, bounds>>

-----------------------------------------------------------------------------
(* The end of the run.                                                     *)

Verdict ==
    /\ pc = "verdict"
    /\ IF agent.task = None THEN UNCHANGED status
       ELSE \E s \in CASE agent.state = "FINISHED" ->
                            {IF agent.reason \in Verified THEN "completed" ELSE "partial"}
                       [] agent.state = "ERROR" -> {"failed", "blocked"}
                       [] OTHER -> {"paused"} :
              TaskUpdate(agent.task, s)
    /\ Goto("last save")
    /\ UNCHANGED <<callVars, saved, agent, left, plan, after, bounds>>

(* The shell makes the agent idle again.  What the next run resets at its  *)
(* start is reset here: nothing reads it in between.                       *)
ToPrompt ==
    /\ agent' = [agent EXCEPT !.state = "IDLE", !.steps = 0, !.worked = FALSE,
                              !.reason = "unknown", !.chat = FALSE]
    /\ Goto("prompt")

LastSave ==
    /\ pc = "last save"
    /\ IF agent.task = None THEN UNCHANGED saved ELSE Checkpoint(agent.task, agent.work)
    /\ ToPrompt
    /\ UNCHANGED <<callVars, status, left, plan, after, bounds>>

(* /pause, /stop, Ctrl+C: the run is cancelled where it waits.  What is    *)
(* cancelled in the end of the run is skipped. *)
Cancel ==
    /\ pc \notin {"prompt", "down"}
    /\ Command
    /\ call' = NoCall
    /\ left' = 0
    /\ IF pc \in {"verdict", "last save"} THEN ToPrompt ELSE Goto("verdict") /\ UNCHANGED agent
    /\ UNCHANGED <<keys, journalVars, plan, after, prompts, kills>>

-----------------------------------------------------------------------------
(* The shell between and during runs.                                      *)

(* /resume: with an identifier it takes any task, and it asks nobody       *)
(* whether a run is in progress.                                           *)
Resume(t) ==
    /\ pc # "down" /\ status[t] # "free"
    /\ Command
    /\ TaskUpdate(t, "in_progress")
    /\ agent' = [agent EXCEPT !.state = "IDLE", !.steps = 0, !.task = t,
                              !.graph = @ \/ plan[t] # "none",
                              !.work = IF saved[t] = None THEN @ ELSE saved[t]]
    /\ UNCHANGED <<callVars, saved, pc, left, plan, after, prompts, kills>>

New ==
    /\ pc = "prompt"
    /\ Command
    /\ agent' = Fresh
    /\ keys' = [k \in Keys |-> "live"]
    /\ UNCHANGED <<call, journalVars, pc, left, plan, after, prompts, kills>>

Kill ==
    /\ pc # "down"
    /\ kills < MaxKills
    /\ kills' = kills + 1
    /\ Goto("down")
    /\ agent' = Fresh
    /\ keys' = [k \in Keys |-> "live"]
    /\ call' = NoCall
    /\ left' = 0
    /\ UNCHANGED <<journalVars, plan, after, prompts, commands>>

Launch ==
    /\ pc = "down"
    /\ MarkInterrupted
    /\ Goto("prompt")
    /\ UNCHANGED <<callVars, saved, agent, left, plan, after, bounds>>

-----------------------------------------------------------------------------

Wire ==
    /\ Calling
    /\ UNCHANGED <<journalVars, runVars>>

Next ==
    \/ Prompt \/ Start \/ Loop \/ Save \/ Think \/ Wire \/ Answered \/ Unanswered
    \/ Text \/ Batch \/ Tool \/ Terminate \/ Verdict \/ LastSave
    \/ Cancel \/ (\E t \in Tasks : Resume(t)) \/ New \/ Kill \/ Launch

Spec == Init /\ [][Next]_vars

-----------------------------------------------------------------------------

JournalTypeOK ==
    /\ status \in [Tasks -> {"free", "in_progress", "completed", "partial", "failed",
                             "blocked", "paused", "interrupted"}]
    /\ saved \in [Tasks -> Nat \union {None}]

TypeOK ==
    /\ CallTypeOK /\ JournalTypeOK
    /\ agent \in [state : {"IDLE", "RUNNING", "FINISHED", "ERROR"}, steps : 0..MaxSteps,
                  task : Tasks \union {None}, graph : BOOLEAN, chat : BOOLEAN, worked : BOOLEAN,
                  narrations : 0..MaxNarrations, gates : 0..MaxGateNudges,
                  reason : Verified \union {"unknown", "max_steps", "token_budget", "error"},
                  budget : {"left", "spent", "graced"}, work : Nat]
    /\ pc \in {"prompt", "start", "loop", "save", "think", "wait", "retry", "wait again", "act",
               "tools", "verdict", "last save", "down"}
    /\ left \in 0..MaxBatch
    /\ plan \in [Tasks -> {"none", "open", "done"}]
    /\ after \in BOOLEAN
    /\ prompts \in 0..MaxPrompts /\ commands \in 0..MaxCommands /\ kills \in 0..MaxKills

(* The journal says completed only of a task whose plan was finished when  *)
(* the run ended, unless no tool had run, the nudges of the agent were     *)
(* used up, or a call that followed the terminate call opened the plan     *)
(* again: "the verdict now keys off _finish_reason, not just AgentState".  *)
VerdictIsEarned ==
    [][\A t \in Tasks : (status'[t] = "completed" /\ status[t] # "completed") =>
         \/ plan[t] # "open"
         \/ ~agent.worked
         \/ agent.gates = MaxGateNudges
         \/ after]_vars

(* A process that dies takes at most one step of a task with it: what      *)
(* /resume finds in the checkpoint is all but the step in progress ("a     *)
(* crash after the next step must still leave restorable state on disk").  *)
LosesAtMostAStep ==
    (agent.task # None /\ saved[agent.task] # None) => agent.work - saved[agent.task] <= 1
=============================================================================
