------------------------------- MODULE MCAgentRun -------------------------------
(***************************************************************************)
(* The work of an agent, on small instances: a shell with its agent and its *)
(* journal; its requests to the model alone, with all that may come of      *)
(* them; the messages that the agent keeps for it; a conversation with a    *)
(* thread that runs it, one that stops it or repairs its log, and one that  *)
(* sends a message or resumes it; and the registry of sessions with two     *)
(* runs of any home.                                                       *)
(*                                                                         *)
(* The parts share no state here, so a behaviour shows one of them and      *)
(* leaves the others where they begin.                                     *)
(***************************************************************************)
EXTENDS AgentWork, TLC

VARIABLE part \* the one that moves

MCCalls ==
    "runner" :> {"run"} @@ "user" :> {"interrupt", "close", "reindex"}
    @@ "sender" :> {"send", "resume"}

MCMaxCalls == [t \in Threads |-> 1]

-----------------------------------------------------------------------------

MCInit ==
    /\ part \in {"agent", "request", "history", "conversation", "registry"}
    /\ WorkInit

(* Tasks are interchangeable, and so are runs, and sessions: the first one  *)
(* has the first name.                                                      *)
TasksInOrder == status'["t2"] # "free" => status'["t1"] # "free"

RegistryInOrder ==
    /\ at'["r2"] # "new" => at'["r1"] # "new"
    /\ row'["s2"] # None => row'["s1"] # None

(* A command and a kill meet in the run of one prompt. *)
FewInterrupts == commands' + kills' = 2 /\ commands + kills = 1 => prompts = 1

(* Two faults meet in the first run of the first process, and one meets a   *)
(* second run or a death.                                                   *)
FewFaults == faults' > 0 => faults' + turns' + deaths' <= 3

(* The requests of a run have the errors that end them: the retries and the *)
(* keys are for the requests alone.                                        *)
FewRetries == keys' = keys /\ call'.generic = 0

(* Whoever has an answer, or an error, may ask again. *)
AskAgain ==
    /\ call.at \in {"answered", "failed", "overflow"}
    /\ call' = NoCall
    /\ UNCHANGED keys

MCNext ==
    \/ /\ part = "agent" /\ Next /\ TasksInOrder /\ FewInterrupts /\ FewRetries
       /\ UNCHANGED <<part, history, conversation, registry>>
    \/ /\ part = "request" /\ (Ask \/ Calling \/ AskAgain)
       /\ UNCHANGED <<part, journalVars, runVars, history, conversation, registry>>
    \/ /\ part = "history" /\ Hist!Next /\ FewFaults
       /\ UNCHANGED <<part, vars, conversation, registry>>
    \/ /\ part = "conversation" /\ Conv!Next
       /\ UNCHANGED <<part, vars, history, registry>>
    \/ /\ part = "registry" /\ Reg!Next /\ RegistryInOrder
       /\ UNCHANGED <<part, vars, history, conversation>>

MCSpec == MCInit /\ [][MCNext]_<<part, workVars>>
=============================================================================
