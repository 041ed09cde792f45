-------------------------------- MODULE AgentWork --------------------------------
(***************************************************************************)
(* The work of an agent: a run of the agent with its journal (AgentRun),   *)
(* the messages that the agent keeps for its model (History), the          *)
(* conversation that threads run, stop and resume (Conversation) and the    *)
(* registry of the sessions that runs belong to (Sessions), side by side in *)
(* one state.                                                              *)
(*                                                                         *)
(* The conversation and the registry keep files and objects of their own,  *)
(* and none reads what another one keeps, so a step of one leaves the      *)
(* others as they are.  AgentRun and History are two views of an agent's    *)
(* runs, one of its steps and one of its messages: each leaves open what    *)
(* the other tells of a step, and here they are the runs of two agents.    *)
(***************************************************************************)
EXTENDS AgentRun

CONSTANTS
    MaxMessages, MaxTokens, KeepLast, MaxToolRetries, MaxAnswers, MaxFaults,  \* of the messages
    Threads, Calls, MaxCalls, MaxCrashes,  \* of the conversation
    Runs, Ids, Homes, Flags, MaxBoots,     \* of the registry
    MaxLosses                              \* bound: deaths of processes that have rows

VARIABLES
    messages, stored, injected, chat, dialogue, asked, answer, todo, together, ran, tries,
    executed, spoilt, answers, turns, faults, deaths,
    lines, countFile, count, io, crashes, conversationStatus, threadPc, cancelled, steps, calls,
    since, late,
    server, row, order, at, home, given, made, own, how, tasks, entry, boots, losses

history ==
    <<messages, stored, injected, chat, dialogue, asked, answer, todo, together, ran, tries,
      executed, spoilt, answers, turns, faults, deaths>>

conversation ==
    <<lines, countFile, count, io, crashes, conversationStatus, threadPc, cancelled, steps, calls,
      since, late>>

registry == <<server, row, order, at, home, given, made, own, how, tasks, entry, boots, losses>>

workVars == <<vars, history, conversation, registry>>

EventKinds == {"message", "started", "finished", "interrupt", "resumed", "error"}

Hist ==
    INSTANCE History WITH
        memory <- messages, saved <- stored, pc <- dialogue, request <- asked, left <- todo,
        prompts <- turns, kills <- deaths

Conv ==
    INSTANCE Conversation WITH
        Events <- EventKinds, status <- conversationStatus, pc <- threadPc

Reg == INSTANCE Sessions WITH MaxKills <- MaxLosses, kills <- losses

ASSUME WorkAssumption ==
    /\ Hist!HistoryAssumption
    /\ Conv!LogAssumption /\ Conv!CallsAssumption
    /\ Reg!SessionsAssumption

-----------------------------------------------------------------------------

WorkInit == Init /\ Hist!Init /\ Conv!Init /\ Reg!Init

WorkNext ==
    \/ Next /\ UNCHANGED <<history, conversation, registry>>
    \/ Hist!Next /\ UNCHANGED <<vars, conversation, registry>>
    \/ Conv!Next /\ UNCHANGED <<vars, history, registry>>
    \/ Reg!Next /\ UNCHANGED <<vars, history, conversation>>

WorkSpec == WorkInit /\ [][WorkNext]_workVars

-----------------------------------------------------------------------------

(* What the model is sent is well formed, and the results of tools are in   *)
(* it, whatever trimming, compaction and tools at the same time do to the   *)
(* memory: see History.                                                    *)
RequestIsValid == Hist!RequestIsValid /\ Hist!ResultsAreShown

(* An answer that was just added is the message that act looks at, whatever *)
(* the addition dropped, and the memory is within its limits, but for what  *)
(* a compaction has just left: see History.                                *)
MemoryIsKept == Hist!AnswerIsActedOn /\ Hist!MemoryIsBounded

(* The log is as long as its count, but for deaths, a conversation that was *)
(* stopped begins one more step at most, and the log accounts for its       *)
(* status: see EventLog and Conversation.                                   *)
ConversationIsKept == Conv!LagIsBounded /\ Conv!StopIsHeeded /\ Conv!StatusIsExplained

(* The row of a session tells what has become of its runs, and a cancel     *)
(* finds the run it is meant for: see Sessions.                             *)
RegistryIsExplained == Reg!RowIsExplained /\ Reg!CancelFindsIt
=============================================================================
