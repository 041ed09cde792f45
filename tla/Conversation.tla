------------------------------ MODULE Conversation ------------------------------
(***************************************************************************)
(* A local conversation: the life cycle of app/conversation/base.py, the   *)
(* agent loop of local_conversation.py, the statuses of state.py and the   *)
(* cancellation token, called from several threads, on top of EventLog.    *)
(*                                                                         *)
(* Reads of the status and of the token take no lock, so each read and     *)
(* each write is a step of its own.  A token is never reset and every use  *)
(* of it goes through the attribute that run and resume overwrite, so one  *)
(* flag, that of the current token, stands for all of them.                *)
(***************************************************************************)
EXTENDS EventLog

CONSTANTS
    Calls,      \* the operations each thread calls
    MaxCalls,   \* bound: how many calls each thread makes
    MaxSteps    \* steps of one run, max_steps

VARIABLES
    status,     \* ConversationState._status
    cancelled,  \* the current token is cancelled
    pc,         \* where each thread is
    steps,      \* step_count of each thread's loop
    calls,      \* how many calls each thread has made
    since,      \* the length of the log when this process opened it
    late        \* the steps each loop has begun since the token was cancelled

vars == <<logVars, status, cancelled, pc, steps, calls, since, late>>

Operations == {"run", "send", "interrupt", "resume", "close", "reindex"}

Kinds == {"message", "started", "finished", "interrupt", "resumed", "error"}

(* What the constants must be. *)
CallsAssumption ==
    /\ Calls \in [Threads -> SUBSET Operations]
    /\ MaxCalls \in [Threads -> Nat]
    /\ MaxSteps \in Nat
    /\ Events = Kinds

(* _VALID_TRANSITIONS of state.py. *)
Transitions ==
    [IDLE |-> {"RUNNING"},
     RUNNING |-> {"FINISHED", "PAUSED", "ERROR", "IDLE"},
     PAUSED |-> {"RUNNING", "ERROR"},
     FINISHED |-> {},
     ERROR |-> {}]

Statuses == DOMAIN Transitions

Terminal == {"FINISHED", "ERROR"}

Init ==
    /\ LogInit
    /\ status = "IDLE"
    /\ cancelled = FALSE
    /\ pc = [t \in Threads |-> "idle"]
    /\ steps = [t \in Threads |-> 0]
    /\ calls = [t \in Threads |-> 0]
    /\ since = 0
    /\ late = [t \in Threads |-> 0]

-----------------------------------------------------------------------------
(* A thread goes on when its append has returned.                          *)

At(t, label) == pc[t] = label /\ io[t].at = "out"

Goto(t, label) == pc' = [pc EXCEPT ![t] = label]

Jump(t, label) == Goto(t, label) /\ UNCHANGED logVars

Log(t, e, label) ==
    /\ Goto(t, label)
    /\ Append1(t, e)
    /\ UNCHANGED <<lines, countFile, count, crashes>>

(* set_status: the transition is in the table, or changes nothing. *)
Allowed(new) == new \in Transitions[status] \/ new = status

(* A call of a thread, with the check of the status it begins with. *)
Call(t) ==
    /\ At(t, "idle")
    /\ calls[t] < MaxCalls[t]
    /\ calls' = [calls EXCEPT ![t] = @ + 1]
    /\ \/ "run" \in Calls[t] /\ Jump(t, "run")
       \/ "send" \in Calls[t] /\ status \notin Terminal /\ Log(t, "message", "send")
       \/ "interrupt" \in Calls[t] /\ Jump(t, "interrupt")
       \/ "resume" \in Calls[t] /\ status = "PAUSED" /\ Jump(t, "retoken")
       \/ "close" \in Calls[t] /\ ~cancelled /\ Jump(t, "close")
       \/ "reindex" \in Calls[t] /\ Reindex /\ UNCHANGED pc
    /\ UNCHANGED <<status, cancelled, steps, since, late>>

-----------------------------------------------------------------------------
(* run and resume: a new token, then the status, in two steps.             *)

(* send_message runs the agent when the conversation is idle, and run looks *)
(* once more.                                                               *)
Sent(t) ==
    /\ At(t, "send")
    /\ Jump(t, IF status = "IDLE" THEN "run" ELSE "idle")
    /\ UNCHANGED <<status, cancelled, steps, calls, since, late>>

Run(t) ==
    /\ At(t, "run")
    /\ Jump(t, IF status = "IDLE" THEN "token" ELSE "idle")
    /\ UNCHANGED <<status, cancelled, steps, calls, since, late>>

NewToken(t) ==
    /\ \/ At(t, "token") /\ Jump(t, "open")
       \/ At(t, "retoken") /\ Jump(t, "reopen")
    /\ cancelled' = FALSE
    /\ late' = [u \in Threads |-> 0]
    /\ UNCHANGED <<status, steps, calls, since>>

(* A status that another thread has made final raises a ValueError. *)
Open(t) ==
    /\ At(t, "open") \/ At(t, "reopen")
    /\ IF Allowed("RUNNING")
       THEN /\ status' = "RUNNING"
            /\ IF pc[t] = "open" THEN Log(t, "message", "announce") ELSE Log(t, "resumed", "idle")
       ELSE UNCHANGED status /\ Jump(t, "idle")
    /\ UNCHANGED <<cancelled, steps, calls, since, late>>

Announce(t) ==
    /\ At(t, "announce")
    /\ steps' = [steps EXCEPT ![t] = 0]
    /\ Log(t, "started", "look")
    /\ UNCHANGED <<status, cancelled, calls, since, late>>

-----------------------------------------------------------------------------
(* The loop of _run_agent_async.                                           *)

Look(t) ==
    /\ At(t, "look")
    /\ Jump(t, IF status = "RUNNING" /\ steps[t] < MaxSteps THEN "check" ELSE "after")
    /\ UNCHANGED <<status, cancelled, steps, calls, since, late>>

(* Faulty: a loop that relies on the status alone. *)
CheckNothing(t) ==
    /\ At(t, "check")
    /\ Jump(t, "step")
    /\ UNCHANGED <<status, cancelled, steps, calls, since, late>>

(* Faulty: a cancelled loop that ends without a trace. *)
CheckSilently(t) ==
    /\ At(t, "check")
    /\ Jump(t, IF cancelled THEN "unwind" ELSE "step")
    /\ UNCHANGED <<status, cancelled, steps, calls, since, late>>

(* raise_if_cancelled, with the event for what it raises. *)
Check(t) ==
    /\ At(t, "check")
    /\ IF cancelled THEN Log(t, "interrupt", "unwind") ELSE Jump(t, "step")
    /\ UNCHANGED <<status, cancelled, steps, calls, since, late>>

Begin(t) ==
    /\ At(t, "step")
    /\ steps' = [steps EXCEPT ![t] = @ + 1]
    /\ late' = [late EXCEPT ![t] = IF cancelled THEN @ + 1 ELSE @]
    /\ Jump(t, "stepping")
    /\ UNCHANGED <<status, cancelled, calls, since>>

(* agent.step() returns, or raises. *)
End(t) ==
    /\ At(t, "stepping")
    /\ Jump(t, "look") \/ Log(t, "error", "failed")
    /\ UNCHANGED <<status, cancelled, steps, calls, since, late>>

After(t) ==
    /\ At(t, "after")
    /\ IF status = "RUNNING" THEN Log(t, "finished", "leave") ELSE Jump(t, "leave")
    /\ UNCHANGED <<status, cancelled, steps, calls, since, late>>

-----------------------------------------------------------------------------
(* The end of run, for a loop that returned, was cancelled, or raised.     *)

Leave(t) ==
    /\ At(t, "leave")
    /\ Jump(t, IF status = "RUNNING" THEN "settle" ELSE "idle")
    /\ UNCHANGED <<status, cancelled, steps, calls, since, late>>

(* An interrupt since the check makes FINISHED impossible: the ValueError  *)
(* is handled as an error of the run.                                      *)
Settle(t) ==
    /\ At(t, "settle")
    /\ IF Allowed("FINISHED") THEN status' = "FINISHED" /\ Jump(t, "idle")
       ELSE UNCHANGED status /\ Jump(t, "failed")
    /\ UNCHANGED <<cancelled, steps, calls, since, late>>

Unwind(t) ==
    /\ At(t, "unwind")
    /\ Jump(t, IF status = "RUNNING" THEN "abandon" ELSE "idle")
    /\ UNCHANGED <<status, cancelled, steps, calls, since, late>>

(* Here the ValueError leaves run. *)
Abandon(t) ==
    /\ At(t, "abandon")
    /\ status' = IF Allowed("FINISHED") THEN "FINISHED" ELSE status
    /\ Jump(t, "idle")
    /\ UNCHANGED <<cancelled, steps, calls, since, late>>

(* is_running or is_paused: two reads. *)
Failed(t) ==
    /\ \/ At(t, "failed") /\ Jump(t, IF status = "RUNNING" THEN "error" ELSE "failed2")
       \/ At(t, "failed2") /\ Jump(t, IF status = "PAUSED" THEN "error" ELSE "idle")
    /\ UNCHANGED <<status, cancelled, steps, calls, since, late>>

Error(t) ==
    /\ At(t, "error")
    /\ status' = IF Allowed("ERROR") THEN "ERROR" ELSE status
    /\ Jump(t, "idle")
    /\ UNCHANGED <<cancelled, steps, calls, since, late>>

-----------------------------------------------------------------------------
(* interrupt and close.                                                    *)

(* close cancels the token that is current now, if the one it looked at    *)
(* was not cancelled.                                                      *)
Cancel(t) ==
    /\ \/ At(t, "interrupt") /\ Jump(t, "judge")
       \/ At(t, "close") /\ Jump(t, "idle")
    /\ cancelled' = TRUE
    /\ UNCHANGED <<status, steps, calls, since, late>>

Judge(t) ==
    /\ At(t, "judge")
    /\ IF status = "RUNNING" THEN Jump(t, "pause") ELSE Log(t, "interrupt", "idle")
    /\ UNCHANGED <<status, cancelled, steps, calls, since, late>>

Pause(t) ==
    /\ At(t, "pause")
    /\ status' = IF Allowed("PAUSED") THEN "PAUSED" ELSE status
    /\ Log(t, "interrupt", "idle")
    /\ UNCHANGED <<cancelled, steps, calls, since, late>>

-----------------------------------------------------------------------------

(* The process dies; the next one opens the conversation of the same id:   *)
(* a fresh status and token on the log as the files have it.               *)
Crash ==
    /\ Reopen
    /\ status' = "IDLE"
    /\ cancelled' = FALSE
    /\ pc' = [t \in Threads |-> "idle"]
    /\ steps' = [t \in Threads |-> 0]
    /\ since' = Len(lines)
    /\ late' = [t \in Threads |-> 0]
    /\ UNCHANGED calls

(* What a thread does once it is in a call. *)
Work(t) ==
    \/ Appending(t) /\ UNCHANGED <<status, cancelled, pc, steps, calls, since, late>>
    \/ Sent(t) \/ Run(t) \/ NewToken(t) \/ Open(t) \/ Announce(t)
    \/ Look(t) \/ Check(t) \/ Begin(t) \/ End(t) \/ After(t)
    \/ Leave(t) \/ Settle(t) \/ Unwind(t) \/ Abandon(t) \/ Failed(t) \/ Error(t)
    \/ Cancel(t) \/ Judge(t) \/ Pause(t)

Next ==
    \/ \E t \in Threads : Call(t) \/ Work(t)
    \/ Crash

Spec == Init /\ [][Next]_vars

-----------------------------------------------------------------------------

Labels ==
    {"idle", "send", "run", "token", "open", "announce", "look", "check", "step",
     "stepping", "after", "leave", "settle", "unwind", "abandon", "failed", "failed2",
     "error", "interrupt", "judge", "pause", "retoken", "reopen", "close"}

TypeOK ==
    /\ LogTypeOK
    /\ status \in Statuses
    /\ cancelled \in BOOLEAN
    /\ pc \in [Threads -> Labels]
    /\ steps \in [Threads -> 0..MaxSteps]
    /\ calls \in [Threads -> Nat]
    /\ \A t \in Threads : calls[t] <= MaxCalls[t]
    /\ since \in 0..Len(lines)
    /\ late \in [Threads -> Nat]

(* After an interrupt or a close, and until somebody runs or resumes the   *)
(* conversation, a loop begins at most the one step whose check was before *)
(* the cancellation (interrupt: "the agent loop should check the           *)
(* cancellation token periodically and exit cleanly when cancelled").      *)
StopIsHeeded == \A t \in Threads : late[t] <= 1

(* When no call is in progress, the log of this process accounts for the   *)
(* status: a conversation that ended has logged an end or a stop, one that *)
(* is in error an error or the interrupt that met its end, and one that is *)
(* running with nobody to run it has been resumed.                         *)
Accounts ==
    [RUNNING |-> {"resumed"}, PAUSED |-> {"interrupt"},
     FINISHED |-> {"finished", "interrupt"}, ERROR |-> {"error", "interrupt"}]

StatusIsExplained ==
    (\A t \in Threads : At(t, "idle")) =>
        LET logged == {lines[i] : i \in since + 1..Len(lines)}
        IN  IF status = "IDLE" THEN "started" \notin logged
            ELSE logged \intersect Accounts[status] # {}
=============================================================================
