-------------------------------- MODULE Backlog --------------------------------
(***************************************************************************)
(* What app/task_queue.py promises of the tasks that nobody cancels:       *)
(* "survives terminal close, restart, and disconnection".  A task that     *)
(* waits is taken, one at a time; it is over when an execution of it has   *)
(* come to an end and that is written down, and not before.  What was      *)
(* begun and not written down is begun again, as often as the process      *)
(* ends, until it is given up.  Of a task that is cancelled nothing more   *)
(* is promised.                                                            *)
(***************************************************************************)
EXTENDS Naturals

CONSTANTS
    Tasks,
    MaxInterrupts \* interruptions after which a task is given up

VARIABLES
    job,        \* where each task is
    interrupts  \* how often each was interrupted by an end of the process

vars == <<job, interrupts>>

UnderWay == {"working", "succeeded", "broken"}

Over == {"completed", "failed"}

Init ==
    /\ job \in [Tasks -> {"gone", "waiting"}]
    /\ interrupts = [t \in Tasks |-> 0]

Moves(t, from, to) == job[t] = from /\ job' = [job EXCEPT ![t] = to]

(* A new task, or a retry that meets a task which has been removed since. *)
Submit(t) ==
    /\ Moves(t, "gone", "waiting")
    /\ interrupts' \in [Tasks -> Nat]
    /\ \A u \in Tasks \ {t} : interrupts'[u] = interrupts[u]

Retry(t) == Moves(t, "failed", "waiting") /\ UNCHANGED interrupts

Take(t) ==
    /\ \A u \in Tasks : job[u] \notin UnderWay
    /\ Moves(t, "waiting", "working")
    /\ UNCHANGED interrupts

(* The execution ends, well or not. *)
End(t) ==
    /\ Moves(t, "working", "succeeded") \/ Moves(t, "working", "broken")
    /\ UNCHANGED interrupts

(* Its end is written down. *)
Settle(t) ==
    /\ Moves(t, "succeeded", "completed") \/ Moves(t, "broken", "failed")
    /\ UNCHANGED interrupts

(* The execution, or what is known of its end, is lost. *)
Interrupt(t) ==
    /\ job[t] \in UnderWay
    /\ job' = [job EXCEPT ![t] = "interrupted"]
    /\ UNCHANGED interrupts

Counted(t) == interrupts' = [interrupts EXCEPT ![t] = @ + 1]

(* A stop in order does not count. *)
Requeue(t) ==
    /\ Moves(t, "interrupted", "waiting")
    /\ UNCHANGED interrupts \/ (interrupts[t] < MaxInterrupts /\ Counted(t))

Park(t) ==
    /\ Moves(t, "interrupted", "failed")
    /\ interrupts[t] >= MaxInterrupts
    /\ Counted(t)

Cancel(t) ==
    /\ job' = [job EXCEPT ![t] = "cancelled"]
    /\ interrupts' = [interrupts EXCEPT ![t] = 0]

Remove ==
    \E old \in SUBSET {t \in Tasks : job[t] \in Over} :
        /\ job' = [t \in Tasks |-> IF t \in old THEN "gone" ELSE job[t]]
        /\ interrupts' = [t \in Tasks |-> IF t \in old THEN 0 ELSE interrupts[t]]

Next ==
    \/ \E t \in Tasks :
         \/ Submit(t) \/ Retry(t)
         \/ Take(t) \/ End(t) \/ Settle(t)
         \/ Interrupt(t) \/ Requeue(t) \/ Park(t) \/ Cancel(t)
    \/ Remove

Spec == Init /\ [][Next]_vars
=============================================================================
