--------------------------------- MODULE Shell ---------------------------------
(***************************************************************************)
(* The persistent shell of the bash tool (app/tool/bash.py): calls share    *)
(* one process under a lock, write their command to it and read what it    *)
(* prints up to a line that marks the end.  The mark is the same for all    *)
(* commands.                                                               *)
(***************************************************************************)
EXTENDS Naturals, Sequences, SequencesExt

CONSTANTS
    Calls,      \* the calls of the tool
    Timed,      \* those that have a timeout
    Impatient,  \* those that may be cancelled in the middle of a reset
    MaxShells,  \* bound: the shells that are started
    MaxCancels, \* bound: the cancellations
    None

ShellAssumption ==
    /\ Timed \subseteq Calls /\ Impatient \subseteq Calls
    /\ MaxShells \in Nat \ {0} /\ MaxCancels \in Nat
    /\ None \notin 1..MaxShells

Shells == 1..MaxShells

VARIABLES
    queue,    \* _lock: who has it, and those that wait
    process,  \* _process
    state,    \* of each shell; a shell that is "down" has a return code
    input,    \* the commands that each shell has been given and has not finished
    child,    \* a command that outlives its shell keeps the pipe open
    pipe,     \* what each shell has printed and nobody has read
    at,       \* where each call is
    shell,    \* the shell it reads from
    seen,     \* the commands whose lines and mark it has read
    result,   \* how it ended
    cleanup,  \* where cleanup() is
    cancels

vars ==
    <<queue, process, state, input, child, pipe, at, shell, seen, result, cleanup, cancels>>

pipes == <<input, child, pipe>>

Init ==
    /\ queue = <<>> /\ process = None
    /\ state = [s \in Shells |-> "unborn"]
    /\ input = [s \in Shells |-> <<>>]
    /\ child = [s \in Shells |-> FALSE]
    /\ pipe = [s \in Shells |-> <<>>]
    /\ at = [c \in Calls |-> "idle"]
    /\ shell = [c \in Calls |-> None]
    /\ seen = [c \in Calls |-> {}]
    /\ result = [c \in Calls |-> "none"]
    /\ cleanup = "no" /\ cancels = 0

Goto(c, label) == at' = [at EXCEPT ![c] = label]

-----------------------------------------------------------------------------
(* The shells.  A signal is not obeyed at once, and a trap may ignore it.   *)

Gone == IF process = None THEN TRUE ELSE state[process] = "down"

Works(s) == state[s] \in {"up", "signalled"} \/ child[s]

Line(s) ==
    /\ Works(s) /\ input[s] # <<>>
    /\ pipe[s] = <<>>
    /\ pipe' = [pipe EXCEPT ![s] = <<[of |-> input[s][1], end |-> FALSE]>>]
    /\ UNCHANGED <<queue, process, state, input, child, at, shell, seen, result, cleanup, cancels>>

Mark(s) ==
    /\ state[s] \in {"up", "signalled"} /\ input[s] # <<>>
    /\ pipe' = [pipe EXCEPT ![s] = Append(@, [of |-> input[s][1], end |-> TRUE])]
    /\ input' = [input EXCEPT ![s] = Tail(@)]
    /\ UNCHANGED <<queue, process, state, child, at, shell, seen, result, cleanup, cancels>>

(* It exits, or is killed, and what it has started may live on.            *)
Exit(s) ==
    /\ state[s] \in {"up", "signalled"}
    /\ state' = [state EXCEPT ![s] = "exited"]
    /\ \E b \in {FALSE, input[s] # <<>>} : child' = [child EXCEPT ![s] = b]
    /\ UNCHANGED <<queue, process, input, pipe, at, shell, seen, result, cleanup, cancels>>

ChildEnds(s) ==
    /\ child[s]
    /\ child' = [child EXCEPT ![s] = FALSE]
    /\ UNCHANGED <<queue, process, state, input, pipe, at, shell, seen, result, cleanup, cancels>>

(* The event loop learns of the exit. *)
Reap(s) ==
    /\ state[s] = "exited"
    /\ state' = [state EXCEPT ![s] = "down"]
    /\ UNCHANGED <<queue, process, pipes, at, shell, seen, result, cleanup, cancels>>

-----------------------------------------------------------------------------
(* The calls.                                                              *)

Ask(c) ==
    /\ at[c] = "idle"
    /\ queue' = Append(queue, c)
    /\ Goto(c, "waiting")
    /\ UNCHANGED <<process, state, pipes, shell, seen, result, cleanup, cancels>>

Unborn == {s \in Shells : state[s] = "unborn"}

(* _ensure_process, and the command is written. *)
Begin(c) ==
    /\ at[c] = "waiting" /\ queue[1] = c
    /\ \E s \in Shells :
         /\ IF Gone
            THEN /\ s \in Unborn /\ \A t \in Unborn : s <= t
                 /\ state' = [state EXCEPT ![s] = "up"]
            ELSE s = process /\ UNCHANGED state
         /\ process' = s
         /\ shell' = [shell EXCEPT ![c] = s]
         /\ input' = [input EXCEPT ![s] = Append(@, c)]
    /\ Goto(c, "reading")
    /\ UNCHANGED <<queue, child, pipe, seen, result, cleanup, cancels>>

Leave(c, how) ==
    /\ \E i \in DOMAIN queue : queue[i] = c /\ queue' = RemoveAt(queue, i)
    /\ result' = [result EXCEPT ![c] = how]
    /\ Goto(c, "done")

Read(c) ==
    /\ at[c] = "reading" /\ pipe[shell[c]] # <<>>
    /\ LET item == pipe[shell[c]][1]
       IN  /\ seen' = [seen EXCEPT ![c] = @ \union {item.of}]
           /\ IF item.end THEN Leave(c, "output") ELSE UNCHANGED <<queue, result, at>>
    /\ pipe' = [pipe EXCEPT ![shell[c]] = Tail(@)]
    /\ UNCHANGED <<process, state, input, child, shell, cleanup, cancels>>

(* _reset_process up to its wait, if there is something to wait for.        *)
Signalled == [state EXCEPT ![process] = IF @ = "up" THEN "signalled" ELSE @]

(* Faulty: the process is forgotten, and not stopped. *)
ResetOnly(c, how) ==
    /\ process' = None
    /\ Leave(c, how)
    /\ UNCHANGED state

Reset(c, how) ==
    IF Gone
    THEN /\ process' = None
         /\ Leave(c, how)
         /\ UNCHANGED state
    ELSE /\ state' = Signalled
         /\ result' = [result EXCEPT ![c] = how]
         /\ Goto(c, "resetting")
         /\ UNCHANGED <<process, queue>>

Eof(c) ==
    /\ at[c] = "reading"
    /\ ~Works(shell[c]) /\ pipe[shell[c]] = <<>>
    /\ Reset(c, "died")
    /\ UNCHANGED <<pipes, shell, seen, cleanup, cancels>>

TimeOut(c) ==
    /\ at[c] = "reading" /\ c \in Timed
    /\ Reset(c, "deadline")
    /\ UNCHANGED <<pipes, shell, seen, cleanup, cancels>>

(* The shell has died, or three seconds have passed and it is killed; the   *)
(* transport of whatever is the process by now is closed, which kills too.  *)
Closed == [state EXCEPT ![process] = "down"]

Drop ==
    /\ process' = None
    /\ IF process = None THEN UNCHANGED <<state, pipes>>
       ELSE /\ state' = Closed
            /\ input' = [input EXCEPT ![process] = <<>>]
            /\ child' = [child EXCEPT ![process] = FALSE]
            /\ pipe' = [pipe EXCEPT ![process] = <<>>]

ResetOver(c) ==
    /\ at[c] = "resetting"
    /\ Drop
    /\ Leave(c, result[c])
    /\ UNCHANGED <<shell, seen, cleanup, cancels>>

(* Faulty: a cancelled call leaves the shell as it is. *)
CancelOnly(c) ==
    /\ at[c] \in {"waiting", "reading"}
    /\ cancels < MaxCancels /\ cancels' = cancels + 1
    /\ Leave(c, "cancelled")
    /\ UNCHANGED <<process, state, pipes, shell, seen, cleanup>>

(* A cancellation of the reset ends its wait, and what would follow it.     *)
Cancel(c) ==
    /\ cancels < MaxCancels /\ cancels' = cancels + 1
    /\ \/ at[c] = "waiting" /\ Leave(c, "cancelled") /\ UNCHANGED <<process, state>>
       \/ at[c] = "reading" /\ Reset(c, "cancelled")
       \/ /\ at[c] = "resetting" /\ c \in Impatient
          /\ Leave(c, "cancelled") /\ UNCHANGED <<process, state>>
    /\ UNCHANGED <<pipes, shell, seen, cleanup>>

(* cleanup takes no lock. *)
CleanUp ==
    /\ cleanup = "no"
    /\ IF Gone
       THEN process' = None /\ cleanup' = "over" /\ UNCHANGED state
       ELSE state' = Signalled /\ cleanup' = "waiting" /\ UNCHANGED process
    /\ UNCHANGED <<queue, pipes, at, shell, seen, result, cancels>>

CleanedUp ==
    /\ cleanup = "waiting"
    /\ cleanup' = "over"
    /\ Drop
    /\ UNCHANGED <<queue, at, shell, seen, result, cancels>>

Next ==
    \/ \E s \in Shells : Line(s) \/ Mark(s) \/ Exit(s) \/ ChildEnds(s) \/ Reap(s)
    \/ \E c \in Calls :
         Ask(c) \/ Begin(c) \/ Read(c) \/ Eof(c) \/ TimeOut(c) \/ ResetOver(c) \/ Cancel(c)
    \/ CleanUp \/ CleanedUp

(* Calls go on, timeouts and the waits of three seconds end.  A command     *)
(* need not, nor what it leaves behind.                                    *)
Fairness ==
    /\ \A c \in Calls : WF_vars(Begin(c)) /\ WF_vars(TimeOut(c)) /\ WF_vars(ResetOver(c))
    /\ WF_vars(CleanedUp)

Spec == Init /\ [][Next]_vars /\ Fairness

-----------------------------------------------------------------------------

TypeOK ==
    /\ queue \in Seq(Calls) /\ IsInjective(queue)
    /\ process \in Shells \union {None}
    /\ state \in [Shells -> {"unborn", "up", "signalled", "exited", "down"}]
    /\ input \in [Shells -> Seq(Calls)] /\ child \in [Shells -> BOOLEAN]
    /\ pipe \in [Shells -> Seq([of : Calls, end : BOOLEAN])]
    /\ at \in [Calls -> {"idle", "waiting", "reading", "resetting", "done"}]
    /\ shell \in [Calls -> Shells \union {None}]
    /\ seen \in [Calls -> SUBSET Calls]
    /\ result \in [Calls -> {"none", "output", "died", "deadline", "cancelled"}]
    /\ cleanup \in {"no", "waiting", "over"}
    /\ cancels \in 0..MaxCancels

(* What a call returns as its output was printed by its own command up to   *)
(* its own mark, whatever became of the commands before it: the shell is    *)
(* reset because "its buffered output was then misattributed to the NEXT    *)
(* command".                                                               *)
OwnOutput == \A c \in Calls : result[c] = "output" => seen[c] = {c}

(* A shell that runs is the one the tool knows of, which is killed at the   *)
(* exit of the program; so there is one at most.                            *)
ShellIsKnown == \A s \in Shells : state[s] \in {"up", "signalled"} => process = s

(* A call with a timeout that has begun ends, whatever its command does.    *)
TimedCallsEnd == \A c \in Timed : at[c] = "reading" ~> at[c] = "done"
=============================================================================
