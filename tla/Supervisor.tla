------------------------------- MODULE Supervisor --------------------------------
(***************************************************************************)
(* The PID file that keeps a second supervisor from starting: acquire_guard *)
(* and release_guard of app/supervisor/lifecycle.py, by processes that die   *)
(* at any step.                                                             *)
(*                                                                         *)
(* A system call is an action.  A file is known by the process that has     *)
(* created it; what is written to a file that was removed is gone.          *)
(***************************************************************************)

CONSTANTS
    Procs,   \* processes, with a pid each; a pid is not used again
    AtOnce,  \* whether processes start while another one starts
    None     \* no file

(* What the constants must be. *)
SupervisorAssumption == AtOnce \in BOOLEAN /\ None \notin Procs

VARIABLES
    file,    \* the PID file, by its creator
    written, \* the creators that have written their pid
    at,      \* where each process is
    alive    \* the processes that live

vars == <<file, written, at, alive>>

Init ==
    /\ file = None
    /\ written = {}
    /\ at = [p \in Procs |-> "new"]
    /\ alive = Procs

Starting == {"create", "write", "inspect", "reclaim", "replace", "recreate"}
Holding == {"holds", "release", "remove"}

Move(p, from, to) ==
    /\ p \in alive /\ at[p] = from
    /\ at' = [at EXCEPT ![p] = to]

-----------------------------------------------------------------------------
(* acquire_guard.                                                          *)

Start(p) ==
    /\ Move(p, "new", "create")
    /\ AtOnce \/ \A q \in alive : at[q] \notin Starting
    /\ UNCHANGED <<file, written, alive>>

(* The create with O_EXCL; the second one, after a stale file, is not       *)
(* caught when the file is there.                                           *)
Create(p) ==
    /\ \/ file = None /\ file' = p /\ (Move(p, "create", "write") \/ Move(p, "recreate", "write"))
       \/ file # None /\ UNCHANGED file /\ (Move(p, "create", "inspect") \/ Move(p, "recreate", "refused"))
    /\ UNCHANGED <<written, alive>>

Write(p) ==
    /\ Move(p, "write", "holds")
    /\ written' = written \union {p}
    /\ UNCHANGED <<file, alive>>

Readable == file # None /\ file \in written

(* Faulty: it does not ask whether the holder lives. *)
InspectPidOnly(p) ==
    /\ \/ ~Readable /\ Move(p, "inspect", "reclaim")
       \/ Readable /\ Move(p, "inspect", "refused")
    /\ UNCHANGED <<file, written, alive>>

(* Faulty: any file is taken for a stale one. *)
InspectNothing(p) ==
    /\ \/ ~Readable /\ Move(p, "inspect", "reclaim")
       \/ Readable /\ Move(p, "inspect", "replace")
    /\ UNCHANGED <<file, written, alive>>

(* What the file says, and the probe of that pid. *)
Inspect(p) ==
    /\ \/ ~Readable /\ Move(p, "inspect", "reclaim")
       \/ Readable /\ file \in alive /\ Move(p, "inspect", "refused")
       \/ Readable /\ file \notin alive /\ Move(p, "inspect", "replace")
    /\ UNCHANGED <<file, written, alive>>

(* Faulty: the stale file stays. *)
RemoveNothing(p) ==
    /\ Move(p, "reclaim", "create") \/ Move(p, "replace", "create")
    /\ UNCHANGED <<file, written, alive>>

(* It removes the file that is there by now. *)
Remove(p) ==
    /\ Move(p, "reclaim", "create") \/ Move(p, "replace", "recreate")
    /\ file' = None
    /\ UNCHANGED <<written, alive>>

-----------------------------------------------------------------------------
(* release_guard, and death.                                               *)

Release(p) ==
    /\ \/ Readable /\ file = p /\ Move(p, "holds", "remove")
       \/ ~(Readable /\ file = p) /\ Move(p, "holds", "gone")
    /\ UNCHANGED <<file, written, alive>>

Removed(p) ==
    /\ Move(p, "remove", "gone")
    /\ file' = None
    /\ UNCHANGED <<written, alive>>

Die(p) ==
    /\ p \in alive
    /\ alive' = alive \ {p}
    /\ UNCHANGED <<file, written, at>>

Acquire(p) == Create(p) \/ Write(p) \/ Inspect(p) \/ Remove(p)

Next == \E p \in Procs : Start(p) \/ Acquire(p) \/ Release(p) \/ Removed(p) \/ Die(p)

Spec == Init /\ [][Next]_vars

(* A process that starts and lives gets on. *)
Fairness == \A p \in Procs : WF_vars(Acquire(p))

FairSpec == Spec /\ Fairness

-----------------------------------------------------------------------------

(* A file that was written belongs to a process that has written it. *)
TypeOK ==
    /\ file \in Procs \union {None}
    /\ written \subseteq Procs
    /\ at \in [Procs -> {"new", "refused", "gone"} \union Starting \union Holding]
    /\ alive \subseteq Procs
    /\ \A p \in Procs : at[p] \in Holding => p \in written

Holders == {p \in alive : at[p] \in Holding}

(* There is one live supervisor at most ("refuse when a live supervisor    *)
(* holds it", "atomicity against concurrent starters").                     *)
OneSupervisor == \A p, q \in Holders : p = q

(* The live supervisor's file is there, with its pid, until it removes it. *)
HolderHasTheFile == \A p \in Holders : file = p

(* Whoever is refused was refused for one that lived at the time: a stale  *)
(* file never refuses anyone ("Stale PID files are reclaimed").             *)
RefusedForTheLiving ==
    [][\A p \in Procs : at[p] # "refused" /\ at'[p] = "refused" =>
          \E q \in alive \ {p} : at[q] \in {"write"} \union Holding]_vars

(* Every start that is not cut short ends: as the supervisor, or refused.  *)
EveryStartEnds ==
    \A p \in Procs : at[p] = "create" ~> p \notin alive \/ at[p] \in Holding \union {"refused", "gone"}
=============================================================================
