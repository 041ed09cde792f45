-------------------------------- MODULE EventLog --------------------------------
(***************************************************************************)
(* The file-backed log of app/events/event_log.py (class EventLog): a file *)
(* of lines, a second file with their number, and the number in memory     *)
(* that limits every read.                                                 *)
(*                                                                         *)
(* An append holds _lock while it reads the file, replaces it by a copy    *)
(* with one more line, and writes the number.  The replacement of a file   *)
(* is atomic, but the process may die between the two files.               *)
(***************************************************************************)
EXTENDS Naturals, Sequences

CONSTANTS
    Threads,    \* the threads of the process
    Events,     \* what is logged, by kind
    None,       \* no event
    MaxCrashes  \* bound: how often the process dies

(* What the constants must be. *)
LogAssumption == None \notin Events /\ MaxCrashes \in Nat

VARIABLES
    lines,      \* the lines of the .jsonl file
    countFile,  \* the number in the .count file
    count,      \* _count
    io,         \* for each thread: where its append is, the event, the text it has read
    crashes     \* how often the process has died

logVars == <<lines, countFile, count, io, crashes>>

Out == [at |-> "out", event |-> None, existing |-> <<>>]

LogInit ==
    /\ lines = <<>>
    /\ countFile = 0
    /\ count = 0
    /\ io = [t \in Threads |-> Out]
    /\ crashes = 0

-----------------------------------------------------------------------------
(* Appending an event.                                                     *)

Holding == {t \in Threads : io[t].at \in {"read", "replaced"}}

(* The call: the thread waits for _lock from here on. *)
Append1(t, e) == io' = [io EXCEPT ![t] = [@ EXCEPT !.at = "waiting", !.event = e]]

(* Faulty: an append that does not take _lock. *)
ReadUnlocked(t) ==
    /\ io[t].at = "waiting"
    /\ io' = [io EXCEPT ![t] = [@ EXCEPT !.at = "read", !.existing = lines]]
    /\ UNCHANGED <<lines, countFile, count, crashes>>

Read(t) ==
    /\ io[t].at = "waiting"
    /\ Holding = {}
    /\ io' = [io EXCEPT ![t] = [@ EXCEPT !.at = "read", !.existing = lines]]
    /\ UNCHANGED <<lines, countFile, count, crashes>>

(* os.replace of the file by what was read and the new line. *)
Replace(t) ==
    /\ io[t].at = "read"
    /\ lines' = Append(io[t].existing, io[t].event)
    /\ io' = [io EXCEPT ![t].at = "replaced"]
    /\ UNCHANGED <<countFile, count, crashes>>

Count(t) ==
    /\ io[t].at = "replaced"
    /\ count' = count + 1
    /\ countFile' = count'
    /\ io' = [io EXCEPT ![t] = Out]
    /\ UNCHANGED <<lines, crashes>>

Appending(t) == Read(t) \/ Replace(t) \/ Count(t)

-----------------------------------------------------------------------------
(* Repair, and what remains of the log when the process is gone.           *)

Reindex ==
    /\ Holding = {}
    /\ count' = Len(lines)
    /\ countFile' = Len(lines)
    /\ UNCHANGED <<lines, io, crashes>>

Reopen ==
    /\ crashes < MaxCrashes
    /\ crashes' = crashes + 1
    /\ count' = countFile
    /\ io' = [t \in Threads |-> Out]
    /\ UNCHANGED <<lines, countFile>>

-----------------------------------------------------------------------------

LogTypeOK ==
    /\ lines \in Seq(Events)
    /\ countFile \in Nat /\ count \in Nat
    /\ io \in [Threads -> [at : {"out", "waiting", "read", "replaced"},
                           event : Events \union {None}, existing : Seq(Events)]]
    /\ \A t \in Threads : io[t].at # "out" => io[t].event # None
    /\ crashes \in 0..MaxCrashes

(* The number never claims an event that is not in the file, and it is      *)
(* behind by at most one event for each death of the process, besides the   *)
(* one append that may be in progress: readers miss the newest events, they *)
(* never meet the end of the file ("a crash may leave the count slightly    *)
(* behind").                                                               *)
LagIsBounded ==
    /\ count <= Len(lines)
    /\ Len(lines) <= count + crashes + (IF \E t \in Threads : io[t].at = "replaced" THEN 1 ELSE 0)
=============================================================================
