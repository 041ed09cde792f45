----------------------------- MODULE AsyncFIFOLock -----------------------------
(***************************************************************************)
(* The asyncio lock of app/conversation/fifo_lock.py (class AsyncFIFOLock).*)
(*                                                                         *)
(* Everything between two awaits is one step of the event loop and one     *)
(* action here.  A task waits in at most one acquire and each wait creates *)
(* a fresh Future, so the Future is identified with the task.  What the    *)
(* event loop does with a cancellation is that of asyncio: cancelling a    *)
(* task cancels the Future it awaits, unless that is already done; then    *)
(* the task is marked (_must_cancel) and the CancelledError is thrown when *)
(* it next runs, in place of the Future's result.                          *)
(***************************************************************************)
EXTENDS Naturals, Sequences, SequencesExt

CONSTANTS
    Tasks,          \* the asyncio tasks that use the lock
    Cancellable     \* those that somebody may cancel while they wait

\* Owners that are no tasks: of a free lock, of a lock that is lost.
Nobody == "nobody"
Vanished == "vanished"

ASSUME TasksAssumption ==
    /\ Cancellable \subseteq Tasks
    /\ Nobody \notin Tasks /\ Vanished \notin Tasks

VARIABLES
    held,           \* _held
    waiters,        \* _waiters: the deque of futures, oldest first
    fut,            \* the state of the Future each task awaits
    mustCancel,     \* asyncio: the tasks with _must_cancel set
    pc              \* where each task is

vars == <<held, waiters, fut, mustCancel, pc>>

Places == {"out", "waiting", "inside"}

FutureStates == {"none", "pending", "granted", "cancelled"}

Init ==
    /\ held = FALSE
    /\ waiters = <<>>
    /\ fut = [t \in Tasks |-> "none"]
    /\ mustCancel = {}
    /\ pc = [t \in Tasks |-> "out"]

-----------------------------------------------------------------------------
(* acquire *)

AcquireFast(t) ==
    /\ pc[t] = "out"
    /\ ~held
    /\ held' = TRUE
    /\ pc' = [pc EXCEPT ![t] = "inside"]
    /\ UNCHANGED <<waiters, fut, mustCancel>>

\* Faulty variant: the newest waiter is queued first.
EnqueueFirst(t) ==
    /\ pc[t] = "out"
    /\ held
    /\ waiters' = <<t>> \o waiters
    /\ fut' = [fut EXCEPT ![t] = "pending"]
    /\ pc' = [pc EXCEPT ![t] = "waiting"]
    /\ UNCHANGED <<held, mustCancel>>

Enqueue(t) ==
    /\ pc[t] = "out"
    /\ held
    /\ waiters' = Append(waiters, t)
    /\ fut' = [fut EXCEPT ![t] = "pending"]
    /\ pc' = [pc EXCEPT ![t] = "waiting"]
    /\ UNCHANGED <<held, mustCancel>>

\* `await future` returns: the task has been given the lock.
Resume(t) ==
    /\ pc[t] = "waiting"
    /\ fut[t] = "granted"
    /\ t \notin mustCancel
    /\ fut' = [fut EXCEPT ![t] = "none"]
    /\ pc' = [pc EXCEPT ![t] = "inside"]
    /\ UNCHANGED <<held, waiters, mustCancel>>

\* `await future` raises CancelledError: leave the deque, if still there.
ResumeCancelled(t) ==
    /\ pc[t] = "waiting"
    /\ fut[t] = "cancelled" \/ t \in mustCancel
    /\ \/ \E i \in DOMAIN waiters :
             waiters[i] = t /\ waiters' = RemoveAt(waiters, i)
       \/ (~Contains(waiters, t) /\ UNCHANGED waiters)
    /\ fut' = [fut EXCEPT ![t] = "none"]
    /\ mustCancel' = mustCancel \ {t}
    /\ pc' = [pc EXCEPT ![t] = "out"]
    /\ UNCHANGED held

-----------------------------------------------------------------------------
(* release *)

\* The positions of the futures that are not done.
Live == {i \in DOMAIN waiters : fut[waiters[i]] = "pending"}

\* Faulty variant: only one future is popped, done or not.
ReleaseOnePop(t) ==
    /\ pc[t] = "inside"
    /\ held
    /\ held' = (1 \in Live)
    /\ IF 1 \in Live
       THEN fut' = [fut EXCEPT ![waiters[1]] = "granted"]
       ELSE UNCHANGED fut
    /\ waiters' = IF waiters = <<>> THEN <<>> ELSE Tail(waiters)
    /\ pc' = [pc EXCEPT ![t] = "out"]
    /\ UNCHANGED mustCancel

\* Faulty variant: the lock is marked free while the next waiter wakes up.
ReleaseFree(t) ==
    /\ pc[t] = "inside"
    /\ held
    /\ held' = FALSE
    /\ \/ Live = {} /\ waiters' = <<>> /\ UNCHANGED fut
       \/ \E i \in Live :
             /\ \A j \in Live : i <= j
             /\ waiters' = SubSeq(waiters, i + 1, Len(waiters))
             /\ fut' = [fut EXCEPT ![waiters[i]] = "granted"]
    /\ pc' = [pc EXCEPT ![t] = "out"]
    /\ UNCHANGED mustCancel

\* Futures are popped up to the first that is not done; that one gets the
\* lock, which then never becomes free in between.
Release(t) ==
    /\ pc[t] = "inside"
    /\ held
    /\ \/ Live = {} /\ held' = FALSE /\ waiters' = <<>> /\ UNCHANGED fut
       \/ \E i \in Live :
             /\ \A j \in Live : i <= j
             /\ waiters' = SubSeq(waiters, i + 1, Len(waiters))
             /\ fut' = [fut EXCEPT ![waiters[i]] = "granted"]
             /\ UNCHANGED held
    /\ pc' = [pc EXCEPT ![t] = "out"]
    /\ UNCHANGED mustCancel

-----------------------------------------------------------------------------
(* Somebody cancels a waiting task. *)
Cancel(t) ==
    /\ t \in Cancellable
    /\ pc[t] = "waiting"
    /\ \/ /\ fut[t] = "pending"
          /\ fut' = [fut EXCEPT ![t] = "cancelled"]
          /\ UNCHANGED mustCancel
       \/ /\ fut[t] = "granted"
          /\ mustCancel' = mustCancel \union {t}
          /\ UNCHANGED fut
    /\ UNCHANGED <<held, waiters, pc>>

Next ==
    \E t \in Tasks :
        \/ AcquireFast(t) \/ Enqueue(t)
        \/ Resume(t) \/ ResumeCancelled(t)
        \/ Release(t)
        \/ Cancel(t)

(***************************************************************************)
(* The event loop runs every task whose Future is done, and the body of an *)
(* `async with` ends.                                                      *)
(***************************************************************************)
Fairness ==
    \A t \in Tasks :
        WF_vars(Resume(t)) /\ WF_vars(ResumeCancelled(t)) /\ WF_vars(Release(t))

Spec == Init /\ [][Next]_vars

FairSpec == Spec /\ Fairness

-----------------------------------------------------------------------------
(* The tasks that own the lock, whether or not they know it yet. *)
Holds(t) == pc[t] = "inside" \/ fut[t] = "granted"

(***************************************************************************)
(* Types, and the agreement of the deque with the futures: no future is    *)
(* queued twice, the pending ones are all queued, a granted one no longer  *)
(* is, and nothing is queued on behalf of a task that does not wait.       *)
(***************************************************************************)
QueueSound ==
    /\ IsInjective(waiters)
    /\ \A t \in Tasks :
          /\ Contains(waiters, t) => fut[t] \in {"pending", "cancelled"}
          /\ fut[t] = "pending" => Contains(waiters, t)
          /\ fut[t] # "none" <=> pc[t] = "waiting"

TypeOK ==
    /\ held \in BOOLEAN
    /\ waiters \in Seq(Tasks)
    /\ fut \in [Tasks -> FutureStates]
    /\ mustCancel \subseteq Tasks
    /\ pc \in [Tasks -> Places]
    /\ QueueSound

(***************************************************************************)
(* At most one task owns the lock, and only while it is marked held: in    *)
(* particular release never raises "Cannot release unheld", and nobody can *)
(* take the fast path while a woken waiter has not run yet.                *)
(***************************************************************************)
OneHolder ==
    \A t, u \in Tasks : Holds(t) => held /\ (Holds(u) => t = u)

(***************************************************************************)
(* A free lock has no queue: otherwise a newcomer would overtake it, and   *)
(* nobody would be left to grant it.                                       *)
(***************************************************************************)
FreeHasNoQueue == ~held => waiters = <<>>

(* Who owns the lock and is going to release it. *)
Owners == {t \in Tasks : Holds(t) /\ t \notin mustCancel}

Owner ==
    IF ~held THEN Nobody
    ELSE IF Owners = {} THEN Vanished
    ELSE CHOOSE t \in Owners : TRUE

(* The tasks whose futures are still wanted, and who came before them.      *)
Waiting == {t \in Tasks : fut[t] = "pending"}

QueuedBefore(t, u) ==
    \E i, j \in DOMAIN waiters : i < j /\ waiters[i] = t /\ waiters[j] = u

Ahead == [t \in Tasks |-> {u \in Waiting : t \in Waiting /\ QueuedBefore(u, t)}]

(***************************************************************************)
(* The lock is fair: it implements FairLock, in which ownership goes from  *)
(* one client straight to the one that has waited longest.                 *)
(***************************************************************************)
Fair == INSTANCE FairLock
            WITH Clients <- Tasks,
                 owner <- Owner,
                 waiting <- Waiting,
                 ahead <- Ahead

IsFair == Fair!Spec

(***************************************************************************)
(* A task that nobody cancels gets the lock, in spite of the waiters that  *)
(* are cancelled around it - as long as no cancellation meets a task that  *)
(* has been granted the lock and has not run since (_must_cancel): acquire *)
(* then drops the grant, nobody releases the lock, and everyone waits.     *)
(***************************************************************************)
NoGrantCancelled == mustCancel = {}

Served ==
    []NoGrantCancelled =>
        \A t \in Tasks \ Cancellable : pc[t] = "waiting" ~> pc[t] = "inside"
=============================================================================
