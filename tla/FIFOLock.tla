------------------------------- MODULE FIFOLock -------------------------------
(***************************************************************************)
(* The threading-based lock of app/conversation/fifo_lock.py (class        *)
(* FIFOLock), which guards every mutation of ConversationState.            *)
(*                                                                         *)
(* Every block `with self._lock` of the source is one action; what runs    *)
(* outside it (event.wait, the return to the caller) is an action of its   *)
(* own, so that other threads interleave there.  A thread's threading      *)
(* Event is identified with the thread: a thread is blocked in at most one *)
(* acquire, and every slow acquire creates a fresh Event.                  *)
(***************************************************************************)
EXTENDS Naturals, Sequences, SequencesExt

CONSTANTS
    Threads,    \* the threads that call acquire and release
    Timed,      \* those that call acquire(timeout=...); the rest wait forever
    NoOwner     \* the value None of _owner

ASSUME LockAssumption ==
    /\ Timed \subseteq Threads
    /\ NoOwner \notin Threads

VARIABLES
    held,       \* _held
    owner,      \* _owner
    waiters,    \* _waiters: the deque of events, oldest first
    signalled,  \* the events that have been set
    pc          \* where each thread is in acquire / release

vars == <<held, owner, waiters, signalled, pc>>

(***************************************************************************)
(* "out"      outside the lock                                             *)
(* "waiting"  blocked in event.wait                                        *)
(* "expired"  event.wait has returned False, the queue not yet looked at   *)
(* "granted"  event.wait has returned True (or the expired waiter found    *)
(*            itself dequeued), ownership not yet recorded                 *)
(* "inside"   acquire has returned True                                    *)
(***************************************************************************)
Places == {"out", "waiting", "expired", "granted", "inside"}

Goto(t, place) == pc' = [pc EXCEPT ![t] = place]

Init ==
    /\ held = FALSE
    /\ owner = NoOwner
    /\ waiters = <<>>
    /\ signalled = {}
    /\ pc = [t \in Threads |-> "out"]

-----------------------------------------------------------------------------
(* acquire *)

\* The lock is free: take it, whoever is queued or about to take it.
AcquireFast(t) ==
    /\ pc[t] = "out"
    /\ ~held
    /\ held' = TRUE
    /\ owner' = t
    /\ Goto(t, "inside")
    /\ UNCHANGED <<waiters, signalled>>

\* Faulty variant: the newest waiter is queued first.
EnqueueFirst(t) ==
    /\ pc[t] = "out"
    /\ held
    /\ waiters' = <<t>> \o waiters
    /\ signalled' = signalled \ {t}
    /\ Goto(t, "waiting")
    /\ UNCHANGED <<held, owner>>

\* The lock is held: queue a fresh event.
Enqueue(t) ==
    /\ pc[t] = "out"
    /\ held
    /\ waiters' = Append(waiters, t)
    /\ signalled' = signalled \ {t}
    /\ Goto(t, "waiting")
    /\ UNCHANGED <<held, owner>>

\* event.wait returns True.
Wake(t) ==
    /\ pc[t] = "waiting"
    /\ t \in signalled
    /\ Goto(t, "granted")
    /\ UNCHANGED <<held, owner, waiters, signalled>>

\* event.wait returns False; the queue is only looked at in the next step.
Expire(t) ==
    /\ t \in Timed
    /\ pc[t] = "waiting"
    /\ t \notin signalled
    /\ Goto(t, "expired")
    /\ UNCHANGED <<held, owner, waiters, signalled>>

\* Leave the queue and give up, or find that release got there first.
\* Faulty variant: a dequeued waiter gives up like any other.
WithdrawAlways(t) ==
    /\ pc[t] = "expired"
    /\ \/ \E i \in DOMAIN waiters :
             waiters[i] = t /\ waiters' = RemoveAt(waiters, i)
       \/ (~Contains(waiters, t) /\ UNCHANGED waiters)
    /\ Goto(t, "out")
    /\ UNCHANGED <<held, owner, signalled>>

Withdraw(t) ==
    /\ pc[t] = "expired"
    /\ \/ /\ \E i \in DOMAIN waiters :
                waiters[i] = t /\ waiters' = RemoveAt(waiters, i)
          /\ Goto(t, "out")
       \/ /\ ~Contains(waiters, t)
          /\ Goto(t, "granted")
          /\ UNCHANGED waiters
    /\ UNCHANGED <<held, owner, signalled>>

\* The woken waiter records its ownership.
Take(t) ==
    /\ pc[t] = "granted"
    /\ held' = TRUE
    /\ owner' = t
    /\ Goto(t, "inside")
    /\ UNCHANGED <<waiters, signalled>>

-----------------------------------------------------------------------------
(* release *)

\* Faulty variant: the oldest waiter is dequeued and never signalled.
ReleaseHeldSilently(t) ==
    /\ pc[t] = "inside"
    /\ held
    /\ held' = FALSE
    /\ owner' = NoOwner
    /\ waiters' = IF waiters = <<>> THEN waiters ELSE Tail(waiters)
    /\ Goto(t, "out")
    /\ UNCHANGED signalled

\* Free the lock and signal the oldest waiter.
ReleaseHeld(t) ==
    /\ pc[t] = "inside"
    /\ held
    /\ held' = FALSE
    /\ owner' = NoOwner
    /\ IF waiters = <<>>
       THEN UNCHANGED <<waiters, signalled>>
       ELSE /\ waiters' = Tail(waiters)
            /\ signalled' = signalled \union {Head(waiters)}
    /\ Goto(t, "out")

\* "Cannot release unheld FIFOLock": release raises, nothing changes.
ReleaseUnheld(t) ==
    /\ pc[t] = "inside"
    /\ ~held
    /\ Goto(t, "out")
    /\ UNCHANGED <<held, owner, waiters, signalled>>

-----------------------------------------------------------------------------
Next ==
    \E t \in Threads :
        \/ AcquireFast(t) \/ Enqueue(t)
        \/ Wake(t) \/ Expire(t) \/ Withdraw(t) \/ Take(t)
        \/ ReleaseHeld(t) \/ ReleaseUnheld(t)

(***************************************************************************)
(* A thread that is runnable runs, a woken waiter runs, and a critical     *)
(* section ends (`with self._lock` bodies are finite).  Nobody is obliged  *)
(* to call acquire, and a timeout is obliged to nothing.                   *)
(***************************************************************************)
Fairness ==
    \A t \in Threads :
        /\ WF_vars(Wake(t))
        /\ WF_vars(Withdraw(t))
        /\ WF_vars(Take(t))
        /\ WF_vars(ReleaseHeld(t) \/ ReleaseUnheld(t))

Spec == Init /\ [][Next]_vars

FairSpec == Spec /\ Fairness

-----------------------------------------------------------------------------
(* Types of the variables; _owner is None exactly while _held is False. *)
TypeOK ==
    /\ held \in BOOLEAN
    /\ owner \in IF held THEN Threads ELSE {NoOwner}
    /\ waiters \in Seq(Threads)
    /\ signalled \subseteq Threads
    /\ pc \in [Threads -> Places]

(***************************************************************************)
(* The lock is never stranded: while anyone is queued, either the recorded *)
(* owner is inside and will pop the queue when leaving, or a waiter that   *)
(* release already dequeued is on its way in.  A timeout racing the signal *)
(* (Expire, ReleaseHeld, Withdraw) must not break the chain: the expired   *)
(* waiter that finds itself dequeued has to take the lock.                 *)
(***************************************************************************)
OnItsWay(t) ==
    \/ pc[t] = "granted"
    \/ pc[t] \in {"waiting", "expired"} /\ t \in signalled

OwnerInside == held => pc[owner] = "inside"

NoStrandedWaiter ==
    waiters # <<>> =>
        (held /\ OwnerInside) \/ \E t \in Threads : OnItsWay(t)

(***************************************************************************)
(* The deque and the events agree: whoever is queued is blocked (or has    *)
(* just timed out) with an event nobody has set, and is queued once; and   *)
(* a blocked thread that has left the deque has been signalled.            *)
(***************************************************************************)
QueueSound ==
    /\ IsInjective(waiters)
    /\ \A t \in Threads :
          /\ Contains(waiters, t) =>
                pc[t] \in {"waiting", "expired"} /\ t \notin signalled
          /\ pc[t] \in {"waiting", "expired"} =>
                t \in signalled \/ Contains(waiters, t)

(***************************************************************************)
(* A waiter without a timeout gets in, in spite of the threads that barge  *)
(* past it through the fast path and of those that time out.               *)
(***************************************************************************)
StarvationFree ==
    \A t \in Threads \ Timed : pc[t] = "waiting" ~> pc[t] = "inside"

(***************************************************************************)
(* What the class promises: "a fair lock", i.e. at most one thread has     *)
(* been granted it.  release clears _held before the signalled waiter has  *)
(* run, so a third thread takes the fast path in between.                  *)
(***************************************************************************)
MutualExclusion ==
    \A t, u \in Threads : pc[t] = "inside" /\ pc[u] = "inside" => t = u
=============================================================================
