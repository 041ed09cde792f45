------------------------------ MODULE ToolExecutor ------------------------------
(***************************************************************************)
(* One batch of ParallelToolExecutor.execute                               *)
(* (app/parallel_executor/executor.py): every call is a task of a thread   *)
(* pool, acquires the locks it declares in key order, runs and releases.   *)
(*                                                                         *)
(* A call without a timeout does all of that on its pool thread, inside    *)
(* the context manager acquire_resources.  A call with a timeout runs on a *)
(* daemon thread of its own while the pool thread waits in join; when join *)
(* times out the pool thread releases the declared locks by force and the  *)
(* daemon thread runs on.  The thread that acquires locks for a call is    *)
(* identified with the call.                                               *)
(***************************************************************************)
EXTENDS ResourceLocks

CONSTANTS
    Decl,           \* the set of declarations of each call
    Batch,          \* the calls in the order in which they are submitted
    Timed,          \* the calls with a timeout
    MaxWorkers,     \* max_workers of the pool
    MaxAttempts,    \* _retry_count of the lock manager
    Impatient       \* the calls whose wait for a lock can run into its timeout

ASSUME ExecutorAssumption ==
    /\ IsFiniteSet(Users)
    /\ Decl \in [Users -> SUBSET Declarations]
    /\ \A c \in Users : IsFiniteSet(Decl[c])
    /\ Batch \in Seq(Users) /\ IsInjective(Batch)
    /\ Timed \subseteq Users
    /\ MaxWorkers \in Nat \ {0}
    /\ MaxAttempts \in Nat \ {0}
    /\ Impatient \subseteq Users

VARIABLES
    queue,      \* the pool's queue of calls no thread has picked up
    pc,         \* where the thread that acquires the call's locks is
    got,        \* how many locks of its plan it has in `acquired`
    attempt,    \* the loop variable of _acquire_all, from 1
    outcome,    \* how the call is going to end, or "retry"
    forced,     \* 0, or the declaration the pool thread releases by force
    result      \* the status in the ToolResult, or "none" yet

callVars == <<pc, got, attempt, outcome>>
vars == <<lockVars, queue, callVars, forced, result>>

Places == {"queued", "acquiring", "waiting", "running", "releasing", "ended"}
Outcomes == {"none", "retry", "completed", "failed"}
Results == {"none", "completed", "failed", "timed_out"}

\* Faulty variant: the writes first, in each call's own order.
WritesFirst(c) ==
    CHOOSE s \in [1 .. Cardinality(Decl[c]) -> Decl[c]] :
        \A i, j \in DOMAIN s : i < j =>
            \/ s[i].mode = "WRITE" /\ s[j].mode = "READ"
            \/ s[i].mode = s[j].mode /\ s[i].key < s[j].key

\* What it acquires, in this order.
Plan(c) == Sorted(Decl[c])

Init ==
    /\ InitLocks
    /\ queue = Batch
    /\ pc = [c \in Users |-> "queued"]
    /\ got = [c \in Users |-> 0]
    /\ attempt = [c \in Users |-> 1]
    /\ outcome = [c \in Users |-> "none"]
    /\ forced = [c \in Users |-> 0]
    /\ result = [c \in Users |-> "none"]

-----------------------------------------------------------------------------
(* The pool. *)

Busy == {c \in Users : pc[c] # "queued" /\ result[c] = "none"}

Goto(c, place) == pc' = [pc EXCEPT ![c] = place]

\* A free pool thread picks up the oldest call.
Start(c) ==
    /\ queue # <<>>
    /\ c = Head(queue)
    /\ Cardinality(Busy) < MaxWorkers
    /\ queue' = Tail(queue)
    /\ Goto(c, IF Plan(c) = <<>> THEN "running" ELSE "acquiring")
    /\ UNCHANGED <<lockVars, got, attempt, outcome, forced, result>>

-----------------------------------------------------------------------------
(* _acquire_all *)

Wanted(c) == Plan(c)[got[c] + 1]

\* The lock is available: take it, and go on to the next or to the tool.
Acquire(c) ==
    /\ pc[c] \in {"acquiring", "waiting"}
    /\ Grant(c, Wanted(c))
    /\ got' = [got EXCEPT ![c] = @ + 1]
    /\ Goto(c, IF got[c] + 1 = Len(Plan(c)) THEN "running" ELSE "acquiring")
    /\ UNCHANGED <<queue, attempt, outcome, forced, result>>

Block(c) ==
    /\ pc[c] = "acquiring"
    /\ ~Available(Wanted(c))
    /\ Goto(c, "waiting")
    /\ UNCHANGED <<lockVars, queue, got, attempt, outcome, forced, result>>

\* The wait has timed out: undo and try again, or DeadlockDetectedError.  Only
\* the context manager releases what the last attempt acquired.
GiveUp(c) ==
    /\ c \in Impatient
    /\ pc[c] = "waiting"
    /\ \/ /\ attempt[c] < MaxAttempts
          /\ outcome' = [outcome EXCEPT ![c] = "retry"]
          /\ Goto(c, "releasing")
       \/ /\ attempt[c] = MaxAttempts
          /\ outcome' = [outcome EXCEPT ![c] = "failed"]
          /\ Goto(c, IF c \in Timed THEN "ended" ELSE "releasing")
    /\ UNCHANGED <<lockVars, queue, got, attempt, forced, result>>

-----------------------------------------------------------------------------
(* The tool returns or raises. *)

\* Faulty variant: an exception of the tool skips the release.
ReturnLeaking(c) ==
    /\ pc[c] = "running"
    /\ \E ending \in {"completed", "failed"} :
          /\ outcome' = [outcome EXCEPT ![c] = ending]
          /\ Goto(c, IF c \in Timed \/ ending = "failed"
                     THEN "ended" ELSE "releasing")
    /\ UNCHANGED <<lockVars, queue, got, attempt, forced, result>>

\* A call with a timeout then releases the empty handle made by the pool
\* thread, and not the one acquire_resources_explicit returned: nothing.
Return(c) ==
    /\ pc[c] = "running"
    /\ \E ending \in {"completed", "failed"} :
          outcome' = [outcome EXCEPT ![c] = ending]
    /\ Goto(c, IF c \in Timed THEN "ended" ELSE "releasing")
    /\ UNCHANGED <<lockVars, queue, got, attempt, forced, result>>

(* _release_all: the lock acquired last is released first. *)
ReleaseLast(c) ==
    /\ pc[c] = "releasing"
    /\ got[c] > 0
    /\ Release(c, Plan(c)[got[c]])
    /\ got' = [got EXCEPT ![c] = @ - 1]
    /\ UNCHANGED <<queue, pc, attempt, outcome, forced, result>>

\* Faulty variant: the attempts are not counted.
ReleasedAllEndless(c) ==
    /\ pc[c] = "releasing"
    /\ got[c] = 0
    /\ outcome' = [outcome EXCEPT ![c] = IF @ = "retry" THEN "none" ELSE @]
    /\ Goto(c, IF outcome[c] = "retry" THEN "acquiring" ELSE "ended")
    /\ UNCHANGED <<lockVars, queue, got, attempt, forced, result>>

ReleasedAll(c) ==
    /\ pc[c] = "releasing"
    /\ got[c] = 0
    /\ \/ /\ outcome[c] = "retry"
          /\ attempt' = [attempt EXCEPT ![c] = @ + 1]
          /\ outcome' = [outcome EXCEPT ![c] = "none"]
          /\ Goto(c, "acquiring")
       \/ /\ outcome[c] # "retry"
          /\ Goto(c, "ended")
          /\ UNCHANGED <<attempt, outcome>>
    /\ UNCHANGED <<lockVars, queue, got, forced, result>>

-----------------------------------------------------------------------------
(* The pool thread's side of a call. *)

\* The call ended in time.
Finish(c) ==
    /\ pc[c] = "ended"
    /\ result[c] = "none"
    /\ forced[c] = 0
    /\ result' = [result EXCEPT ![c] = outcome[c]]
    /\ UNCHANGED <<lockVars, queue, callVars, forced>>

\* join times out while the daemon thread is alive, wherever it is.
Expire(c) ==
    /\ c \in Timed
    /\ pc[c] \notin {"queued", "ended"}
    /\ result[c] = "none"
    /\ forced[c] = 0
    /\ forced' = [forced EXCEPT ![c] = 1]
    /\ UNCHANGED <<lockVars, queue, callVars, result>>

\* force_release_resources, one declaration at a time.
ForceOne(c) ==
    /\ forced[c] \in 1 .. Len(Plan(c))
    /\ ForceRelease(Plan(c)[forced[c]])
    /\ forced' = [forced EXCEPT ![c] = @ + 1]
    /\ UNCHANGED <<queue, callVars, result>>

Abandon(c) ==
    /\ forced[c] = Len(Plan(c)) + 1
    /\ result[c] = "none"
    /\ result' = [result EXCEPT ![c] = "timed_out"]
    /\ UNCHANGED <<lockVars, queue, callVars, forced>>

-----------------------------------------------------------------------------
(* The batch is over; threads that were abandoned may still be running. *)
Answered == \A c \in Users : result[c] # "none"

Idle == Answered /\ (\A c \in Users : pc[c] = "ended") /\ UNCHANGED vars

Next ==
    \/ \E c \in Users :
          \/ Start(c)
          \/ Acquire(c) \/ Block(c) \/ GiveUp(c)
          \/ Return(c)
          \/ ReleaseLast(c) \/ ReleasedAll(c)
          \/ Finish(c) \/ Expire(c) \/ ForceOne(c) \/ Abandon(c)
    \/ Idle

Spec == Init /\ [][Next]_vars

(***************************************************************************)
(* Every thread that can go on does so, and a wait with a timeout ends.    *)
(* A tool without a timeout has to return; one with a timeout need not.    *)
(***************************************************************************)
Fairness ==
    \A c \in Users :
        /\ WF_vars(Start(c))
        /\ WF_vars(Acquire(c)) /\ WF_vars(Block(c)) /\ WF_vars(GiveUp(c))
        /\ c \notin Timed => WF_vars(Return(c))
        /\ WF_vars(ReleaseLast(c)) /\ WF_vars(ReleasedAll(c))
        /\ WF_vars(Finish(c)) /\ WF_vars(Expire(c))
        /\ WF_vars(ForceOne(c)) /\ WF_vars(Abandon(c))

FairSpec == Spec /\ Fairness

-----------------------------------------------------------------------------
(* Types, with the bounds of the plan, the attempts and the forced releases. *)
TypeOK ==
    /\ LocksTypeOK
    /\ queue \in Seq(Users)
    /\ pc \in [Users -> Places]
    /\ \A c \in Users : got[c] \in 0 .. Len(Plan(c))
    /\ \A c \in Users : attempt[c] \in 1 .. MaxAttempts
    /\ outcome \in [Users -> Outcomes]
    /\ \A c \in Users : forced[c] \in 0 .. Len(Plan(c)) + 1
    /\ result \in [Users -> Results]

(* Two calls declare one resource and one of them writes it. *)
Conflict(c, d) ==
    \E x \in Decl[c], y \in Decl[d] :
        x.key = y.key /\ "WRITE" \in {x.mode, y.mode}

(***************************************************************************)
(* "A WRITE lock is exclusive": while the tool of a call runs and the call *)
(* has not been timed out, no conflicting call runs its tool.  Calls that  *)
(* were abandoned are left out: the code says that those may still run.    *)
(***************************************************************************)
RunsUnderLocks(c) == pc[c] = "running" /\ forced[c] = 0

ConflictsSerialised ==
    \A c, d \in Users :
        c # d /\ RunsUnderLocks(c) /\ RunsUnderLocks(d) => ~Conflict(c, d)

(***************************************************************************)
(* "ALWAYS release via the handle": the locks of a call are free again     *)
(* when its thread has ended, however it ended.                            *)
(***************************************************************************)
NothingHeldAfterEnd ==
    \A c \in Users : pc[c] = "ended" =>
        \A k \in Keys : writer[k] # c /\ ~Contains(tracked[k], c)

(***************************************************************************)
(* A batch ends, with one result for each call: conflicting calls, retries *)
(* and abandoned threads never block the pool for good.                    *)
(***************************************************************************)
BatchEnds == <>Answered

(***************************************************************************)
(* Acquiring in key order is enough to prevent deadlock: a call none of    *)
(* whose waits for a lock times out runs its tool, whatever the others     *)
(* hold, undo and try again.                                               *)
(***************************************************************************)
EveryToolRuns == \A c \in Users \ Impatient : <>(pc[c] = "running")
=============================================================================
