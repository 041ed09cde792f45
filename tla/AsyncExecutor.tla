----------------------------- MODULE AsyncExecutor -----------------------------
(***************************************************************************)
(* One batch of AsyncParallelToolExecutor.execute                          *)
(* (app/parallel_executor/executor.py): every call is a task of the event   *)
(* loop; the loop's pool acquires its locks, runs its tool if that is no    *)
(* coroutine, and releases its locks, each on whatever thread is free.  A   *)
(* lock knows the thread that writes, and not the call.  _reader_threads is  *)
(* for releases by force, which there are none of here.                     *)
(***************************************************************************)
EXTENDS ResourceLocks

CONSTANTS
    Batch,          \* the calls, in their order
    Decl,           \* what each declares
    Sync,           \* the calls whose tool is no coroutine
    Timed,          \* the calls with a timeout
    MaxConcurrency, \* max_concurrency
    MaxAttempts,    \* _retry_count of the lock manager
    NoJob           \* what a free thread does

Calls == ToSet(Batch)

Jobs == [call : Calls, does : {"acquire", "wait", "undo", "run", "release"}]

AsyncAssumption ==
    /\ Keys \subseteq Nat /\ NoUser \notin Users
    /\ Batch \in Seq(Calls) /\ IsInjective(Batch)
    /\ Decl \in [Calls -> SUBSET Declarations] /\ \A c \in Calls : IsFiniteSet(Decl[c])
    /\ Sync \subseteq Calls /\ Timed \subseteq Calls
    /\ {MaxConcurrency, MaxAttempts} \subseteq Nat \ {0}
    /\ NoJob \notin Jobs

VARIABLES
    at,      \* where the task of each call is
    jobs,    \* the queue of the pool
    job,     \* what each thread does
    got,     \* how many locks the handle of each call has
    attempt, \* the attempt that its acquisition is in
    result   \* how each call has ended

vars == <<lockVars, at, jobs, job, got, attempt, result>>

Init ==
    /\ InitLocks
    /\ at = [c \in Calls |-> "new"]
    /\ jobs = <<>> /\ job = [t \in Users |-> NoJob]
    /\ got = [c \in Calls |-> 0]
    /\ attempt = [c \in Calls |-> 1]
    /\ result = [c \in Calls |-> "none"]

(* sorted_decls. *)
Plan(c) == Sorted(Decl[c])

Job(c, does) == [call |-> c, does |-> does]

-----------------------------------------------------------------------------
(* The tasks.                                                              *)

Goto(c, place) == at' = [at EXCEPT ![c] = place]

Inside == {c \in Calls : at[c] \notin {"new", "done"}}

(* The semaphore lets them in in their order. *)
Enter(c) ==
    /\ at[c] = "new" /\ Cardinality(Inside) < MaxConcurrency
    /\ c = SelectSeq(Batch, LAMBDA x : at[x] = "new")[1]
    /\ Goto(c, "acquiring")
    /\ jobs' = Append(jobs, Job(c, "acquire"))
    /\ UNCHANGED <<lockVars, job, got, attempt, result>>

(* The handle is there, and the tool begins. *)
Resume(c) ==
    /\ at[c] = "acquired"
    /\ Goto(c, "running")
    /\ jobs' = IF c \in Sync THEN Append(jobs, Job(c, "run")) ELSE jobs
    /\ UNCHANGED <<lockVars, job, got, attempt, result>>

HasReturned(c) ==
    \/ at[c] = "returned"
    \/ at[c] = "running" /\ c \notin Sync

(* Faulty: a tool that raises skips the release. *)
ReturnQuietly(c) ==
    /\ HasReturned(c)
    /\ \/ Goto(c, "releasing") /\ jobs' = Append(jobs, Job(c, "release"))
       \/ Goto(c, "done") /\ UNCHANGED jobs
    /\ result' = [result EXCEPT ![c] = "answered"]
    /\ UNCHANGED <<lockVars, job, got, attempt>>

(* The tool has returned or raised. *)
Return(c) ==
    /\ HasReturned(c)
    /\ Goto(c, "releasing")
    /\ jobs' = Append(jobs, Job(c, "release"))
    /\ result' = [result EXCEPT ![c] = "answered"]
    /\ UNCHANGED <<lockVars, job, got, attempt>>

JobsOf(c) == {i \in DOMAIN jobs : jobs[i].call = c}

Dropped(c) == IF JobsOf(c) = {} THEN jobs ELSE RemoveAt(jobs, CHOOSE i \in JobsOf(c) : TRUE)

(* wait_for cancels what the task waits for.  A job that no thread has      *)
(* taken is dropped; one that has been taken goes on, and nobody learns of  *)
(* the handle it gets. *)
TimeOut(c) ==
    /\ c \in Timed /\ c \in Inside /\ result[c] # "late"
    /\ result' = [result EXCEPT ![c] = "late"]
    /\ IF at[c] \in {"running", "returned"}
       THEN Goto(c, "releasing") /\ jobs' = Append(Dropped(c), Job(c, "release"))
       ELSE Goto(c, "done") /\ jobs' = Dropped(c)
    /\ UNCHANGED <<lockVars, job, got, attempt>>

-----------------------------------------------------------------------------
(* The threads.                                                            *)

Take(t) ==
    /\ job[t] = NoJob /\ jobs # <<>>
    /\ job' = [job EXCEPT ![t] = Head(jobs)]
    /\ jobs' = Tail(jobs)
    /\ UNCHANGED <<lockVars, at, got, attempt, result>>

Does(t, what) == job[t] # NoJob /\ job[t].does \in what

Now(t, what) == job' = [job EXCEPT ![t].does = what]

(* The thread is free; if the task still waits for it, that goes on. *)
Deliver(t, from, to) ==
    /\ job' = [job EXCEPT ![t] = NoJob]
    /\ at' = [at EXCEPT ![job[t].call] = IF @ = from THEN to ELSE @]

Wanted(c) == Plan(c)[got[c] + 1]

Complete(c) == got[c] = Len(Plan(c))

Acquire(t) ==
    /\ Does(t, {"acquire", "wait"})
    /\ LET c == job[t].call
       IN  /\ ~Complete(c)
           /\ Grant(t, Wanted(c))
           /\ got' = [got EXCEPT ![c] = @ + 1]
    /\ Now(t, "acquire")
    /\ UNCHANGED <<at, jobs, attempt, result>>

Acquired(t) ==
    /\ Does(t, {"acquire"}) /\ Complete(job[t].call)
    /\ Deliver(t, "acquiring", "acquired")
    /\ UNCHANGED <<lockVars, jobs, got, attempt, result>>

Block(t) ==
    /\ Does(t, {"acquire"}) /\ ~Complete(job[t].call)
    /\ ~Available(Wanted(job[t].call))
    /\ Now(t, "wait")
    /\ UNCHANGED <<lockVars, at, jobs, got, attempt, result>>

(* DeadlockDetectedError leaves what the last attempt has acquired. *)
GiveUp(t) ==
    /\ Does(t, {"wait"})
    /\ LET c == job[t].call
       IN  IF attempt[c] < MaxAttempts
           THEN Now(t, "undo") /\ UNCHANGED <<at, result>>
           ELSE /\ Deliver(t, "acquiring", "done")
                /\ result' = [result EXCEPT ![c] = IF @ = "none" THEN "failed" ELSE @]
    /\ UNCHANGED <<lockVars, jobs, got, attempt>>

ToolReturns(t) ==
    /\ Does(t, {"run"})
    /\ Deliver(t, "running", "returned")
    /\ UNCHANGED <<lockVars, jobs, got, attempt, result>>

(* _release_all: the lock acquired last is released first, if this is the   *)
(* thread that acquired it, or it is for reading. *)
ReleaseLast(t) ==
    /\ Does(t, {"undo", "release"})
    /\ LET c == job[t].call
       IN  /\ got[c] > 0
           /\ Release(t, Plan(c)[got[c]])
           /\ got' = [got EXCEPT ![c] = @ - 1]
    /\ UNCHANGED <<at, jobs, job, attempt, result>>

Retry(t) ==
    /\ Does(t, {"undo"}) /\ got[job[t].call] = 0
    /\ attempt' = [attempt EXCEPT ![job[t].call] = @ + 1]
    /\ Now(t, "acquire")
    /\ UNCHANGED <<lockVars, at, jobs, got, result>>

Released(t) ==
    /\ Does(t, {"release"}) /\ got[job[t].call] = 0
    /\ Deliver(t, "releasing", "done")
    /\ UNCHANGED <<lockVars, jobs, got, attempt, result>>

Next ==
    \/ \E c \in Calls : Enter(c) \/ Resume(c) \/ Return(c) \/ TimeOut(c)
    \/ \E t \in Users :
         \/ Take(t)
         \/ Acquire(t) \/ Acquired(t) \/ Block(t) \/ GiveUp(t)
         \/ ToolReturns(t)
         \/ ReleaseLast(t) \/ Retry(t) \/ Released(t)

(* Tasks and threads go on, and waits end.  A tool with a timeout need not. *)
Fairness ==
    /\ \A c \in Calls :
         /\ WF_vars(Enter(c)) /\ WF_vars(Resume(c)) /\ WF_vars(TimeOut(c))
         /\ c \notin Timed => WF_vars(Return(c))
    /\ \A t \in Users :
         /\ WF_vars(Take(t))
         /\ WF_vars(Acquire(t)) /\ WF_vars(Acquired(t)) /\ WF_vars(Block(t)) /\ WF_vars(GiveUp(t))
         /\ WF_vars(ToolReturns(t) /\ job[t].call \notin Timed)
         /\ WF_vars(ReleaseLast(t)) /\ WF_vars(Retry(t)) /\ WF_vars(Released(t))

Spec == Init /\ [][Next]_vars /\ Fairness

-----------------------------------------------------------------------------

TypeOK ==
    /\ LocksTypeOK
    /\ at \in [Calls -> {"new", "acquiring", "acquired", "running", "returned", "releasing",
                         "done"}]
    /\ jobs \in Seq(Jobs)
    /\ job \in [Users -> Jobs \union {NoJob}]
    /\ \A c \in Calls : got[c] \in 0..Len(Plan(c)) /\ attempt[c] \in 1..MaxAttempts
    /\ result \in [Calls -> {"none", "answered", "late", "failed"}]

(* Two calls declare one resource and one of them writes it. *)
Conflict(c, d) ==
    \E x \in Decl[c], y \in Decl[d] : x.key = y.key /\ "WRITE" \in {x.mode, y.mode}

Running(c) == at[c] \in {"running", "returned"}

(* "The semaphore and resource locking ensure that conflicting calls are    *)
(* not simultaneously active": whichever threads acquire and release, and   *)
(* whatever is left locked.                                                *)
Serialised ==
    /\ WriterExcludesReaders
    /\ \A c, d \in Calls : c # d /\ Running(c) /\ Running(d) => ~Conflict(c, d)

Over == jobs = <<>> /\ \A c \in Calls : at[c] = "done"

(* A lock for reading comes back whichever thread releases it, unless its   *)
(* call ran into its timeout or out of attempts.                           *)
ReadsAreReturned ==
    Over /\ (\A t \in Users : job[t] = NoJob) /\ (\A c \in Calls : result[c] = "answered")
        => \A k \in Keys : readers[k] = 0

(* Every call ends, also behind locks that nobody can release any more, as  *)
(* long as tools that hang do not take every thread.                       *)
BatchEnds == <>Over
=============================================================================
