------------------------------- MODULE TaskQueue -------------------------------
(***************************************************************************)
(* The persistent background queue of app/task_queue.py (class TaskQueue): *)
(* rows in SQLite, async workers that execute them, user operations, and a *)
(* process that crashes, stops and starts again.                           *)
(*                                                                         *)
(* Every database access goes through asyncio.to_thread, that is, through  *)
(* an await: an action reads or writes the database once, and what it read *)
(* lives on in a local copy until the next write.  SQLite makes a single   *)
(* statement atomic, nothing makes a load and the following save atomic.   *)
(***************************************************************************)
EXTENDS Naturals, SequencesExt

CONSTANTS
    Tasks,          \* task ids; each is submitted with a prompt of its own
    Priority,       \* the priority of each task
    Workers,        \* the worker coroutines of one process
    Operations,     \* which of "cancel", "retry", "checkpoint" users call
    Before,         \* the tasks an earlier process left queued, oldest first
    None,           \* no row, no task, no worker
    MaxInterrupts,  \* interruptions after which a task is parked (5)
    MaxExits,       \* bound: how often the process crashes or stops
    MaxRetries      \* bound: how often a user retries one task

Statuses == {"queued", "running", "paused", "completed", "failed", "cancelled"}
Final == {"completed", "failed", "cancelled"}

Row == [status : Statuses, retries : Nat, interrupts : Nat, checkpoint : BOOLEAN]

ASSUME QueueAssumption ==
    /\ Priority \in [Tasks -> Nat]
    /\ None \notin Tasks \union Workers \union Row
    /\ Before \in Seq(Tasks) /\ IsInjective(Before)
    /\ Operations \subseteq {"cancel", "retry", "checkpoint"}
    /\ MaxInterrupts \in Nat /\ MaxExits \in Nat /\ MaxRetries \in Nat

VARIABLES
    db,         \* the table: a row or None for each task
    older,      \* the rows with an earlier updated_at than each row
    phase,      \* the process: "down", "recovering", "serving", "stopping"
    pc,         \* where each worker is
    copy,       \* the task and row each worker holds
    active,     \* _active_tasks: the worker whose asyncio task it is
    cancelled,  \* the workers whose asyncio task has been cancelled
    op,         \* the user operation in progress, or None
    recent,     \* _recent_prompts is not empty
    submitted,  \* how the last submit ended
    recalled,   \* auxiliary: the tasks that a user has ever begun to cancel
    exits       \* how often the process has crashed or stopped

workerVars == <<pc, copy, active, cancelled>>
userVars == <<op, recent, submitted, recalled>>
vars == <<db, older, phase, workerVars, userVars, exits>>

FreshRow ==
    [status |-> "queued", retries |-> 0, interrupts |-> 0, checkpoint |-> FALSE]

Rows == {t \in Tasks : db[t] # None}

Has(t, statuses) == db[t] # None /\ db[t].status \in statuses

Idle == [task |-> None, row |-> None]

Init ==
    /\ db = [t \in Tasks |-> IF Contains(Before, t) THEN FreshRow ELSE None]
    /\ older = [t \in Tasks |-> {u \in Tasks :
                   \E i, j \in DOMAIN Before : i < j /\ Before[i] = u /\ Before[j] = t}]
    /\ phase = "down"
    /\ pc = [w \in Workers |-> "off"]
    /\ copy = [w \in Workers |-> Idle]
    /\ active = [t \in Tasks |-> None]
    /\ cancelled = {}
    /\ op = None
    /\ recent = FALSE
    /\ submitted = "none"
    /\ recalled = {}
    /\ exits = 0

\* INSERT OR REPLACE with a new updated_at.
Save(t, row) ==
    /\ db' = [db EXCEPT ![t] = row]
    /\ older' = [u \in Tasks |-> IF u = t THEN Rows \ {t} ELSE older[u] \ {t}]

-----------------------------------------------------------------------------
(* The process. *)

Restart ==
    /\ phase = "down"
    /\ phase' = "recovering"
    /\ UNCHANGED <<db, older, workerVars, userVars, exits>>

\* Faulty variant: the tasks that were paused stay paused.
RecoverRunning(t) ==
    /\ phase = "recovering"
    /\ Has(t, {"running"})
    /\ Save(t, [db[t] EXCEPT !.status = "queued", !.interrupts = @ + 1])
    /\ UNCHANGED <<phase, workerVars, userVars, exits>>

\* Faulty variant: tasks are resumed while workers are running.
RecoverWhileServing(t) ==
    /\ phase \in {"recovering", "serving"}
    /\ Has(t, {"running"})
    /\ Save(t, [db[t] EXCEPT !.status = "queued", !.interrupts = @ + 1])
    /\ UNCHANGED <<phase, workerVars, userVars, exits>>

\* resume_interrupted, for one row of its list, the latest updated first.
Recover(t) ==
    /\ phase = "recovering"
    /\ Has(t, {"running", "paused"})
    /\ \A u \in Tasks : Has(u, {"running", "paused"}) => t \notin older[u]
    /\ \/ /\ db[t].status = "running"
          /\ LET n == db[t].interrupts + 1
             IN  Save(t, [db[t] EXCEPT
                              !.status = IF n <= MaxInterrupts
                                         THEN "queued" ELSE "failed",
                              !.interrupts = n])
       \/ /\ db[t].status = "paused"
          /\ Save(t, [db[t] EXCEPT !.status = "queued"])
    /\ UNCHANGED <<phase, workerVars, userVars, exits>>

\* start_workers, once resume_interrupted has returned.
Serve ==
    /\ phase = "recovering"
    /\ \A t \in Tasks : ~Has(t, {"running", "paused"})
    /\ phase' = "serving"
    /\ pc' = [w \in Workers |-> "polling"]
    /\ UNCHANGED <<db, older, copy, active, cancelled, userVars, exits>>

\* stop_workers cancels the workers; each notices at its await.
Stop ==
    /\ phase = "serving"
    /\ op = None
    /\ exits < MaxExits
    /\ phase' = "stopping"
    /\ UNCHANGED <<db, older, workerVars, userVars, exits>>

Exit ==
    /\ phase' = "down"
    /\ pc' = [w \in Workers |-> "off"]
    /\ copy' = [w \in Workers |-> Idle]
    /\ active' = [t \in Tasks |-> None]
    /\ cancelled' = {}
    /\ op' = None
    /\ recent' = FALSE
    /\ submitted' = "none"
    /\ exits' = exits + 1
    /\ UNCHANGED <<db, older, recalled>>

Stopped == phase = "stopping" /\ (\A w \in Workers : pc[w] = "off") /\ Exit

Crash == phase \in {"recovering", "serving", "stopping"} /\ exits < MaxExits /\ Exit

-----------------------------------------------------------------------------
(* A worker. *)

Goto(w, place) == pc' = [pc EXCEPT ![w] = place]

\* Faulty variant: the WHERE clause is missing.
QueuedUnfiltered == Rows

Queued == {t \in Tasks : Has(t, {"queued"})}

\* ORDER BY priority DESC, updated_at ASC LIMIT 1
First(t) ==
    /\ t \in Queued
    /\ \A u \in Queued \ {t} :
          \/ Priority[t] > Priority[u]
          \/ Priority[t] = Priority[u] /\ t \in older[u]

\* _next_queued_task: the row is read, nothing claims it.
Poll(w) ==
    /\ phase = "serving"
    /\ pc[w] = "polling"
    /\ \E t \in Queued :
          /\ First(t)
          /\ copy' = [copy EXCEPT ![w] =
                 [task |-> t, row |-> [db[t] EXCEPT !.status = "running"]]]
    /\ Goto(w, "claimed")
    /\ UNCHANGED <<db, older, phase, active, cancelled, userVars, exits>>

\* Faulty variant: an attempt counts as an interruption.
MarkRunningCounted(w) ==
    /\ pc[w] = "claimed"
    /\ LET row == [copy[w].row EXCEPT !.interrupts = @ + 1]
       IN  /\ Save(copy[w].task, row)
           /\ copy' = [copy EXCEPT ![w].row = row]
    /\ Goto(w, "starting")
    /\ UNCHANGED <<phase, active, cancelled, userVars, exits>>

MarkRunning(w) ==
    /\ pc[w] = "claimed"
    /\ Save(copy[w].task, copy[w].row)
    /\ Goto(w, "starting")
    /\ UNCHANGED <<phase, copy, active, cancelled, userVars, exits>>

\* create_task(executor(task)), entered in _active_tasks.
Execute(w) ==
    /\ phase = "serving"
    /\ pc[w] = "starting"
    /\ active' = [active EXCEPT ![copy[w].task] = w]
    /\ Goto(w, "executing")
    /\ UNCHANGED <<db, older, phase, copy, cancelled, userVars, exits>>

\* The executor returns or raises; the worker has not run yet.
ExecutorEnds(w) ==
    /\ pc[w] = "executing"
    /\ w \notin cancelled
    /\ \E place \in {"returned", "raised"} : Goto(w, place)
    /\ UNCHANGED <<db, older, phase, copy, active, cancelled, userVars, exits>>

\* What `await atask` raises or returns decides the status to be saved.
Conclude(w, status) ==
    /\ copy' = [copy EXCEPT ![w].row.status = status]
    /\ active' = [active EXCEPT ![copy[w].task] = None]
    /\ cancelled' = cancelled \ {w}
    /\ Goto(w, "saving")
    /\ UNCHANGED <<db, older, phase, userVars, exits>>

Completed(w) == phase = "serving" /\ pc[w] = "returned" /\ Conclude(w, "completed")

Failed(w) == phase = "serving" /\ pc[w] = "raised" /\ Conclude(w, "failed")

\* Faulty variant: a cancelled execution is not written back.
PausedUnsaved(w) ==
    /\ \/ pc[w] = "executing" /\ w \in cancelled
       \/ pc[w] \in {"executing", "returned", "raised"} /\ phase = "stopping"
    /\ copy' = [copy EXCEPT ![w] = Idle]
    /\ active' = [active EXCEPT ![copy[w].task] = None]
    /\ cancelled' = cancelled \ {w}
    /\ Goto(w, IF phase = "stopping" THEN "off" ELSE "polling")
    /\ UNCHANGED <<db, older, phase, userVars, exits>>

\* CancelledError: the asyncio task was cancelled, or the worker was; then
\* even an executor that has just ended counts as paused.
Paused(w) ==
    /\ \/ pc[w] = "executing" /\ w \in cancelled
       \/ pc[w] \in {"executing", "returned", "raised"} /\ phase = "stopping"
    /\ Conclude(w, "paused")

SaveOutcome(w) ==
    /\ pc[w] = "saving"
    /\ Save(copy[w].task, copy[w].row)
    /\ copy' = [copy EXCEPT ![w] = Idle]
    /\ Goto(w, IF phase = "stopping" THEN "off" ELSE "polling")
    /\ UNCHANGED <<phase, active, cancelled, userVars, exits>>

\* A worker cancelled at any other await ends there; a write that its thread
\* has begun still happens (MarkRunning, SaveOutcome), one that it has not
\* does not.
WorkerEnds(w) ==
    /\ phase = "stopping"
    /\ pc[w] \in {"polling", "claimed", "starting", "saving"}
    /\ copy' = [copy EXCEPT ![w] = Idle]
    /\ Goto(w, "off")
    /\ UNCHANGED <<db, older, phase, active, cancelled, userVars, exits>>

-----------------------------------------------------------------------------
(* The user. *)

\* A new id (bound: an id is used again once its row is gone for good).  The
\* prompts differ, so nothing is deduplicated.  Pruning _recent_prompts
\* subtracts a task id from the time: with an entry in it, submit raises.
Submit(t) ==
    /\ phase = "serving"
    /\ db[t] = None
    /\ op # None => op.task # t
    /\ \A w \in Workers : copy[w].task # t
    /\ \/ /\ ~recent
          /\ Save(t, FreshRow)
          /\ recent' = TRUE
          /\ submitted' = "ok"
       \/ /\ recent
          /\ submitted' = "TypeError"
          /\ UNCHANGED <<db, older, recent>>
    /\ UNCHANGED <<phase, workerVars, op, recalled, exits>>

\* Which rows an operation is willing to change.
Accepts(kind, row) ==
    CASE kind = "cancel" -> row.status \in {"queued", "running", "paused"}
      [] kind = "retry" -> row.status \in {"failed", "cancelled"}
      [] kind = "checkpoint" -> TRUE

Changed(kind, row) ==
    CASE kind = "cancel" -> [row EXCEPT !.status = "cancelled"]
      [] kind = "retry" -> [row EXCEPT !.status = "queued", !.retries = @ + 1]
      [] kind = "checkpoint" -> [row EXCEPT !.checkpoint = TRUE]

\* cancel_task, retry_task and save_checkpoint load the row first.
Load(kind, t) ==
    /\ phase = "serving"
    /\ op = None
    /\ kind \in Operations
    /\ db[t] # None
    /\ Accepts(kind, db[t])
    /\ kind = "retry" => db[t].retries < MaxRetries
    /\ op' = [kind |-> kind, task |-> t, row |-> Changed(kind, db[t]),
              saved |-> FALSE]
    /\ recalled' = IF kind = "cancel" THEN recalled \union {t} ELSE recalled
    /\ UNCHANGED <<db, older, phase, workerVars, recent, submitted, exits>>

\* They save the whole row they loaded, with the change.
SaveChange ==
    /\ op # None
    /\ ~op.saved
    /\ Save(op.task, op.row)
    /\ op' = IF op.kind = "cancel" THEN [op EXCEPT !.saved = TRUE] ELSE None
    /\ UNCHANGED <<phase, workerVars, recent, submitted, recalled, exits>>

\* The last step of cancel_task: stop the execution, if there is one.
Signal ==
    /\ op # None
    /\ op.saved
    /\ LET w == active[op.task]
       IN  cancelled' = IF w # None /\ pc[w] = "executing"
                        THEN cancelled \union {w} ELSE cancelled
    /\ op' = None
    /\ UNCHANGED <<db, older, phase, pc, copy, active, recent, submitted, recalled, exits>>

\* cleanup_completed: one DELETE of the final rows that are old enough.
Cleanup ==
    /\ phase = "serving"
    /\ \E old \in SUBSET {t \in Tasks : Has(t, Final)} :
          /\ old # {}
          /\ db' = [t \in Tasks |-> IF t \in old THEN None ELSE db[t]]
          /\ older' = [t \in Tasks |-> IF t \in old THEN {} ELSE older[t] \ old]
    /\ UNCHANGED <<phase, workerVars, userVars, exits>>

-----------------------------------------------------------------------------
Worker(w) ==
    \/ Poll(w) \/ MarkRunning(w) \/ Execute(w) \/ ExecutorEnds(w)
    \/ Completed(w) \/ Failed(w) \/ Paused(w)
    \/ SaveOutcome(w) \/ WorkerEnds(w)

Next ==
    \/ Restart \/ Serve \/ Stop \/ Stopped \/ Crash
    \/ \E t \in Tasks : Recover(t)
    \/ \E w \in Workers : Worker(w)
    \/ \E t \in Tasks : Submit(t)
    \/ \E kind \in Operations, t \in Tasks : Load(kind, t)
    \/ SaveChange \/ Signal
    \/ Cleanup

(***************************************************************************)
(* The process is started again after it ended, recovery goes through, the *)
(* event loop runs every worker that can run, and executors end.           *)
(***************************************************************************)
Fairness ==
    /\ WF_vars(Restart) /\ WF_vars(Serve) /\ WF_vars(Stopped)
    /\ \A t \in Tasks : WF_vars(Recover(t))
    /\ \A w \in Workers : WF_vars(Worker(w))
    /\ WF_vars(SaveChange) /\ WF_vars(Signal)

Spec == Init /\ [][Next]_vars

FairSpec == Spec /\ Fairness

-----------------------------------------------------------------------------
Copies == {Idle} \union [task : Tasks, row : Row]

\* updated_at is a strict total order of the rows.
OrderOK ==
    /\ older \in [Tasks -> SUBSET Rows]
    /\ \A t \in Tasks \ Rows : older[t] = {}
    /\ \A t \in Rows : t \notin older[t]
    /\ \A t, u \in Rows : t # u => (t \in older[u] <=> u \notin older[t])
    /\ \A t, u \in Rows : t \in older[u] => older[t] \subseteq older[u]

(* Types; _active_tasks names executions that have not been concluded. *)
TypeOK ==
    /\ db \in [Tasks -> Row \union {None}]
    /\ OrderOK
    /\ phase \in {"down", "recovering", "serving", "stopping"}
    /\ pc \in [Workers -> {"off", "polling", "claimed", "starting",
                           "executing", "returned", "raised", "saving"}]
    /\ copy \in [Workers -> Copies]
    /\ \A w \in Workers : copy[w].task = None <=> pc[w] \in {"off", "polling"}
    /\ active \in [Tasks -> Workers \union {None}]
    /\ \A t \in Tasks : active[t] # None =>
          /\ copy[active[t]].task = t
          /\ pc[active[t]] \in {"executing", "returned", "raised"}
    /\ cancelled \subseteq Workers
    /\ op \in {None} \union [kind : Operations, task : Tasks, row : Row, saved : BOOLEAN]
    /\ recent \in BOOLEAN
    /\ recalled \subseteq Tasks
    /\ exits \in Nat

(***************************************************************************)
(* From the claim to the final save the row that the worker holds in       *)
(* memory, and is going to write back whole, is the row in the database,   *)
(* unless a user has cancelled the task (and retried or removed it) since: *)
(* with one worker, nothing else is overwritten.                           *)
(***************************************************************************)
CopyIsCurrent ==
    \A w \in Workers :
        LET t == copy[w].task
            row == copy[w].row
        IN  pc[w] \in {"starting", "executing", "returned", "raised"} =>
                \/ db[t] \in {row, None}
                \/ db[t].status = "cancelled"
                \/ db[t].retries > row.retries

(***************************************************************************)
(* A row says "running" only while a worker has the task in hand: whatever *)
(* cancels and retries race with the claim and the final save, no row is   *)
(* left running with nobody to finish it before the next restart.          *)
(***************************************************************************)
RunningIsHeld ==
    \A t \in Tasks :
        phase = "serving" /\ Has(t, {"running"}) =>
            \E w \in Workers : copy[w].task = t

(***************************************************************************)
(* Work that is done is not done again: a completed task stays completed   *)
(* until it is removed, except that a user's cancel or retry which read    *)
(* the row before it completed may still write it.                         *)
(***************************************************************************)
CompletedIsNotRerun ==
    [][\A t \in Tasks :
          Has(t, {"completed"}) =>
              \/ db'[t] = None
              \/ db'[t].status \in {"completed", "cancelled"}
              \/ db'[t].retries > db[t].retries]_vars

(***************************************************************************)
(* Interruptions count the ends of the process and nothing else, so that a *)
(* task is never parked as a crash loop before the process has ended that  *)
(* often, whatever retries and failures it had.                            *)
(***************************************************************************)
InterruptsAreExits ==
    \A t \in Tasks : db[t] # None => db[t].interrupts <= exits

(***************************************************************************)
(* "Survives terminal close, restart": a queued task is eventually         *)
(* finished, however often the process ended in between.  That needs that  *)
(* nobody cancels: the worker saves a cancelled execution as paused, over  *)
(* a retry as well, and only the next start would queue it again.          *)
(***************************************************************************)
NobodyCancels == op # None => op.kind # "cancel"

QueuedIsFinished ==
    []NobodyCancels =>
        \A t \in Tasks :
            Has(t, {"queued"}) ~> (db[t] = None \/ Has(t, Final))

(***************************************************************************)
(* "Cancel a queued or running task": a cancelled task does not come back  *)
(* unless a user retries it.                                               *)
(***************************************************************************)
CancelledStays ==
    [][\A t \in Tasks :
          Has(t, {"cancelled"}) /\ db'[t] # None /\ db'[t].status # "cancelled"
              => db'[t].retries > db[t].retries]_vars

-----------------------------------------------------------------------------
(* What is in hand, and where. *)
InHandAt(t, places) == \E w \in Workers : copy[w].task = t /\ pc[w] \in places

Concluding(t, status) ==
    \E w \in Workers : copy[w].task = t /\ pc[w] = "saving" /\ copy[w].row.status = status

(* Where a task is that nobody has cancelled: its row, and for a row that  *)
(* says "running" what the worker knows that has it in hand.               *)
Stage(t) ==
    IF t \in recalled THEN "cancelled" ELSE
    CASE db[t] = None -> "gone"
      [] Has(t, {"queued", "paused"}) -> "waiting"
      [] Has(t, Final) -> db[t].status
      [] Has(t, {"running"}) ->
           CASE InHandAt(t, {"starting", "executing"}) -> "working"
             [] InHandAt(t, {"returned"}) \/ Concluding(t, "completed") -> "succeeded"
             [] InHandAt(t, {"raised"}) \/ Concluding(t, "failed") -> "broken"
             [] OTHER -> "interrupted"

Survives ==
    INSTANCE Backlog WITH
        job <- [t \in Tasks |-> Stage(t)],
        interrupts <- [t \in Tasks |->
            IF t \in recalled \/ db[t] = None THEN 0 ELSE db[t].interrupts]

(***************************************************************************)
(* The queue implements Backlog: a task that nobody cancels "survives       *)
(* terminal close, restart, and disconnection", whatever ends the process,  *)
(* whatever a worker or a retry has read before it writes, and whatever is  *)
(* cancelled beside it.                                                    *)
(***************************************************************************)
IsBacklog == Survives!Spec
=============================================================================
