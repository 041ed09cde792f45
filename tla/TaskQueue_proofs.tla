--------------------------- MODULE TaskQueue_proofs ---------------------------
(***************************************************************************)
(* Proofs about TaskQueue, for any tasks, priorities, bounds and tasks left *)
(* by an earlier process.  What a worker holds in memory is compared with  *)
(* the row only through the count of retries: whoever read the row before  *)
(* a retry carries a lower count, whoever reads it after a higher one.     *)
(* The last part proves that the queue implements Backlog for the tasks    *)
(* that nobody has begun to cancel, whatever is cancelled beside them.     *)
(***************************************************************************)
EXTENDS TaskQueue, TLAPS

(* The command line starts one worker, and nothing calls save_checkpoint.  *)
OneWorker == \A v, w \in Workers : v = w
NoCheckpoints == "checkpoint" \notin Operations

(* A user operation and a worker at work belong to a process that serves.  *)
ProcessInv ==
    /\ phase \in {"down", "recovering"} => \A w \in Workers : pc[w] = "off"
    /\ op # None => phase = "serving"

(* Every copy of a row counts at most the ends of the process so far; a row *)
(* that says "running" when the process is gone has one to be counted yet. *)
CountInv ==
    /\ InterruptsAreExits
    /\ \A t \in Tasks : Has(t, {"running"}) /\ phase \in {"down", "recovering"} =>
          db[t].interrupts < exits
    /\ \A w \in Workers : copy[w].task # None => copy[w].row.interrupts <= exits
    /\ op # None => op.row.interrupts <= exits

(* Only a worker that goes on writes "running". *)
HeldInv ==
    /\ RunningIsHeld
    /\ \A w \in Workers : pc[w] = "saving" => copy[w].row.status # "running"
    /\ op # None => op.row.status \in {"queued", "cancelled"}

(* What is in hand against the table. *)
InHand(t, row) ==
    /\ ~Has(t, {"completed"})
    /\ db[t] # None => db[t].retries >= row.retries
    /\ op # None /\ op.task = t =>
          /\ op.row.retries >= row.retries
          /\ op.kind = "retry" => op.row.retries > row.retries

WorkerInv(w) ==
    copy[w].task # None =>
        /\ InHand(copy[w].task, copy[w].row)
        /\ pc[w] # "saving" => copy[w].row.status = "running"
        /\ pc[w] \in {"starting", "executing", "returned", "raised"} =>
             \/ db[copy[w].task] \in {copy[w].row, None}
             \/ db[copy[w].task].status = "cancelled"
             \/ db[copy[w].task].retries > copy[w].row.retries

OperationInv ==
    op # None =>
        /\ op.kind \in {"cancel", "retry"}
        /\ op.row.status = IF op.kind = "cancel" THEN "cancelled" ELSE "queued"
        /\ db[op.task] # None =>
             /\ op.row.retries >= db[op.task].retries
             /\ op.kind = "retry" => op.row.retries > db[op.task].retries

SyncInv == OperationInv /\ \A w \in Workers : WorkerInv(w)

-----------------------------------------------------------------------------
(* What a write does. *)

LEMMA Saves ==
  ASSUME TypeOK, NEW t \in Tasks, NEW row \in Row, Save(t, row)
  PROVE  /\ db' \in [Tasks -> Row \union {None}]
         /\ db'[t] = row /\ db'[t] # None
         /\ \A u \in Tasks \ {t} : db'[u] = db[u]
         /\ OrderOK'
  <1>1. row # None  BY QueueAssumption DEF QueueAssumption
  <1>2. /\ db' \in [Tasks -> Row \union {None}]
        /\ \A u \in Tasks : db'[u] = IF u = t THEN row ELSE db[u]
    BY DEF TypeOK, Save
  <1>3. Rows' = Rows \union {t}
    BY <1>1, <1>2 DEF Rows
  <1>4. /\ older' \in [Tasks -> SUBSET Rows']
        /\ \A u \in Tasks : older'[u] = IF u = t THEN Rows \ {t} ELSE older[u] \ {t}
    BY <1>3 DEF TypeOK, OrderOK, Save
  <1>5. OrderOK'
    <2>1. \A u \in Tasks \ Rows' : older'[u] = {}
      BY <1>3, <1>4 DEF TypeOK, OrderOK
    <2>2. \A u \in Rows' : u \notin older'[u]
      BY <1>3, <1>4 DEF TypeOK, OrderOK, Rows
    <2>3. \A u, v \in Rows' : u # v => (u \in older'[v] <=> v \notin older'[u])
      BY <1>3, <1>4 DEF TypeOK, OrderOK, Rows
    <2>4. \A u, v \in Rows' : u \in older'[v] => older'[u] \subseteq older'[v]
      BY <1>3, <1>4 DEF TypeOK, OrderOK, Rows
    <2> QED  BY <1>4, <2>1, <2>2, <2>3, <2>4 DEF OrderOK
  <1> QED  BY <1>1, <1>2, <1>5

LEMMA Cleans ==
  ASSUME TypeOK, Cleanup
  PROVE  /\ db' \in [Tasks -> Row \union {None}]
         /\ \A t \in Tasks : db'[t] \in {db[t], None}
         /\ OrderOK'
  <1>1. PICK old \in SUBSET {t \in Tasks : Has(t, Final)} :
          /\ db' = [t \in Tasks |-> IF t \in old THEN None ELSE db[t]]
          /\ older' = [t \in Tasks |-> IF t \in old THEN {} ELSE older[t] \ old]
    BY DEF Cleanup
  <1>2. /\ db' \in [Tasks -> Row \union {None}]
        /\ \A t \in Tasks : db'[t] = IF t \in old THEN None ELSE db[t]
    BY <1>1 DEF TypeOK
  <1>3. Rows' = Rows \ old
    BY <1>2 DEF Rows, Has
  <1>4. OrderOK'
    BY <1>1, <1>3 DEF TypeOK, OrderOK, Rows
  <1> QED  BY <1>2, <1>4

LEMMA SameOrder ==
  ASSUME TypeOK, UNCHANGED <<db, older>>
  PROVE  OrderOK'
  BY DEF TypeOK, OrderOK, Rows

LEMMA Fresh == FreshRow \in Row /\ FreshRow # None
  <1>1. FreshRow \in Row  BY DEF FreshRow, Row, Statuses
  <1>2. None \notin Row  BY QueueAssumption DEF QueueAssumption
  <1> QED  BY <1>1, <1>2

\* What Before says about the first rows.
LEMMA FirstOrder ==
  ASSUME Init
  PROVE  OrderOK
  <1>1. /\ Before \in Seq(Tasks)
        /\ \A i, j \in DOMAIN Before : Before[i] = Before[j] => i = j
    BY QueueAssumption DEF QueueAssumption, IsInjective
  <1>2. \A t \in Tasks : Contains(Before, t) <=> \E i \in DOMAIN Before : Before[i] = t
    BY <1>1 DEF Contains
  <1>3. \A t \in Tasks : t \in Rows <=> \E i \in DOMAIN Before : Before[i] = t
    BY Fresh, <1>2 DEF Init, Rows
  <1>4. /\ \A t \in Tasks : older[t] \subseteq Tasks
        /\ \A t, u \in Tasks : u \in older[t] <=>
             \E i, j \in DOMAIN Before : i < j /\ Before[i] = u /\ Before[j] = t
    BY DEF Init
  <1>5. DOMAIN Before = 1 .. Len(Before) /\ Len(Before) \in Nat
    BY <1>1
  <1>6. older \in [Tasks -> SUBSET Rows]
    BY <1>3, <1>4 DEF Init, Rows
  <1>7. \A t \in Tasks \ Rows : older[t] = {}
    BY <1>3, <1>4
  <1>8. \A t \in Rows : t \notin older[t]
    BY <1>1, <1>4, <1>5 DEF Rows
  <1>9. \A t, u \in Rows : t # u => (t \in older[u] <=> u \notin older[t])
    <2> TAKE t, u \in Rows
    <2> HAVE t # u
    <2>1. PICK i, j \in DOMAIN Before : Before[i] = t /\ Before[j] = u
      BY <1>3 DEF Rows
    <2>2. t \in older[u] <=> i < j
      BY <1>1, <1>4, <2>1 DEF Rows
    <2>3. u \in older[t] <=> j < i
      BY <1>1, <1>4, <2>1 DEF Rows
    <2> QED  BY <1>5, <2>1, <2>2, <2>3
  <1>10. \A t, u \in Rows : t \in older[u] => older[t] \subseteq older[u]
    <2> SUFFICES ASSUME NEW t \in Rows, NEW u \in Rows, t \in older[u],
                        NEW v \in Tasks, v \in older[t]
                 PROVE  v \in older[u]
      BY <1>4 DEF Rows
    <2>1. PICK i, j \in DOMAIN Before : i < j /\ Before[i] = t /\ Before[j] = u
      BY <1>4 DEF Rows
    <2>2. PICK k, l \in DOMAIN Before : k < l /\ Before[k] = v /\ Before[l] = t
      BY <1>4 DEF Rows
    <2>3. l = i
      BY <1>1, <2>1, <2>2
    <2>4. k < j
      BY <1>5, <2>1, <2>2, <2>3
    <2> QED  BY <1>4, <2>1, <2>2, <2>4 DEF Rows
  <1> QED  BY <1>6, <1>7, <1>8, <1>9, <1>10 DEF OrderOK

-----------------------------------------------------------------------------
(* Types. *)

USE DEF Has

LEMMA Copied ==
  ASSUME TypeOK, NEW w \in Workers, pc[w] \notin {"off", "polling"}
  PROVE  copy[w].task \in Tasks /\ copy[w].row \in Row /\ copy[w].task # None
  BY DEF TypeOK, Copies, Idle

LEMMA Operated ==
  ASSUME TypeOK, op # None
  PROVE  /\ op.kind \in Operations /\ op.task \in Tasks
         /\ op.row \in Row /\ op.saved \in BOOLEAN
  BY DEF TypeOK

\* The part of the types that is about workers.
WorkerTypeOK ==
    /\ pc \in [Workers -> {"off", "polling", "claimed", "starting",
                           "executing", "returned", "raised", "saving"}]
    /\ copy \in [Workers -> Copies]
    /\ \A v \in Workers : copy[v].task = None <=> pc[v] \in {"off", "polling"}
    /\ \A t \in Tasks : active[t] # None =>
          /\ copy[active[t]].task = t
          /\ pc[active[t]] \in {"executing", "returned", "raised"}

\* A worker that moves on and leaves the executions alone.
LEMMA WorkerMoves ==
  ASSUME TypeOK, NEW w \in Workers, NEW c \in Copies,
         NEW place \in {"off", "polling", "claimed", "starting", "saving"},
         pc' = [pc EXCEPT ![w] = place],
         copy' = [copy EXCEPT ![w] = c],
         c.task = None <=> place \in {"off", "polling"},
         \A t \in Tasks : active'[t] \in {active[t], None},
         active' \in [Tasks -> Workers \union {None}],
         \A t \in Tasks : active[t] = w => active'[t] = None
  PROVE  WorkerTypeOK'
  <1>1. \A v \in Workers : /\ pc'[v] = IF v = w THEN place ELSE pc[v]
                           /\ copy'[v] = IF v = w THEN c ELSE copy[v]
    BY DEF TypeOK
  <1>2. \A t \in Tasks : active'[t] # None => active'[t] = active[t] /\ active[t] # w
    OBVIOUS
  <1>3. \A t \in Tasks : active'[t] # None => active[t] \in Workers
    BY <1>2 DEF TypeOK
  <1>4. /\ pc' \in [Workers -> {"off", "polling", "claimed", "starting",
                                 "executing", "returned", "raised", "saving"}]
        /\ copy' \in [Workers -> Copies]
    BY DEF TypeOK
  <1>5. \A v \in Workers : copy'[v].task = None <=> pc'[v] \in {"off", "polling"}
    BY <1>1 DEF TypeOK
  <1>6. ASSUME NEW t \in Tasks, active'[t] # None
        PROVE  /\ copy'[active'[t]].task = t
               /\ pc'[active'[t]] \in {"executing", "returned", "raised"}
    <2>1. active'[t] = active[t] /\ active[t] \in Workers /\ active[t] # w /\ active[t] # None
      BY <1>2, <1>3, <1>6
    <2> QED  BY <1>1, <2>1 DEF TypeOK
  <1> QED  BY <1>4, <1>5, <1>6 DEF WorkerTypeOK

LEMMA ActiveIsExecuting ==
  ASSUME TypeOK, NEW w \in Workers, NEW t \in Tasks, active[t] = w
  PROVE  pc[w] \in {"executing", "returned", "raised"} /\ copy[w].task = t
  <1>1. w # None  BY QueueAssumption DEF QueueAssumption
  <1> QED  BY <1>1 DEF TypeOK

LEMMA ExitType ==
  ASSUME TypeOK, Exit
  PROVE  TypeOK'
  <1>1. OrderOK'  BY SameOrder DEF Exit
  <1>2. exits' \in Nat
    BY DEF TypeOK, Exit
  <1>3. Idle \in Copies /\ Idle.task = None
    BY DEF Copies, Idle
  <1> QED  BY <1>1, <1>2, <1>3 DEF TypeOK, Exit

LEMMA ConcludeType ==
  ASSUME TypeOK, NEW w \in Workers, NEW status \in Statuses,
         pc[w] \in {"executing", "returned", "raised"}, Conclude(w, status)
  PROVE  TypeOK'
  <1> DEFINE row == [copy[w].row EXCEPT !.status = status]
             c == [copy[w] EXCEPT !.row = row]
  <1>1. copy[w].task \in Tasks /\ copy[w].row \in Row /\ copy[w].task # None
    BY Copied
  <1>2. row \in Row
    BY <1>1 DEF Row
  <1>3. c \in Copies /\ c.task = copy[w].task /\ c.row = row
    BY <1>1, <1>2 DEF TypeOK, Copies, Idle
  <1>4. copy' = [copy EXCEPT ![w] = c]
    BY DEF Conclude
  <1>5. /\ active' \in [Tasks -> Workers \union {None}]
        /\ \A t \in Tasks : active'[t] = IF t = copy[w].task THEN None ELSE active[t]
    BY DEF Conclude, TypeOK
  <1>6. \A t \in Tasks : active[t] = w => t = copy[w].task
    BY ActiveIsExecuting
  <1>7. OrderOK'
    BY SameOrder DEF Conclude
  <1> HIDE DEF c
  <1>8. WorkerTypeOK'
    BY <1>1, <1>3, <1>4, <1>5, <1>6, WorkerMoves DEF Conclude, Goto
  <1> QED  BY <1>5, <1>7, <1>8 DEF TypeOK, WorkerTypeOK, Conclude, userVars

LEMMA TypeStep ==
  ASSUME TypeOK, ProcessInv, [Next]_vars
  PROVE  TypeOK'
  <1> USE DEF userVars, workerVars
  <1>1. CASE UNCHANGED vars
    BY <1>1, SameOrder DEF TypeOK, vars
  <1>2. CASE Restart
    BY <1>2, SameOrder DEF TypeOK, Restart
  <1>3. CASE Serve
    <2>1. OrderOK'  BY <1>3, SameOrder DEF Serve
    <2>2. \A w \in Workers : pc[w] = "off" /\ pc'[w] = "polling"
      BY <1>3 DEF ProcessInv, Serve
    <2>3. \A t \in Tasks : active[t] = None
      BY <2>2 DEF TypeOK
    <2>4. \A w \in Workers : copy'[w].task = None <=> pc'[w] \in {"off", "polling"}
      BY <1>3, <2>2 DEF TypeOK, Serve
    <2> QED  BY <1>3, <2>1, <2>3, <2>4 DEF TypeOK, Serve
  <1>4. CASE Stop
    BY <1>4, SameOrder DEF TypeOK, Stop
  <1>5. CASE Stopped \/ Crash
    BY <1>5, ExitType DEF Stopped, Crash
  <1>6. ASSUME NEW t \in Tasks, Recover(t)
        PROVE  TypeOK'
    <2>1. PICK row \in Row : Save(t, row)
      <3>1. db[t] \in Row
        BY <1>6 DEF Recover, TypeOK
      <3>2. \A status \in Statuses : \A n \in Nat :
              [db[t] EXCEPT !.status = status, !.interrupts = n] \in Row
        BY <3>1 DEF Row
      <3>3. \A status \in Statuses : [db[t] EXCEPT !.status = status] \in Row
        BY <3>1 DEF Row
      <3>4. db[t].interrupts + 1 \in Nat
        BY <3>1 DEF Row
      <3> QED  BY <1>6, <3>2, <3>3, <3>4 DEF Recover, Statuses
    <2> QED  BY <1>6, <2>1, Saves DEF TypeOK, Recover
  <1>7. ASSUME NEW w \in Workers, Worker(w)
        PROVE  TypeOK'
    <2>1. CASE Poll(w)
      <3>1. PICK t \in Tasks : Has(t, {"queued"}) /\ copy' = [copy EXCEPT ![w] =
                 [task |-> t, row |-> [db[t] EXCEPT !.status = "running"]]]
        BY <2>1 DEF Poll, Queued
      <3>2. [db[t] EXCEPT !.status = "running"] \in Row
        BY <3>1 DEF TypeOK, Row, Statuses
      <3> DEFINE c == [task |-> t, row |-> [db[t] EXCEPT !.status = "running"]]
      <3>3. c \in Copies /\ c.task # None
        BY <3>2, QueueAssumption DEF Copies, QueueAssumption
      <3>4. copy' = [copy EXCEPT ![w] = c]
        BY <3>1
      <3>5. \A u \in Tasks : active[u] # w
        BY <2>1, ActiveIsExecuting DEF Poll
      <3> HIDE DEF c
      <3>6. active' = active /\ active \in [Tasks -> Workers \union {None}]
        BY <2>1 DEF Poll, TypeOK
      <3>7. OrderOK'  BY <2>1, SameOrder DEF Poll
      <3>8. WorkerTypeOK'
        BY <2>1, <3>3, <3>4, <3>5, <3>6, WorkerMoves DEF Poll, Goto
      <3> QED  BY <2>1, <3>7, <3>8 DEF TypeOK, WorkerTypeOK, Poll
    <2>2. CASE MarkRunning(w)
      <3>1. copy[w].task \in Tasks /\ copy[w].row \in Row /\ copy[w].task # None
        BY <2>2, Copied DEF MarkRunning
      <3>2. copy' = [copy EXCEPT ![w] = copy[w]]
        BY <2>2 DEF MarkRunning, TypeOK
      <3>3. copy[w] \in Copies  BY DEF TypeOK
      <3>4. \A u \in Tasks : active[u] # w
        BY <2>2, ActiveIsExecuting DEF MarkRunning
      <3>5. active' = active /\ active \in [Tasks -> Workers \union {None}]
        BY <2>2 DEF MarkRunning, TypeOK
      <3>6. Save(copy[w].task, copy[w].row)
        BY <2>2 DEF MarkRunning
      <3>7. OrderOK' /\ db' \in [Tasks -> Row \union {None}]
        BY <3>1, <3>6, Saves
      <3>8. WorkerTypeOK'
        BY <2>2, <3>1, <3>2, <3>3, <3>4, <3>5, WorkerMoves DEF MarkRunning, Goto
      <3> QED  BY <2>2, <3>7, <3>8 DEF TypeOK, WorkerTypeOK, MarkRunning
    <2>3. CASE Execute(w)
      <3>1. copy[w].task \in Tasks /\ copy[w].task # None
        BY <2>3, Copied DEF Execute
      <3>2. /\ \A t \in Tasks : active'[t] = IF t = copy[w].task THEN w ELSE active[t]
            /\ \A v \in Workers : pc'[v] = IF v = w THEN "executing" ELSE pc[v]
        BY <2>3 DEF TypeOK, Execute, Goto
      <3>3. OrderOK'  BY <2>3, SameOrder DEF Execute
      <3> QED  BY <2>3, <3>1, <3>2, <3>3 DEF TypeOK, Execute, Goto
    <2>4. CASE ExecutorEnds(w)
      <3>1. \E place \in {"returned", "raised"} :
               /\ pc' = [pc EXCEPT ![w] = place]
               /\ \A v \in Workers : pc'[v] = IF v = w THEN place ELSE pc[v]
        BY <2>4 DEF TypeOK, ExecutorEnds, Goto
      <3>2. OrderOK'  BY <2>4, SameOrder DEF ExecutorEnds
      <3> QED  BY <2>4, <3>1, <3>2 DEF TypeOK, ExecutorEnds
    <2>5. CASE Completed(w) \/ Failed(w) \/ Paused(w)
      BY <2>5, ConcludeType DEF Completed, Failed, Paused, Statuses
    <2>6. CASE SaveOutcome(w) \/ WorkerEnds(w)
      <3>1. Idle \in Copies /\ Idle.task = None
        BY DEF Copies, Idle
      <3>2. \A u \in Tasks : active[u] # w
        BY <2>6, ActiveIsExecuting DEF SaveOutcome, WorkerEnds
      <3>3. PICK place \in {"off", "polling"} :
                pc' = [pc EXCEPT ![w] = place] /\ copy' = [copy EXCEPT ![w] = Idle]
        BY <2>6 DEF SaveOutcome, WorkerEnds, Goto
      <3>4. OrderOK' /\ db' \in [Tasks -> Row \union {None}]
        <4>1. CASE SaveOutcome(w)
          <5>1. copy[w].task \in Tasks /\ copy[w].row \in Row
            BY <4>1, Copied DEF SaveOutcome
          <5>2. Save(copy[w].task, copy[w].row)
            BY <4>1 DEF SaveOutcome
          <5> QED  BY <5>1, <5>2, Saves
        <4>2. CASE WorkerEnds(w)
          BY <4>2, SameOrder DEF WorkerEnds, TypeOK
        <4> QED  BY <2>6, <4>1, <4>2
      <3>5. active' = active /\ active \in [Tasks -> Workers \union {None}]
        BY <2>6 DEF SaveOutcome, WorkerEnds, TypeOK
      <3>6. WorkerTypeOK'
        BY <2>6, <3>1, <3>2, <3>3, <3>5, WorkerMoves
      <3> QED  BY <2>6, <3>4, <3>5, <3>6 DEF TypeOK, WorkerTypeOK, SaveOutcome, WorkerEnds
    <2> QED  BY <1>7, <2>1, <2>2, <2>3, <2>4, <2>5, <2>6 DEF Worker
  <1>8. ASSUME NEW t \in Tasks, Submit(t)
        PROVE  TypeOK'
    <2>1. OrderOK' /\ db' \in [Tasks -> Row \union {None}]
      BY <1>8, Saves, Fresh, SameOrder DEF Submit, TypeOK
    <2> QED  BY <1>8, <2>1 DEF TypeOK, Submit
  <1>9. ASSUME NEW kind \in Operations, NEW t \in Tasks, Load(kind, t)
        PROVE  TypeOK'
    <2>1. Changed(kind, db[t]) \in Row
      <3>1. db[t] \in Row /\ kind \in {"cancel", "retry", "checkpoint"}
        BY <1>9, QueueAssumption DEF Load, TypeOK, QueueAssumption
      <3>2. CASE kind = "cancel"
        BY <3>1, <3>2 DEF Changed, Row, Statuses
      <3>3. CASE kind = "retry"
        <4>1. \A n \in Nat : [db[t] EXCEPT !.status = "queued", !.retries = n] \in Row
          BY <3>1 DEF Row, Statuses
        <4>2. db[t].retries + 1 \in Nat
          BY <3>1 DEF Row
        <4> QED  BY <3>3, <4>1, <4>2 DEF Changed
      <3>4. CASE kind = "checkpoint"
        BY <3>1, <3>4 DEF Changed, Row, Statuses
      <3> QED  BY <3>1, <3>2, <3>3, <3>4
    <2>2. op' \in [kind : Operations, task : Tasks, row : Row, saved : BOOLEAN]
      BY <1>9, <2>1 DEF Load
    <2>3. OrderOK'  BY <1>9, SameOrder DEF Load
    <2> QED  BY <1>9, <2>2, <2>3 DEF TypeOK, Load
  <1>10. CASE SaveChange
    <2>1. op.task \in Tasks /\ op.row \in Row
      BY <1>10, Operated DEF SaveChange
    <2>2. OrderOK' /\ db' \in [Tasks -> Row \union {None}]
      BY <1>10, <2>1, Saves DEF SaveChange
    <2>3. op' \in {None} \union [kind : Operations, task : Tasks, row : Row, saved : BOOLEAN]
      BY <1>10 DEF SaveChange, TypeOK
    <2> QED  BY <1>10, <2>2, <2>3 DEF TypeOK, SaveChange
  <1>11. CASE Signal
    <2>1. op.task \in Tasks
      BY <1>11, Operated DEF Signal
    <2>2. cancelled' \subseteq Workers
      BY <1>11, <2>1 DEF Signal, TypeOK
    <2>3. OrderOK'  BY <1>11, SameOrder DEF Signal
    <2> QED  BY <1>11, <2>2, <2>3 DEF TypeOK, Signal
  <1>12. CASE Cleanup
    <2>1. OrderOK' /\ db' \in [Tasks -> Row \union {None}]
      BY <1>12, Cleans
    <2> QED  BY <1>12, <2>1 DEF TypeOK, Cleanup
  <1> QED  BY <1>1, <1>2, <1>3, <1>4, <1>5, <1>6, <1>7, <1>8, <1>9, <1>10, <1>11, <1>12 DEF Next

LEMMA ProcessStep ==
  ASSUME TypeOK, ProcessInv, [Next]_vars
  PROVE  ProcessInv'
  <1> USE DEF ProcessInv, userVars, workerVars
  <1>1. CASE UNCHANGED vars
    BY <1>1 DEF vars
  <1>2. CASE Restart \/ Serve \/ Stop
    BY <1>2 DEF Restart, Serve, Stop
  <1>3. CASE Stopped \/ Crash
    BY <1>3 DEF Stopped, Crash, Exit
  <1>4. ASSUME NEW t \in Tasks, Recover(t)
        PROVE  ProcessInv'
    BY <1>4 DEF Recover
  <1>5. ASSUME NEW w \in Workers, Worker(w)
        PROVE  ProcessInv'
    <2>1. pc[w] # "off" /\ phase' = phase /\ op' = op
      BY <1>5 DEF Worker, Poll, MarkRunning, Execute, ExecutorEnds, Completed,
                  Failed, Paused, Conclude, SaveOutcome, WorkerEnds
    <2>2. phase \notin {"down", "recovering"}
      BY <2>1
    <2> QED  BY <2>1, <2>2
  <1>6. ASSUME NEW t \in Tasks, Submit(t)
        PROVE  ProcessInv'
    BY <1>6 DEF Submit
  <1>7. ASSUME NEW kind \in Operations, NEW t \in Tasks, Load(kind, t)
        PROVE  ProcessInv'
    BY <1>7 DEF Load
  <1>8. CASE SaveChange \/ Signal \/ Cleanup
    BY <1>8 DEF SaveChange, Signal, Cleanup
  <1> QED  BY <1>1, <1>2, <1>3, <1>4, <1>5, <1>6, <1>7, <1>8 DEF Next

LEMMA Start ==
  ASSUME Init
  PROVE  TypeOK /\ ProcessInv
  <1>1. OrderOK  BY FirstOrder
  <1>2. db \in [Tasks -> Row \union {None}]
    BY Fresh DEF Init
  <1> QED  BY <1>1, <1>2 DEF Init, TypeOK, ProcessInv, Copies, Idle

(***************************************************************************)
(* The worker, the operation and _active_tasks stay typed, and updated_at  *)
(* stays a strict total order of the rows, through every write and crash.  *)
(***************************************************************************)
THEOREM TypeCorrect == Spec => []TypeOK
  <1>1. Init => TypeOK /\ ProcessInv
    BY Start
  <1>2. TypeOK /\ ProcessInv /\ [Next]_vars => TypeOK' /\ ProcessInv'
    BY TypeStep, ProcessStep
  <1> QED  BY <1>1, <1>2, PTL DEF Spec

-----------------------------------------------------------------------------
(* What each action does to the table, to what is in hand, and to the       *)
(* operation: all that the invariants below are about.                     *)

\* Worker w's row goes into the table.
Writes(w) ==
    /\ pc[w] \in {"claimed", "saving"}
    /\ copy[w].task \in Tasks /\ copy[w].row \in Row
    /\ db' \in [Tasks -> Row \union {None}]
    /\ db'[copy[w].task] = copy[w].row /\ copy[w].row # None
    /\ \A t \in Tasks \ {copy[w].task} : db'[t] = db[t]

LEMMA WorkerWrites ==
  ASSUME TypeOK, NEW w \in Workers, MarkRunning(w) \/ SaveOutcome(w)
  PROVE  Writes(w)
  <1>1. pc[w] \in {"claimed", "saving"} /\ Save(copy[w].task, copy[w].row)
    BY DEF MarkRunning, SaveOutcome
  <1>2. copy[w].task \in Tasks /\ copy[w].row \in Row
    BY <1>1, Copied
  <1>3. copy[w].row # None
    BY <1>2, QueueAssumption DEF QueueAssumption
  <1> QED  BY <1>1, <1>2, <1>3, Saves DEF Writes

-----------------------------------------------------------------------------
(* Interruptions. *)

LEMMA CountStep ==
  ASSUME TypeOK, ProcessInv, CountInv, [Next]_vars
  PROVE  CountInv'
  <1> USE DEF CountInv, InterruptsAreExits, userVars, workerVars
  <1>a. exits \in Nat
    BY DEF TypeOK
  <1>b. \A t \in Tasks : db[t] # None => db[t].interrupts \in Nat
    BY DEF TypeOK, Row
  <1>1. CASE UNCHANGED vars
    BY <1>1 DEF vars
  <1>2. CASE Restart \/ Serve \/ Stop
    BY <1>2 DEF Restart, Serve, Stop
  <1>3. CASE Stopped \/ Crash
    <2>1. /\ exits' = exits + 1 /\ db' = db /\ op' = None
          /\ \A w \in Workers : copy'[w].task = None
      BY <1>3 DEF Stopped, Crash, Exit, Idle
    <2> QED  BY <1>a, <1>b, <2>1
  <1>4. ASSUME NEW t \in Tasks, Recover(t)
        PROVE  CountInv'
    <2>1. db[t] \in Row /\ phase = "recovering" /\ phase' = phase
      BY <1>4 DEF Recover, TypeOK
    <2>2. PICK row \in Row : /\ Save(t, row)
                             /\ row.status # "running"
                             /\ row.interrupts <= exits
      <3>1. CASE db[t].status = "running"
        <4> DEFINE n == db[t].interrupts + 1
                   status == IF n <= MaxInterrupts THEN "queued" ELSE "failed"
                   row == [db[t] EXCEPT !.status = status, !.interrupts = n]
        <4>1. n <= exits /\ n \in Nat
          BY <1>a, <1>b, <2>1, <3>1, <1>4 DEF Recover
        <4>2. Save(t, row)
          BY <1>4, <3>1 DEF Recover
        <4>3. status \in {"queued", "failed"}
          OBVIOUS
        <4> HIDE DEF n, status
        <4>4. row \in Row /\ row.status = status /\ row.interrupts = n
          BY <2>1, <4>1, <4>3 DEF Row, Statuses
        <4> QED  BY <4>1, <4>2, <4>3, <4>4
      <3>2. CASE db[t].status = "paused"
        <4>1. LET r == [db[t] EXCEPT !.status = "queued"]
              IN  r \in Row /\ r.status = "queued" /\ r.interrupts = db[t].interrupts
          BY <2>1 DEF Row, Statuses
        <4> QED  BY <1>4, <3>2, <4>1 DEF Recover
      <3> QED  BY <1>4, <3>1, <3>2 DEF Recover
    <2>3. db'[t] = row /\ \A u \in Tasks \ {t} : db'[u] = db[u]
      BY <2>2, Saves
    <2>4. copy' = copy /\ op' = op /\ exits' = exits
      BY <1>4 DEF Recover
    <2> QED  BY <2>1, <2>2, <2>3, <2>4
  <1>5. ASSUME NEW w \in Workers, Worker(w)
        PROVE  CountInv'
    <2>1. phase' = phase /\ op' = op /\ exits' = exits /\ phase \notin {"down", "recovering"}
      <3>1. pc[w] # "off" /\ phase' = phase /\ op' = op /\ exits' = exits
        BY <1>5 DEF Worker, Poll, MarkRunning, Execute, ExecutorEnds, Completed,
                    Failed, Paused, Conclude, SaveOutcome, WorkerEnds
      <3> QED  BY <3>1 DEF ProcessInv
    <2>2. \A t \in Tasks : db'[t] # None => db'[t].interrupts <= exits
      <3>1. CASE MarkRunning(w) \/ SaveOutcome(w)
        <4>1. Writes(w)  BY <3>1, WorkerWrites
        <4>2. copy[w].row.interrupts <= exits
          BY <4>1, Copied DEF Writes
        <4> QED  BY <4>1, <4>2 DEF Writes
      <3>2. CASE db' = db
        BY <3>2
      <3> QED  BY <1>5, <3>1, <3>2 DEF Worker, Poll, Execute, ExecutorEnds, Completed,
                    Failed, Paused, Conclude, WorkerEnds
    <2>3. \A v \in Workers : copy'[v].task # None => copy'[v].row.interrupts <= exits
      <3>1. CASE Poll(w)
        <4>1. PICK t \in Tasks : Has(t, {"queued"}) /\ copy' = [copy EXCEPT ![w] =
                 [task |-> t, row |-> [db[t] EXCEPT !.status = "running"]]]
          BY <3>1 DEF Poll, Queued
        <4>2. [db[t] EXCEPT !.status = "running"].interrupts <= exits
          BY <4>1 DEF TypeOK, Row
        <4> QED  BY <4>1, <4>2 DEF TypeOK
      <3>2. CASE Completed(w) \/ Failed(w) \/ Paused(w)
        <4>1. PICK status \in Statuses : Conclude(w, status)
          BY <3>2 DEF Completed, Failed, Paused, Statuses
        <4>2. copy[w].row \in Row /\ copy[w].task \in Tasks /\ copy[w].task # None
          BY <3>2, Copied DEF Completed, Failed, Paused
        <4>3. /\ copy'[w].row = [copy[w].row EXCEPT !.status = status]
              /\ \A v \in Workers \ {w} : copy'[v] = copy[v]
          BY <4>1, <4>2 DEF Conclude, TypeOK, Copies, Idle
        <4>4. copy'[w].row.interrupts = copy[w].row.interrupts
          BY <4>2, <4>3 DEF Row
        <4> QED  BY <4>2, <4>3, <4>4
      <3>3. CASE SaveOutcome(w) \/ WorkerEnds(w)
        BY <3>3 DEF SaveOutcome, WorkerEnds, Idle, TypeOK
      <3>4. CASE copy' = copy
        BY <3>4
      <3> QED  BY <1>5, <3>1, <3>2, <3>3, <3>4 DEF Worker, MarkRunning, Execute, ExecutorEnds
    <2> QED  BY <2>1, <2>2, <2>3
  <1>6. ASSUME NEW t \in Tasks, Submit(t)
        PROVE  CountInv'
    <2>1. \/ db'[t] = FreshRow /\ \A u \in Tasks \ {t} : db'[u] = db[u]
          \/ db' = db
      BY <1>6, Fresh, Saves DEF Submit
    <2>2. phase' = phase /\ op' = op /\ exits' = exits /\ copy' = copy /\ phase = "serving"
      BY <1>6 DEF Submit
    <2>3. FreshRow.interrupts = 0
      BY DEF FreshRow
    <2> QED  BY <1>a, <2>1, <2>2, <2>3
  <1>7. ASSUME NEW kind \in Operations, NEW t \in Tasks, Load(kind, t)
        PROVE  CountInv'
    <2>1. db[t] \in Row /\ kind \in {"cancel", "retry", "checkpoint"}
      BY <1>7, QueueAssumption DEF Load, TypeOK, QueueAssumption
    <2>2. Changed(kind, db[t]).interrupts = db[t].interrupts
      BY <2>1 DEF Changed, Row
    <2>3. op'.row = Changed(kind, db[t])
      BY <1>7 DEF Load
    <2> QED  BY <1>7, <2>1, <2>2, <2>3 DEF Load
  <1>8. CASE SaveChange
    <2>1. op.task \in Tasks /\ op.row \in Row /\ Save(op.task, op.row)
      BY <1>8, Operated DEF SaveChange
    <2>2. db'[op.task] = op.row /\ \A u \in Tasks \ {op.task} : db'[u] = db[u]
      BY <2>1, Saves
    <2>3. op' # None => op'.row = op.row
      BY <1>8 DEF SaveChange, TypeOK
    <2>4. /\ phase' = phase /\ exits' = exits /\ copy' = copy
          /\ phase = "serving" /\ op.row.interrupts <= exits
      BY <1>8 DEF SaveChange, ProcessInv
    <2> QED  BY <2>1, <2>2, <2>3, <2>4
  <1>9. CASE Signal
    BY <1>9 DEF Signal
  <1>10. CASE Cleanup
    <2>1. \A t \in Tasks : db'[t] \in {db[t], None}
      BY <1>10, Cleans
    <2> QED  BY <1>10, <2>1 DEF Cleanup
  <1> QED  BY <1>1, <1>2, <1>3, <1>4, <1>5, <1>6, <1>7, <1>8, <1>9, <1>10 DEF Next

(***************************************************************************)
(* No retry, failure, cancel or checkpoint is ever counted as an           *)
(* interruption: each one is an end of the process of its own, for any     *)
(* number of workers and all the operations.                               *)
(***************************************************************************)
THEOREM CountsAreExits == Spec => []InterruptsAreExits
  <1>1. Init => TypeOK /\ ProcessInv /\ CountInv
    <2>1. Init => CountInv
      BY DEF Init, CountInv, InterruptsAreExits, FreshRow, Idle
    <2> QED  BY <2>1, Start
  <1>2. TypeOK /\ ProcessInv /\ CountInv /\ [Next]_vars =>
            TypeOK' /\ ProcessInv' /\ CountInv'
    BY TypeStep, ProcessStep, CountStep
  <1>3. CountInv => InterruptsAreExits
    BY DEF CountInv
  <1> QED  BY <1>1, <1>2, <1>3, PTL DEF Spec

-----------------------------------------------------------------------------
(* Rows that say "running". *)

LEMMA LoadedRow ==
  ASSUME TypeOK, NoCheckpoints, NEW kind \in Operations, NEW t \in Tasks, Load(kind, t)
  PROVE  /\ op' = [kind |-> kind, task |-> t, row |-> Changed(kind, db[t]), saved |-> FALSE]
         /\ db[t] \in Row /\ kind \in {"cancel", "retry"}
         /\ kind = "cancel" =>
              /\ Changed(kind, db[t]).status = "cancelled"
              /\ Changed(kind, db[t]).retries = db[t].retries
         /\ kind = "retry" =>
              /\ Changed(kind, db[t]).status = "queued"
              /\ Changed(kind, db[t]).retries = db[t].retries + 1
         /\ UNCHANGED <<db, phase, pc, copy>>
  <1>1. db[t] \in Row /\ kind \in {"cancel", "retry"}
    BY QueueAssumption DEF Load, TypeOK, QueueAssumption, NoCheckpoints
  <1>2. CASE kind = "cancel"
    BY <1>1, <1>2 DEF Load, Changed, Row, workerVars
  <1>3. CASE kind = "retry"
    BY <1>1, <1>3 DEF Load, Changed, Row, workerVars
  <1> QED  BY <1>1, <1>2, <1>3

LEMMA Concluded ==
  ASSUME TypeOK, NEW w \in Workers, Completed(w) \/ Failed(w) \/ Paused(w)
  PROVE  /\ pc[w] \in {"executing", "returned", "raised"}
         /\ \A v \in Workers : pc'[v] = IF v = w THEN "saving" ELSE pc[v]
         /\ \A v \in Workers \ {w} : copy'[v] = copy[v]
         /\ copy'[w].task = copy[w].task /\ copy[w].task \in Tasks
         /\ copy[w].row \in Row /\ copy'[w].row \in Row
         /\ copy'[w].row.status \in {"completed", "failed", "paused"}
         /\ copy'[w].row.retries = copy[w].row.retries
         /\ UNCHANGED <<db, phase, op>>
  <1>1. PICK status \in {"completed", "failed", "paused"} : Conclude(w, status)
    BY DEF Completed, Failed, Paused
  <1>2. pc[w] \in {"executing", "returned", "raised"}
    BY DEF Completed, Failed, Paused
  <1>3. copy[w].task \in Tasks /\ copy[w].row \in Row /\ copy[w].task # None
    BY <1>2, Copied
  <1>4. /\ copy'[w].task = copy[w].task
        /\ copy'[w].row = [copy[w].row EXCEPT !.status = status]
        /\ \A v \in Workers \ {w} : copy'[v] = copy[v]
    BY <1>1, <1>3 DEF Conclude, TypeOK, Copies, Idle
  <1>5. copy'[w].row \in Row /\ copy'[w].row.status = status
        /\ copy'[w].row.retries = copy[w].row.retries
    BY <1>3, <1>4 DEF Row, Statuses
  <1>6. /\ \A v \in Workers : pc'[v] = IF v = w THEN "saving" ELSE pc[v]
        /\ UNCHANGED <<db, phase, op>>
    BY <1>1 DEF Conclude, Goto, TypeOK, userVars
  <1> QED  BY <1>1, <1>2, <1>3, <1>4, <1>5, <1>6

LEMMA HeldStep ==
  ASSUME TypeOK, ProcessInv, NoCheckpoints, HeldInv, [Next]_vars
  PROVE  HeldInv'
  <1> USE DEF HeldInv, RunningIsHeld, userVars, workerVars
  <1>1. CASE UNCHANGED vars
    BY <1>1 DEF vars
  <1>2. CASE Restart \/ Serve \/ Stop
    BY <1>2 DEF Restart, Serve, Stop, ProcessInv, TypeOK
  <1>3. CASE Stopped \/ Crash
    BY <1>3 DEF Stopped, Crash, Exit
  <1>4. ASSUME NEW t \in Tasks, Recover(t)
        PROVE  HeldInv'
    BY <1>4 DEF Recover
  <1>5. ASSUME NEW w \in Workers, Poll(w)
        PROVE  HeldInv'
    <2>1. copy[w].task = None
      BY <1>5 DEF Poll, TypeOK
    <2>2. /\ \A v \in Workers \ {w} : copy'[v] = copy[v] /\ pc'[v] = pc[v]
          /\ pc'[w] = "claimed" /\ UNCHANGED <<db, phase, op>>
      BY <1>5 DEF Poll, Goto, TypeOK
    <2>3. \A t \in Tasks : t # None
      BY QueueAssumption DEF QueueAssumption
    <2>4. RunningIsHeld'
      <3> SUFFICES ASSUME NEW t \in Tasks, phase' = "serving", Has(t, {"running"})'
                   PROVE  \E v \in Workers : copy'[v].task = t
        OBVIOUS
      <3>1. PICK v \in Workers : copy[v].task = t
        BY <2>2
      <3>2. v # w
        BY <2>1, <2>3, <3>1
      <3> QED  BY <2>2, <3>1, <3>2
    <2> QED  BY <2>2, <2>4
  <1>6. ASSUME NEW w \in Workers, MarkRunning(w)
        PROVE  HeldInv'
    <2>1. Writes(w)  BY <1>6, WorkerWrites
    <2>2. /\ UNCHANGED <<copy, phase, op>>
          /\ \A v \in Workers : pc'[v] = IF v = w THEN "starting" ELSE pc[v]
      BY <1>6 DEF MarkRunning, Goto, TypeOK
    <2> QED  BY <2>1, <2>2 DEF Writes
  <1>7. ASSUME NEW w \in Workers, Execute(w) \/ ExecutorEnds(w)
        PROVE  HeldInv'
    BY <1>7 DEF Execute, ExecutorEnds, Goto, TypeOK
  <1>8. ASSUME NEW w \in Workers, Completed(w) \/ Failed(w) \/ Paused(w)
        PROVE  HeldInv'
    <2>1. \A v \in Workers : copy'[v].task = copy[v].task
      BY <1>8, Concluded
    <2>2. RunningIsHeld'
      BY <1>8, <2>1, Concluded
    <2> QED  BY <1>8, <2>2, Concluded
  <1>9. ASSUME NEW w \in Workers, SaveOutcome(w)
        PROVE  HeldInv'
    <2>1. Writes(w)  BY <1>9, WorkerWrites
    <2>2. /\ UNCHANGED <<phase, op>>
          /\ pc[w] = "saving" /\ pc'[w] # "saving"
          /\ \A v \in Workers \ {w} : copy'[v] = copy[v] /\ pc'[v] = pc[v]
      BY <1>9 DEF SaveOutcome, Goto, TypeOK
    <2>3. RunningIsHeld'
      <3> SUFFICES ASSUME NEW t \in Tasks, phase' = "serving", Has(t, {"running"})'
                   PROVE  \E v \in Workers : copy'[v].task = t
        OBVIOUS
      <3>1. t # copy[w].task /\ db'[t] = db[t]
        BY <2>1, <2>2 DEF Writes
      <3> QED  BY <2>2, <3>1
    <2> QED  BY <2>2, <2>3
  <1>10. ASSUME NEW w \in Workers, WorkerEnds(w)
        PROVE  HeldInv'
    BY <1>10 DEF WorkerEnds, Goto, TypeOK
  <1>11. ASSUME NEW t \in Tasks, Submit(t)
         PROVE  HeldInv'
    <2>1. \/ db'[t] = FreshRow /\ \A u \in Tasks \ {t} : db'[u] = db[u]
          \/ db' = db
      BY <1>11, Fresh, Saves DEF Submit
    <2> QED  BY <1>11, <2>1 DEF Submit, FreshRow
  <1>12. ASSUME NEW kind \in Operations, NEW t \in Tasks, Load(kind, t)
         PROVE  HeldInv'
    BY <1>12, LoadedRow
  <1>13. CASE SaveChange
    <2>1. op.task \in Tasks /\ op.row \in Row /\ Save(op.task, op.row) /\ op # None
      BY <1>13, Operated DEF SaveChange
    <2>2. db'[op.task] = op.row /\ \A u \in Tasks \ {op.task} : db'[u] = db[u]
      BY <2>1, Saves
    <2>3. op' # None => op'.row = op.row
      BY <1>13 DEF SaveChange, TypeOK
    <2>4. UNCHANGED <<phase, copy, pc>>
      BY <1>13 DEF SaveChange
    <2> QED  BY <2>1, <2>2, <2>3, <2>4
  <1>14. CASE Signal
    BY <1>14 DEF Signal
  <1>15. CASE Cleanup
    <2>1. \A t \in Tasks : db'[t] \in {db[t], None}
      BY <1>15, Cleans
    <2> QED  BY <1>15, <2>1 DEF Cleanup
  <1> QED  BY <1>1, <1>2, <1>3, <1>4, <1>5, <1>6, <1>7, <1>8, <1>9, <1>10, <1>11,
              <1>12, <1>13, <1>14, <1>15 DEF Next, Worker

(***************************************************************************)
(* A row that says "running" has a worker to finish it, for any number of  *)
(* workers: also when several have claimed one task.                       *)
(***************************************************************************)
THEOREM RunningHasAWorker ==
  ASSUME NoCheckpoints
  PROVE  Spec => []RunningIsHeld
  <1>1. Init => TypeOK /\ ProcessInv /\ HeldInv
    <2>1. Init => HeldInv
      BY DEF Init, HeldInv, RunningIsHeld
    <2> QED  BY <2>1, Start
  <1>2. TypeOK /\ ProcessInv /\ HeldInv /\ [Next]_vars =>
            TypeOK' /\ ProcessInv' /\ HeldInv'
    BY TypeStep, ProcessStep, HeldStep
  <1>3. HeldInv => RunningIsHeld
    BY DEF HeldInv
  <1> QED  BY <1>1, <1>2, <1>3, PTL DEF Spec

-----------------------------------------------------------------------------
(* What is in hand. *)

LEMMA Counts ==
  ASSUME TypeOK
  PROVE  /\ \A t \in Tasks : db[t] # None => db[t].retries \in Nat
         /\ \A w \in Workers : copy[w].task # None =>
              copy[w].task \in Tasks /\ copy[w].row.retries \in Nat
         /\ op # None => op.task \in Tasks /\ op.row.retries \in Nat
  BY Operated DEF TypeOK, Copies, Row, Idle

LEMMA SyncStep ==
  ASSUME TypeOK, ProcessInv, NoCheckpoints, OneWorker, SyncInv, [Next]_vars
  PROVE  /\ SyncInv'
         /\ \A t \in Tasks : Has(t, {"completed"}) =>
              \/ db'[t] = None
              \/ db'[t].status \in {"completed", "cancelled"}
              \/ db'[t].retries > db[t].retries
  <1> DEFINE Goal == /\ OperationInv'
                     /\ \A w \in Workers : WorkerInv(w)'
                     /\ \A t \in Tasks : Has(t, {"completed"}) =>
                          \/ db'[t] = None
                          \/ db'[t].status \in {"completed", "cancelled"}
                          \/ db'[t].retries > db[t].retries
  <1> USE DEF SyncInv, OperationInv, WorkerInv, InHand, userVars, workerVars
  <1>1. CASE UNCHANGED vars
    BY <1>1 DEF vars
  <1>2. CASE Restart \/ Stop
    BY <1>2 DEF Restart, Stop
  <1>3. CASE Serve
    <2>1. \A w \in Workers : copy[w].task = None
      BY <1>3 DEF ProcessInv, Serve, TypeOK
    <2> QED  BY <1>3, <2>1 DEF Serve
  <1>4. CASE Stopped \/ Crash
    BY <1>4 DEF Stopped, Crash, Exit, Idle
  <1>5. ASSUME NEW t \in Tasks, Recover(t)
        PROVE  Goal
    <2>1. op = None /\ \A w \in Workers : copy[w].task = None
      BY <1>5 DEF ProcessInv, Recover, TypeOK
    <2>2. \A u \in Tasks \ {t} : db'[u] = db[u]
      BY <1>5 DEF Recover, Save, TypeOK
    <2> QED  BY <1>5, <2>1, <2>2 DEF Recover
  <1>6. ASSUME NEW w \in Workers, Poll(w)
        PROVE  Goal
    <2>1. PICK t \in Tasks : Has(t, {"queued"}) /\ copy' = [copy EXCEPT ![w] =
               [task |-> t, row |-> [db[t] EXCEPT !.status = "running"]]]
      BY <1>6 DEF Poll, Queued
    <2>2. /\ copy'[w].task = t
          /\ copy'[w].row.status = "running" /\ copy'[w].row.retries = db[t].retries
      BY <2>1 DEF TypeOK, Row
    <2>3. pc'[w] = "claimed" /\ UNCHANGED <<db, op>>
      BY <1>6 DEF Poll, Goto, TypeOK
    <2>4. \A v \in Workers : v = w
      BY DEF OneWorker
    <2>5. db[t].retries \in Nat /\ db[t].status = "queued"
      BY <2>1, Counts
    <2> QED  BY <2>1, <2>2, <2>3, <2>4, <2>5
  <1>7. ASSUME NEW w \in Workers, MarkRunning(w)
        PROVE  Goal
    <2>1. Writes(w)  BY <1>7, WorkerWrites
    <2>2. pc[w] = "claimed" /\ pc'[w] = "starting" /\ UNCHANGED <<copy, op>>
      BY <1>7 DEF MarkRunning, Goto, TypeOK
    <2>3. \A v \in Workers : v = w
      BY DEF OneWorker
    <2>4. copy[w].task # None
      BY <2>2, Copied
    <2>5. copy[w].row.retries \in Nat /\ copy[w].row.status = "running"
      BY <2>2, <2>4, Counts
    <2>6. WorkerInv(w)'
      BY <2>1, <2>2, <2>4, <2>5 DEF Writes
    <2>7. OperationInv'
      BY <2>1, <2>2, <2>4, Counts DEF Writes
    <2>8. \A t \in Tasks : Has(t, {"completed"}) => db'[t] = db[t]
      BY <2>1, <2>4 DEF Writes
    <2> QED  BY <2>3, <2>6, <2>7, <2>8
  <1>8. ASSUME NEW w \in Workers, Execute(w) \/ ExecutorEnds(w)
        PROVE  Goal
    BY <1>8 DEF Execute, ExecutorEnds, Goto, TypeOK
  <1>9. ASSUME NEW w \in Workers, Completed(w) \/ Failed(w) \/ Paused(w)
        PROVE  Goal
    <2>1. \A v \in Workers : v = w
      BY DEF OneWorker
    <2>2. WorkerInv(w)'
      BY <1>9, Concluded
    <2> QED  BY <1>9, <2>1, <2>2, Concluded
  <1>10. ASSUME NEW w \in Workers, SaveOutcome(w)
         PROVE  Goal
    <2>1. Writes(w)  BY <1>10, WorkerWrites
    <2>2. /\ pc[w] = "saving" /\ op' = op
          /\ \A v \in Workers : copy'[v].task = None
      BY <1>10 DEF SaveOutcome, Idle, TypeOK, OneWorker
    <2>3. copy[w].task # None
      BY <2>2, Copied
    <2>4. OperationInv'
      BY <2>1, <2>2, <2>3, Counts DEF Writes
    <2>5. \A t \in Tasks : Has(t, {"completed"}) => db'[t] = db[t]
      BY <2>1, <2>3 DEF Writes
    <2> QED  BY <2>2, <2>4, <2>5
  <1>11. ASSUME NEW w \in Workers, WorkerEnds(w)
         PROVE  Goal
    BY <1>11 DEF WorkerEnds, Idle, TypeOK, OneWorker
  <1>12. ASSUME NEW t \in Tasks, Submit(t)
         PROVE  Goal
    <2>1. /\ db[t] = None /\ (op # None => op.task # t)
          /\ \A w \in Workers : copy[w].task # t
          /\ UNCHANGED <<pc, copy, op>>
          /\ \A u \in Tasks \ {t} : db'[u] = db[u]
      BY <1>12, Fresh, Saves DEF Submit
    <2>2. OperationInv'
      BY <2>1, Counts
    <2>3. \A w \in Workers : WorkerInv(w)'
      BY <2>1, Counts
    <2> QED  BY <2>1, <2>2, <2>3
  <1>13. ASSUME NEW kind \in Operations, NEW t \in Tasks, Load(kind, t)
         PROVE  Goal
    <2>1. /\ db[t] # None /\ db[t].retries \in Nat
          /\ op'.kind = kind /\ op'.task = t /\ op'.row = Changed(kind, db[t])
      BY <1>13, LoadedRow, Counts DEF Load
    <2>2. OperationInv'
      BY <1>13, <2>1, LoadedRow
    <2>3. \A w \in Workers : WorkerInv(w)'
      BY <1>13, <2>1, LoadedRow, Counts
    <2> QED  BY <1>13, <2>2, <2>3, LoadedRow
  <1>14. CASE SaveChange
    <2>1. op.task \in Tasks /\ op.row \in Row /\ Save(op.task, op.row) /\ op # None
      BY <1>14, Operated DEF SaveChange
    <2>2. db'[op.task] = op.row /\ \A u \in Tasks \ {op.task} : db'[u] = db[u]
      BY <2>1, Saves
    <2>3. \/ op' = None
          \/ op.kind = "cancel" /\ op'.kind = op.kind /\ op'.task = op.task /\ op'.row = op.row
      BY <1>14 DEF SaveChange, TypeOK
    <2>4. UNCHANGED <<copy, pc>>
      BY <1>14 DEF SaveChange
    <2>5. op.row.status = "cancelled" \/ op.kind = "retry"
      BY <2>1
    <2>6. OperationInv'
      BY <2>1, <2>2, <2>3, Counts
    <2>7. ASSUME NEW w \in Workers
          PROVE  WorkerInv(w)'
      <3>1. CASE copy[w].task = op.task
        BY <2>1, <2>2, <2>3, <2>4, <2>5, <3>1, Counts
      <3>2. CASE copy[w].task # op.task
        BY <2>1, <2>2, <2>3, <2>4, <3>2, Counts
      <3> QED  BY <3>1, <3>2
    <2>8. \A t \in Tasks : Has(t, {"completed"}) =>
              \/ db'[t].status \in {"completed", "cancelled"}
              \/ db'[t].retries > db[t].retries
      BY <2>1, <2>2, <2>5
    <2> QED  BY <2>6, <2>7, <2>8
  <1>15. CASE Signal
    BY <1>15 DEF Signal
  <1>16. CASE Cleanup
    <2>1. \A t \in Tasks : db'[t] \in {db[t], None}
      BY <1>16, Cleans
    <2>2. UNCHANGED <<pc, copy, op>>
      BY <1>16 DEF Cleanup
    <2>3. OperationInv'
      BY <2>1, <2>2, Counts
    <2>4. \A w \in Workers : WorkerInv(w)'
      BY <2>1, <2>2, Counts
    <2> QED  BY <2>1, <2>3, <2>4
  <1> QED  BY <1>1, <1>2, <1>3, <1>4, <1>5, <1>6, <1>7, <1>8, <1>9, <1>10, <1>11,
              <1>12, <1>13, <1>14, <1>15, <1>16 DEF Next, Worker

LEMMA SyncInvariant ==
  ASSUME NoCheckpoints, OneWorker
  PROVE  Spec => [](TypeOK /\ ProcessInv /\ SyncInv)
  <1>1. Init => TypeOK /\ ProcessInv /\ SyncInv
    <2>1. Init => SyncInv
      BY DEF Init, SyncInv, OperationInv, WorkerInv, Idle
    <2> QED  BY <2>1, Start
  <1>2. TypeOK /\ ProcessInv /\ SyncInv /\ [Next]_vars =>
            TypeOK' /\ ProcessInv' /\ SyncInv'
    BY TypeStep, ProcessStep, SyncStep
  <1> QED  BY <1>1, <1>2, PTL DEF Spec

(***************************************************************************)
(* With one worker, the row it is going to write back is the row in the    *)
(* table, unless a user has cancelled, retried or removed the task since.  *)
(***************************************************************************)
THEOREM TheCopyIsCurrent ==
  ASSUME NoCheckpoints, OneWorker
  PROVE  Spec => []CopyIsCurrent
  <1>1. TypeOK /\ SyncInv => CopyIsCurrent
    <2> SUFFICES ASSUME TypeOK, SyncInv, NEW w \in Workers,
                        pc[w] \in {"starting", "executing", "returned", "raised"}
                 PROVE  \/ db[copy[w].task] \in {copy[w].row, None}
                        \/ db[copy[w].task].status = "cancelled"
                        \/ db[copy[w].task].retries > copy[w].row.retries
      BY DEF CopyIsCurrent
    <2> QED  BY Copied DEF SyncInv, WorkerInv
  <1> QED  BY <1>1, SyncInvariant, PTL

(***************************************************************************)
(* With one worker, what is completed is not done again, whatever cancels  *)
(* and retries were under way when it completed.                           *)
(***************************************************************************)
THEOREM CompletedStays ==
  ASSUME NoCheckpoints, OneWorker
  PROVE  Spec => CompletedIsNotRerun
  <1>1. TypeOK /\ ProcessInv /\ SyncInv /\ [Next]_vars =>
          [\A t \in Tasks :
             Has(t, {"completed"}) =>
               \/ db'[t] = None
               \/ db'[t].status \in {"completed", "cancelled"}
               \/ db'[t].retries > db[t].retries]_vars
    BY SyncStep
  <1> QED  BY <1>1, SyncInvariant, PTL DEF Spec, CompletedIsNotRerun

-----------------------------------------------------------------------------
(* The queue as a backlog.                                                 *)

Kept == Tasks \ recalled

(* Of a task that nobody cancels, what is in hand is what the row was when  *)
(* it was read, but for the status, and a retry is of one that has failed   *)
(* and is in nobody's hand.                                                *)
PlainHand(w) ==
    copy[w].task \in Kept =>
        /\ db[copy[w].task] # None
        /\ db[copy[w].task].status = IF pc[w] = "claimed" THEN "queued" ELSE "running"
        /\ db[copy[w].task].interrupts = copy[w].row.interrupts
        /\ IF pc[w] = "saving" THEN copy[w].row.status \in {"completed", "failed", "paused"}
           ELSE copy[w].row.status = "running"

PlainOperation ==
    op # None /\ op.task \in Kept =>
        /\ op.kind = "retry" /\ ~op.saved
        /\ op.row.status = "queued"
        /\ db[op.task] # None =>
             db[op.task].status = "failed" /\ db[op.task].interrupts = op.row.interrupts

NoneCancelled == \A t \in Kept : ~Has(t, {"cancelled"})

PlainInv == PlainOperation /\ NoneCancelled /\ \A w \in Workers : PlainHand(w)

LEMMA RecoveredRow ==
  ASSUME TypeOK, NEW t \in Tasks, Recover(t)
  PROVE  /\ db[t] \in Row /\ db[t] # None
         /\ \E row \in Row :
              /\ Save(t, row)
              /\ \/ /\ db[t].status = "running" /\ row.status = "queued"
                    /\ row.interrupts = db[t].interrupts + 1 /\ row.interrupts <= MaxInterrupts
                 \/ /\ db[t].status = "running" /\ row.status = "failed"
                    /\ row.interrupts = db[t].interrupts + 1 /\ row.interrupts > MaxInterrupts
                 \/ /\ db[t].status = "paused" /\ row.status = "queued"
                    /\ row.interrupts = db[t].interrupts
  <1>1. db[t] \in Row /\ db[t] # None
    BY DEF Recover, TypeOK
  <1>2. MaxInterrupts \in Nat /\ db[t].interrupts \in Nat
    BY <1>1, QueueAssumption DEF QueueAssumption, Row
  <1>3. CASE db[t].status = "running"
    <2> DEFINE n == db[t].interrupts + 1
               status == IF n <= MaxInterrupts THEN "queued" ELSE "failed"
               row == [db[t] EXCEPT !.status = status, !.interrupts = n]
    <2>1. Save(t, row)
      BY <1>3 DEF Recover
    <2>2. n \in Nat /\ status \in Statuses
      BY <1>2 DEF Statuses
    <2>3. row \in Row /\ row.status = status /\ row.interrupts = n
      <3> HIDE DEF n, status
      <3>1. QED
        BY <1>1, <2>2 DEF Row
    <2>4. n <= MaxInterrupts \/ n > MaxInterrupts
      BY <1>2
    <2> HIDE DEF row
    <2> QED  BY <1>1, <1>3, <2>1, <2>3, <2>4
  <1>4. CASE db[t].status = "paused"
    <2> DEFINE row == [db[t] EXCEPT !.status = "queued"]
    <2>1. Save(t, row)
      BY <1>4 DEF Recover
    <2>2. row \in Row /\ row.status = "queued" /\ row.interrupts = db[t].interrupts
      BY <1>1 DEF Row, Statuses
    <2> HIDE DEF row
    <2> QED  BY <1>1, <1>4, <2>1, <2>2
  <1> QED  BY <1>3, <1>4 DEF Recover

LEMMA ConcludedRow ==
  ASSUME TypeOK, NEW w \in Workers, Completed(w) \/ Failed(w) \/ Paused(w)
  PROVE  /\ copy'[w].row.interrupts = copy[w].row.interrupts
         /\ Completed(w) => copy'[w].row.status = "completed"
         /\ Failed(w) => copy'[w].row.status = "failed"
         /\ Paused(w) => copy'[w].row.status = "paused"
  <1>1. copy[w].task \in Tasks /\ copy[w].row \in Row /\ copy[w].task # None
    BY Copied DEF Completed, Failed, Paused
  <1>2. ASSUME NEW status \in Statuses, Conclude(w, status)
        PROVE  copy'[w].row.interrupts = copy[w].row.interrupts /\ copy'[w].row.status = status
    <2>1. copy'[w].row = [copy[w].row EXCEPT !.status = status]
      BY <1>1, <1>2 DEF Conclude, TypeOK, Copies, Idle
    <2> QED  BY <1>1, <2>1 DEF Row
  <1>3. Completed(w) => Conclude(w, "completed")
    BY DEF Completed
  <1>4. Failed(w) => Conclude(w, "failed")
    BY DEF Failed
  <1>5. Paused(w) => Conclude(w, "paused")
    BY DEF Paused
  <1>6. {"completed", "failed", "paused"} \subseteq Statuses
    BY DEF Statuses
  <1> QED  BY <1>2, <1>3, <1>4, <1>5, <1>6

(* Only the beginning of a cancel recalls a task. *)
LEMMA KeptStays ==
  ASSUME \/ Restart \/ Serve \/ Stop \/ Exit \/ SaveChange \/ Signal \/ Cleanup
         \/ \E t \in Tasks : Recover(t) \/ Submit(t)
         \/ \E w \in Workers : Worker(w)
  PROVE  recalled' = recalled /\ Kept' = Kept
  <1>1. CASE Restart \/ Serve \/ Stop \/ Exit
    BY <1>1 DEF Restart, Serve, Stop, Exit, userVars, Kept
  <1>2. CASE SaveChange \/ Signal \/ Cleanup
    BY <1>2 DEF SaveChange, Signal, Cleanup, userVars, Kept
  <1>3. CASE \E t \in Tasks : Recover(t) \/ Submit(t)
    BY <1>3 DEF Recover, Submit, userVars, Kept
  <1>4. ASSUME NEW w \in Workers, Worker(w)
        PROVE  recalled' = recalled
    BY <1>4 DEF Worker, Poll, MarkRunning, Execute, ExecutorEnds, Completed,
                Failed, Paused, Conclude, SaveOutcome, WorkerEnds, userVars
  <1> QED  BY <1>1, <1>2, <1>3, <1>4 DEF Kept

LEMMA PlainStep ==
  ASSUME TypeOK, ProcessInv, NoCheckpoints, OneWorker, PlainInv, [Next]_vars
  PROVE  PlainInv'
  <1> USE DEF PlainInv, PlainOperation, PlainHand, NoneCancelled
  <1>0. None \notin Kept /\ Kept \subseteq Tasks
    BY QueueAssumption DEF QueueAssumption, Kept
  <1>1. CASE UNCHANGED vars
    BY <1>1 DEF vars, userVars, workerVars, Kept
  <1>2. CASE Restart \/ Stop
    BY <1>2, KeptStays DEF Restart, Stop, userVars, workerVars
  <1>3. CASE Serve
    <2>1. \A w \in Workers : copy[w].task = None
      BY <1>3 DEF ProcessInv, Serve, TypeOK
    <2> QED  BY <1>0, <1>3, <2>1, KeptStays DEF Serve, userVars
  <1>4. CASE Stopped \/ Crash
    <2>1. Exit
      BY <1>4 DEF Stopped, Crash
    <2> QED  BY <1>0, <2>1, KeptStays DEF Exit, Idle
  <1>5. ASSUME NEW t \in Tasks, Recover(t)
        PROVE  PlainInv'
    <2>1. op = None /\ op' = op /\ copy' = copy /\ \A w \in Workers : copy[w].task = None
      BY <1>5 DEF ProcessInv, Recover, TypeOK, userVars, workerVars
    <2>2. PICK row \in Row : Save(t, row) /\ row.status \in {"queued", "failed"}
      BY <1>5, RecoveredRow
    <2>3. db'[t] = row /\ \A u \in Tasks \ {t} : db'[u] = db[u]
      BY <2>2, Saves
    <2>4. Kept' = Kept
      BY <1>5, KeptStays
    <2> QED  BY <1>0, <2>1, <2>2, <2>3, <2>4
  <1>6. ASSUME NEW w \in Workers, Poll(w)
        PROVE  PlainInv'
    <2>1. PICK t \in Tasks : Has(t, {"queued"}) /\ copy' = [copy EXCEPT ![w] =
               [task |-> t, row |-> [db[t] EXCEPT !.status = "running"]]]
      BY <1>6 DEF Poll, Queued
    <2>2. /\ copy'[w].task = t
          /\ copy'[w].row.status = "running" /\ copy'[w].row.interrupts = db[t].interrupts
      BY <2>1 DEF TypeOK, Row
    <2>3. pc'[w] = "claimed" /\ UNCHANGED <<db, op>>
      BY <1>6 DEF Poll, Goto, TypeOK, userVars
    <2>4. \A v \in Workers : v = w
      BY DEF OneWorker
    <2>5. Kept' = Kept
      BY <1>6, KeptStays DEF Worker
    <2> QED  BY <2>1, <2>2, <2>3, <2>4, <2>5
  <1>7. ASSUME NEW w \in Workers, MarkRunning(w)
        PROVE  PlainInv'
    <2>1. Writes(w)  BY <1>7, WorkerWrites
    <2>2. pc[w] = "claimed" /\ pc'[w] = "starting" /\ UNCHANGED <<copy, op>>
      BY <1>7 DEF MarkRunning, Goto, TypeOK, userVars
    <2>3. \A v \in Workers : v = w
      BY DEF OneWorker
    <2>4. Kept' = Kept
      BY <1>7, KeptStays DEF Worker
    <2>5. PlainHand(w)'
      BY <2>1, <2>2, <2>4 DEF Writes
    <2>6. op # None /\ op.task \in Kept => op.task # copy[w].task
      BY <2>1, <2>2 DEF Writes
    <2>7. PlainOperation'
      BY <1>0, <2>1, <2>2, <2>4, <2>6 DEF Writes
    <2>8. NoneCancelled'
      BY <1>0, <2>1, <2>2, <2>4 DEF Writes
    <2> QED  BY <2>3, <2>5, <2>7, <2>8
  <1>8. ASSUME NEW w \in Workers, Execute(w) \/ ExecutorEnds(w)
        PROVE  PlainInv'
    <2>1. Kept' = Kept
      BY <1>8, KeptStays DEF Worker
    <2> QED  BY <1>8, <2>1 DEF Execute, ExecutorEnds, Goto, TypeOK, userVars
  <1>9. ASSUME NEW w \in Workers, Completed(w) \/ Failed(w) \/ Paused(w)
        PROVE  PlainInv'
    <2>1. \A v \in Workers : v = w
      BY DEF OneWorker
    <2>2. copy'[w].row.interrupts = copy[w].row.interrupts
      BY <1>9, ConcludedRow
    <2>3. Kept' = Kept
      BY <1>9, KeptStays DEF Worker
    <2>4. PlainHand(w)'
      BY <1>9, <2>2, <2>3, Concluded
    <2> QED  BY <1>9, <2>1, <2>3, <2>4, Concluded
  <1>10. ASSUME NEW w \in Workers, SaveOutcome(w)
         PROVE  PlainInv'
    <2>1. Writes(w)  BY <1>10, WorkerWrites
    <2>2. /\ pc[w] = "saving" /\ op' = op
          /\ \A v \in Workers : copy'[v].task = None
      BY <1>10 DEF SaveOutcome, Idle, TypeOK, OneWorker, userVars
    <2>3. Kept' = Kept
      BY <1>10, KeptStays DEF Worker
    <2>4. op # None /\ op.task \in Kept => op.task # copy[w].task
      BY <2>1, <2>2 DEF Writes
    <2>5. PlainOperation'
      BY <1>0, <2>1, <2>2, <2>3, <2>4 DEF Writes
    <2>6. NoneCancelled'
      BY <1>0, <2>1, <2>2, <2>3 DEF Writes
    <2> QED  BY <1>0, <2>2, <2>3, <2>5, <2>6
  <1>11. ASSUME NEW w \in Workers, WorkerEnds(w)
         PROVE  PlainInv'
    <2>1. Kept' = Kept
      BY <1>11, KeptStays DEF Worker
    <2>2. UNCHANGED <<db, op>> /\ \A v \in Workers : copy'[v].task = None
      BY <1>11 DEF WorkerEnds, Idle, TypeOK, OneWorker, userVars
    <2> QED  BY <1>0, <2>1, <2>2
  <1>12. ASSUME NEW t \in Tasks, Submit(t)
         PROVE  PlainInv'
    <2>1. /\ db[t] = None /\ (op # None => op.task # t)
          /\ \A w \in Workers : copy[w].task # t
          /\ UNCHANGED <<pc, copy, op>>
          /\ \A u \in Tasks \ {t} : db'[u] = db[u]
          /\ db'[t] \in {FreshRow, None}
      BY <1>12, Fresh, Saves DEF Submit, workerVars
    <2>2. FreshRow.status = "queued"
      BY DEF FreshRow
    <2>3. Kept' = Kept
      BY <1>12, KeptStays
    <2>4. PlainOperation'
      BY <1>0, <2>1, <2>3, Counts
    <2>5. \A w \in Workers : PlainHand(w)'
      BY <1>0, <2>1, <2>3, Counts
    <2>6. NoneCancelled'
      BY <1>0, <2>1, <2>2, <2>3
    <2> QED  BY <2>4, <2>5, <2>6
  <1>13. ASSUME NEW kind \in Operations, NEW t \in Tasks, Load(kind, t)
         PROVE  PlainInv'
    <2>1. db[t] \in Row /\ db[t] # None /\ UNCHANGED <<db, pc, copy>>
      BY <1>13, LoadedRow DEF Load, workerVars
    <2>2. kind \in {"cancel", "retry"}
      BY QueueAssumption DEF QueueAssumption, NoCheckpoints
    <2>3. CASE kind = "cancel"
      <3>1. Kept' = Kept \ {t} /\ op'.task = t
        BY <1>13, <2>3 DEF Load, Kept
      <3> QED  BY <2>1, <3>1
    <2>4. CASE kind = "retry"
      <3>1. Kept' = Kept /\ (t \in Kept => db[t].status = "failed")
        BY <1>13, <2>1, <2>4 DEF Load, Kept, Accepts
      <3>2. Changed("retry", db[t]).interrupts = db[t].interrupts
        BY <2>1 DEF Changed, Row
      <3>3. op' = [kind |-> "retry", task |-> t, row |-> Changed("retry", db[t]),
                   saved |-> FALSE]
        BY <1>13, <2>4 DEF Load
      <3>4. Changed("retry", db[t]).status = "queued"
        BY <2>1 DEF Changed, Row
      <3> QED  BY <2>1, <3>1, <3>2, <3>3, <3>4
    <2> QED  BY <2>2, <2>3, <2>4
  <1>14. CASE SaveChange
    <2>1. op.task \in Tasks /\ op.row \in Row /\ Save(op.task, op.row) /\ op # None
      BY <1>14, Operated DEF SaveChange
    <2>2. db'[op.task] = op.row /\ \A u \in Tasks \ {op.task} : db'[u] = db[u]
      BY <2>1, Saves
    <2>3. UNCHANGED <<copy, pc>>
      BY <1>14 DEF SaveChange, workerVars
    <2>4. Kept' = Kept
      BY <1>14, KeptStays
    <2>5. \A w \in Workers : copy[w].task \in Kept => copy[w].task # op.task
      BY <2>1
    <2>6. \A w \in Workers : PlainHand(w)'
      BY <1>0, <2>2, <2>3, <2>4, <2>5, Counts
    <2>7. op.task \in Kept => op' = None
      BY <1>14, <2>1 DEF SaveChange
    <2>8. PlainOperation'
      BY <1>14, <2>1, <2>4, <2>7 DEF SaveChange
    <2>9. NoneCancelled'
      BY <1>0, <2>1, <2>2, <2>4
    <2> QED  BY <2>6, <2>8, <2>9
  <1>15. CASE Signal
    BY <1>15, KeptStays DEF Signal
  <1>16. CASE Cleanup
    <2>1. PICK old \in SUBSET {t \in Tasks : Has(t, Final)} :
            db' = [t \in Tasks |-> IF t \in old THEN None ELSE db[t]]
      BY <1>16 DEF Cleanup
    <2>2. \A t \in Tasks : db'[t] = IF t \in old THEN None ELSE db[t]
      BY <2>1
    <2>3. UNCHANGED <<pc, copy, op>> /\ Kept' = Kept
      BY <1>16, KeptStays DEF Cleanup, userVars, workerVars
    <2>4. \A w \in Workers : copy[w].task \in Kept => copy[w].task \notin old
      BY DEF Final
    <2>5. PlainOperation'
      BY <1>0, <2>2, <2>3, Counts
    <2>6. NoneCancelled'
      BY <1>0, <2>2, <2>3
    <2>7. \A w \in Workers : PlainHand(w)'
      BY <1>0, <2>2, <2>3, <2>4, Counts
    <2> QED  BY <2>5, <2>6, <2>7
  <1> QED  BY <1>1, <1>2, <1>3, <1>4, <1>5, <1>6, <1>7, <1>8, <1>9, <1>10, <1>11,
              <1>12, <1>13, <1>14, <1>15, <1>16 DEF Next, Worker
-----------------------------------------------------------------------------
(* Where a task is: what the row says, and for one that is running what its *)
(* worker knows.                                                           *)

Told(w) ==
    IF pc[w] \in {"starting", "executing"} THEN "working"
    ELSE IF pc[w] = "returned" \/ (pc[w] = "saving" /\ copy[w].row.status = "completed")
         THEN "succeeded"
    ELSE IF pc[w] = "raised" \/ (pc[w] = "saving" /\ copy[w].row.status = "failed")
         THEN "broken"
    ELSE "interrupted"

StageIs(t) ==
    IF t \in recalled THEN Stage(t) = "cancelled" ELSE
    /\ db[t] = None => Stage(t) = "gone"
    /\ Has(t, {"queued", "paused"}) => Stage(t) = "waiting"
    /\ Has(t, Final) => Stage(t) = db[t].status
    /\ Has(t, {"running"}) =>
         /\ \A w \in Workers : copy[w].task = t => Stage(t) = Told(w)
         /\ (\A w \in Workers : copy[w].task # t) => Stage(t) = "interrupted"

StagesAre == \A t \in Tasks : StageIs(t)

LEMMA StagesKnown ==
  ASSUME OneWorker
  PROVE  StagesAre
  <1> SUFFICES ASSUME NEW t \in Tasks
               PROVE  StageIs(t)
    BY DEF StagesAre
  <1>0. CASE t \in recalled
    BY <1>0 DEF StageIs, Stage
  <1>1. CASE t \notin recalled /\ db[t] = None
    BY <1>1 DEF StageIs, Stage
  <1>2. CASE t \notin recalled /\ Has(t, {"queued", "paused"})
    BY <1>2 DEF StageIs, Stage, Final
  <1>3. CASE t \notin recalled /\ Has(t, Final)
    BY <1>3 DEF StageIs, Stage, Final
  <1>4. CASE t \notin recalled /\ Has(t, {"running"})
    <2> DEFINE stage ==
          CASE InHandAt(t, {"starting", "executing"}) -> "working"
            [] InHandAt(t, {"returned"}) \/ Concluding(t, "completed") -> "succeeded"
            [] InHandAt(t, {"raised"}) \/ Concluding(t, "failed") -> "broken"
            [] OTHER -> "interrupted"
    <2>1. Stage(t) = stage
      BY <1>4 DEF Stage, Final
    <2>2. ASSUME NEW w \in Workers, copy[w].task = t
          PROVE  stage = Told(w)
      <3>1. \A v \in Workers : v = w
        BY DEF OneWorker
      <3>2. /\ InHandAt(t, {"starting", "executing"}) <=> pc[w] \in {"starting", "executing"}
            /\ InHandAt(t, {"returned"}) <=> pc[w] = "returned"
            /\ InHandAt(t, {"raised"}) <=> pc[w] = "raised"
            /\ Concluding(t, "completed") <=> (pc[w] = "saving" /\ copy[w].row.status = "completed")
            /\ Concluding(t, "failed") <=> (pc[w] = "saving" /\ copy[w].row.status = "failed")
        BY <2>2, <3>1 DEF InHandAt, Concluding
      <3> QED  BY <3>2 DEF Told
    <2>3. ASSUME \A w \in Workers : copy[w].task # t
          PROVE  stage = "interrupted"
      BY <2>3 DEF InHandAt, Concluding
    <2> QED  BY <1>4, <2>1, <2>2, <2>3 DEF StageIs, Final
  <1> QED  BY <1>0, <1>1, <1>2, <1>3, <1>4 DEF StageIs

(* Only an execution that is in hand is under way. *)
LEMMA UnderWayInHand ==
  ASSUME TypeOK, StagesAre, NEW t \in Tasks, Stage(t) \in {"working", "succeeded", "broken"}
  PROVE  t \in Kept /\ Has(t, {"running"}) /\ \E w \in Workers : copy[w].task = t
  <1>1. StageIs(t)
    BY DEF StagesAre
  <1>2. db[t] # None => db[t].status \in Statuses
    BY DEF TypeOK, Row
  <1> QED  BY <1>1, <1>2 DEF StageIs, Final, Statuses, Kept

LEMMA StageStays ==
  ASSUME TypeOK, StagesAre, StagesAre', NEW t \in Tasks, db'[t] = db[t],
         t \in recalled' <=> t \in recalled,
         Has(t, {"running"}) =>
           \A w \in Workers :
             /\ copy'[w].task = t <=> copy[w].task = t
             /\ copy[w].task = t => Told(w)' = Told(w)
  PROVE  Stage(t)' = Stage(t)
  <1>1. StageIs(t) /\ StageIs(t)'
    BY DEF StagesAre
  <1>2. db[t] # None => db[t].status \in Statuses
    BY DEF TypeOK, Row
  <1>7. CASE t \in recalled
    BY <1>1, <1>7 DEF StageIs
  <1>3. CASE t \notin recalled /\ Has(t, {"running"})
    <2>1. CASE \E w \in Workers : copy[w].task = t
      <3>1. PICK w \in Workers : copy[w].task = t
        BY <2>1
      <3>2. copy'[w].task = t /\ Told(w)' = Told(w)
        BY <1>3, <3>1
      <3>3. Stage(t) = Told(w)
        BY <1>1, <1>3, <3>1 DEF StageIs
      <3>4. Stage(t)' = Told(w)'
        BY <1>1, <1>3, <3>2 DEF StageIs
      <3> QED  BY <3>2, <3>3, <3>4
    <2>2. CASE \A w \in Workers : copy[w].task # t
      <3>1. \A w \in Workers : copy'[w].task # t
        BY <1>3, <2>2
      <3>2. Stage(t) = "interrupted"
        BY <1>1, <1>3, <2>2 DEF StageIs
      <3>3. Stage(t)' = "interrupted"
        BY <1>1, <1>3, <3>1 DEF StageIs
      <3> QED  BY <3>2, <3>3
    <2> QED  BY <2>1, <2>2
  <1>4. CASE t \notin recalled /\ db[t] = None
    <2>1. Stage(t) = "gone" /\ Stage(t)' = "gone"
      BY <1>1, <1>4 DEF StageIs
    <2> QED  BY <2>1
  <1>5. CASE t \notin recalled /\ Has(t, {"queued", "paused"})
    <2>1. Stage(t) = "waiting" /\ Stage(t)' = "waiting"
      BY <1>1, <1>5 DEF StageIs
    <2> QED  BY <2>1
  <1>6. CASE t \notin recalled /\ Has(t, Final)
    <2>1. Stage(t) = db[t].status /\ Stage(t)' = db'[t].status
      BY <1>1, <1>6 DEF StageIs
    <2> QED  BY <2>1
  <1> QED  BY <1>2, <1>3, <1>4, <1>5, <1>6, <1>7 DEF Statuses, Final

(* The two functions that Backlog is about. *)
Stages == [t \in Tasks |-> Stage(t)]
Interrupts ==
    [t \in Tasks |-> IF t \in recalled \/ db[t] = None THEN 0 ELSE db[t].interrupts]

StagesStay == \A t \in Tasks : Stage(t)' = Stage(t)

OneMoves(t) == \A u \in Tasks \ {t} : Stage(u)' = Stage(u)

OneIsCounted(t) == \A u \in Tasks \ {t} : db'[u] = db[u]

LEMMA Stutters ==
  ASSUME StagesStay, UNCHANGED <<db, recalled>>
  PROVE  UNCHANGED Survives!vars
  BY DEF StagesStay, Survives!vars

LEMMA Moved ==
  ASSUME NEW t \in Tasks, NEW from, NEW to,
         Stage(t) = from, Stage(t)' = to, OneMoves(t)
  PROVE  Survives!Moves(t, from, to)
  <1>1. Stages' = [Stages EXCEPT ![t] = to]
    BY DEF Stages, OneMoves
  <1>2. Stages[t] = from
    BY DEF Stages
  <1> QED  BY <1>1, <1>2 DEF Stages, Survives!Moves

LEMMA NotCounted ==
  ASSUME NEW t \in Tasks, OneIsCounted(t), db[t] # None, db'[t] # None,
         db'[t].interrupts = db[t].interrupts, UNCHANGED recalled
  PROVE  Interrupts' = Interrupts
  BY DEF Interrupts, OneIsCounted

(* Nothing is promised of a task that was cancelled. *)
LEMMA PromisedNothing ==
  ASSUME TypeOK, StagesAre, StagesAre', NEW t \in Tasks, t \in recalled,
         OneMoves(t), OneIsCounted(t), UNCHANGED recalled
  PROVE  UNCHANGED Survives!vars
  <1>1. Stages' = Stages
    BY DEF Stages, OneMoves, StagesAre, StageIs
  <1>2. Interrupts' = Interrupts
    BY DEF Interrupts, OneIsCounted
  <1> QED  BY <1>1, <1>2 DEF Stages, Interrupts, Survives!vars

(* Who moves on and leaves the table as it is. *)
LEMMA WorkerStays ==
  ASSUME TypeOK, OneWorker, StagesAre, StagesAre', NEW w \in Workers, UNCHANGED <<db, recalled>>
  PROVE  \A u \in Tasks :
           copy[w].task # u /\ copy'[w].task # u => Stage(u)' = Stage(u)
  <1> SUFFICES ASSUME NEW u \in Tasks, copy[w].task # u, copy'[w].task # u
               PROVE  Stage(u)' = Stage(u)
    OBVIOUS
  <1>1. \A v \in Workers : copy'[v].task # u /\ copy[v].task # u
    BY DEF OneWorker
  <1> QED  BY <1>1, StageStays

Backlogged == [Survives!Next]_(Survives!vars)

(* What was in hand is dropped. *)
LEMMA LetGo ==
  ASSUME TypeOK, OneWorker, PlainInv, StagesAre, StagesAre', UNCHANGED <<db, recalled>>,
         \A w \in Workers : copy'[w].task = None
  PROVE  Backlogged
  <1>1. None \notin Tasks
    BY QueueAssumption DEF QueueAssumption
  <1>2. ASSUME NEW t \in Tasks, Stage(t) \in {"working", "succeeded", "broken"}
        PROVE  Backlogged
    <2>1. t \in Kept /\ Has(t, {"running"}) /\ \E w \in Workers : copy[w].task = t
      BY <1>2, UnderWayInHand
    <2>2. PICK w \in Workers : copy[w].task = t
      BY <2>1
    <2>3. \A u \in Tasks \ {t} : Stage(u)' = Stage(u)
      BY <1>1, <2>2, WorkerStays
    <2>4. Stage(t)' = "interrupted"
      BY <1>1, <2>1 DEF StagesAre, StageIs, Kept
    <2>5. Survives!Moves(t, Stage(t), "interrupted")
      BY <2>3, <2>4, Moved DEF OneMoves
    <2>6. Interrupts' = Interrupts
      BY DEF Interrupts
    <2>7. Survives!Interrupt(t)
      BY <1>2, <2>5, <2>6 DEF Survives!Interrupt, Survives!Moves, Survives!UnderWay, Interrupts
    <2> QED  BY <2>7 DEF Backlogged, Survives!Next
  <1>3. ASSUME \A t \in Tasks : Stage(t) \notin {"working", "succeeded", "broken"}
        PROVE  Backlogged
    <2>1. ASSUME NEW t \in Tasks
          PROVE  Stage(t)' = Stage(t)
      <3>1. CASE t \in Kept /\ Has(t, {"running"})
        <4>1. Stage(t)' = "interrupted"
          BY <1>1, <3>1 DEF StagesAre, StageIs, Kept
        <4>2. Stage(t) = "interrupted"
          BY <1>3, <3>1 DEF StagesAre, StageIs, Told, Kept
        <4> QED  BY <4>1, <4>2
      <3>2. CASE t \notin Kept
        BY <3>2 DEF StagesAre, StageIs, Kept
      <3>3. CASE ~Has(t, {"running"})
        BY <3>3, StageStays
      <3> QED  BY <3>1, <3>2, <3>3
    <2>2. UNCHANGED Survives!vars
      BY <2>1, Stutters DEF StagesStay
    <2> QED  BY <2>2 DEF Backlogged
  <1> QED  BY <1>2, <1>3

(* A worker that has a task in hand which nobody has cancelled. *)
LEMMA KeptIsBacklogged ==
  ASSUME TypeOK, TypeOK', OneWorker, PlainInv, PlainInv', StagesAre, StagesAre',
         NEW w \in Workers, Worker(w), copy[w].task \in Kept
  PROVE  Backlogged
  <1>1. \A v \in Workers : v = w
    BY DEF OneWorker
  <1>2. None \notin Tasks /\ copy[w].task # None
    BY QueueAssumption DEF QueueAssumption, Kept
  <1>4. recalled' = recalled /\ Kept' = Kept
    BY KeptStays
  <1>3. ASSUME pc[w] \notin {"off", "polling"}
        PROVE  /\ copy[w].task \in Tasks /\ copy[w].row \in Row
               /\ db[copy[w].task] # None
               /\ db[copy[w].task].status = IF pc[w] = "claimed" THEN "queued" ELSE "running"
               /\ db[copy[w].task].interrupts = copy[w].row.interrupts
               /\ Stage(copy[w].task) = IF pc[w] = "claimed" THEN "waiting" ELSE Told(w)
    <2>1. copy[w].task \in Tasks /\ copy[w].row \in Row /\ copy[w].task # None
      BY <1>3, Copied
    <2>2. PlainHand(w)
      BY DEF PlainInv
    <2>3. StageIs(copy[w].task)
      BY <2>1 DEF StagesAre
    <2> QED  BY <2>1, <2>2, <2>3 DEF PlainHand, StageIs, Kept
  <1>5. CASE MarkRunning(w)
    <2>0. PICK t : t = copy[w].task
      OBVIOUS
    <2>1. Writes(w)  BY <1>5, WorkerWrites
    <2>2. pc[w] = "claimed" /\ pc'[w] = "starting" /\ copy' = copy
      BY <1>5 DEF MarkRunning, Goto, TypeOK
    <2>3. /\ t \in Tasks /\ copy[w].row \in Row /\ Stage(t) = "waiting"
          /\ t \notin recalled /\ t \notin recalled'
      BY <1>3, <1>4, <2>0, <2>2 DEF Kept
    <2>4. db'[t] = copy[w].row /\ db'[t] # None /\ \A u \in Tasks \ {t} : db'[u] = db[u]
      BY <2>0, <2>1 DEF Writes
    <2>5. copy[w].row.status = "running"
      BY <1>2, <2>0, <2>2, <2>3 DEF PlainInv, PlainHand, Kept
    <2>6. Stage(t)' = Told(w)'
      BY <2>0, <2>2, <2>3, <2>4, <2>5 DEF StagesAre, StageIs
    <2>7. Stage(t)' = "working"
      BY <2>2, <2>6 DEF Told
    <2>8. OneMoves(t)
      <3> SUFFICES ASSUME NEW u \in Tasks \ {t}
                   PROVE  Stage(u)' = Stage(u)
        BY DEF OneMoves
      <3>1. db'[u] = db[u] /\ \A v \in Workers : copy[v].task # u /\ copy'[v].task # u
        BY <1>1, <2>0, <2>2, <2>4
      <3> QED  BY <1>4, <3>1, StageStays
    <2>9. \A u \in Tasks : Stage(u) \notin {"working", "succeeded", "broken"}
      <3> SUFFICES ASSUME NEW u \in Tasks, Stage(u) \in {"working", "succeeded", "broken"}
                   PROVE  FALSE
        OBVIOUS
      <3>1. \E v \in Workers : copy[v].task = u
        BY UnderWayInHand
      <3>2. u = t
        BY <1>1, <2>0, <3>1
      <3> QED  BY <2>3, <3>2
    <2>10. Interrupts' = Interrupts
      BY <1>3, <1>4, <2>0, <2>2, <2>3, <2>4, NotCounted DEF OneIsCounted
    <2>11. Survives!Moves(t, "waiting", "working")
      BY <2>3, <2>7, <2>8, Moved
    <2>12. Survives!Take(t)
      BY <2>9, <2>10, <2>11 DEF Survives!Take, Survives!UnderWay, Interrupts
    <2> QED  BY <2>3, <2>12 DEF Backlogged, Survives!Next
  <1>6. ASSUME NEW t, t = copy[w].task, pc[w] \notin {"off", "polling", "claimed"},
               copy'[w].task = t, UNCHANGED db
        PROVE  /\ t \in Tasks /\ Stage(t) = Told(w) /\ Stage(t)' = Told(w)'
               /\ OneMoves(t) /\ Interrupts' = Interrupts
    <2>1. /\ t \in Tasks /\ Stage(t) = Told(w) /\ Has(t, {"running"})
          /\ t \notin recalled /\ t \notin recalled'
      BY <1>3, <1>4, <1>6 DEF Kept
    <2>2. Stage(t)' = Told(w)'
      BY <1>6, <2>1 DEF StagesAre, StageIs
    <2>3. OneMoves(t)
      BY <1>4, <1>6, WorkerStays DEF OneMoves
    <2>4. Interrupts' = Interrupts
      BY <1>4, <1>6 DEF Interrupts
    <2> QED  BY <2>1, <2>2, <2>3, <2>4
  <1>7. ASSUME pc[w] \notin {"off", "polling", "claimed"}, copy'[w].task = copy[w].task,
               UNCHANGED db, Told(w)' = Told(w)
        PROVE  Backlogged
    <2>1. PICK t : t = copy[w].task
      OBVIOUS
    <2>2. t \in Tasks /\ Stage(t)' = Stage(t) /\ OneMoves(t)
      BY <1>6, <1>7, <2>1
    <2>3. StagesStay
      BY <2>2 DEF StagesStay, OneMoves
    <2> QED  BY <1>4, <1>7, <2>3, Stutters DEF Backlogged
  <1>8. CASE Execute(w)
    <2>1. pc[w] = "starting" /\ pc'[w] = "executing" /\ copy' = copy /\ UNCHANGED db
      BY <1>8 DEF Execute, Goto, TypeOK
    <2>2. Told(w)' = Told(w)
      BY <2>1 DEF Told
    <2> QED  BY <1>7, <2>1, <2>2
  <1>9. CASE ExecutorEnds(w)
    <2>1. pc[w] = "executing" /\ pc'[w] \in {"returned", "raised"} /\ copy' = copy /\ UNCHANGED db
      BY <1>9 DEF ExecutorEnds, Goto, TypeOK
    <2>2. PICK t : t = copy[w].task
      OBVIOUS
    <2>3. /\ t \in Tasks /\ Stage(t) = Told(w) /\ Stage(t)' = Told(w)'
          /\ OneMoves(t) /\ Interrupts' = Interrupts
      BY <1>6, <2>1, <2>2
    <2>4. Told(w) = "working" /\ Told(w)' \in {"succeeded", "broken"}
      BY <2>1 DEF Told
    <2>5. Survives!Moves(t, "working", "succeeded") \/ Survives!Moves(t, "working", "broken")
      BY <2>3, <2>4, Moved
    <2>6. Survives!End(t)
      BY <2>3, <2>5 DEF Survives!End, Interrupts
    <2> QED  BY <2>3, <2>6 DEF Backlogged, Survives!Next
  <1>10. ASSUME Completed(w) \/ Failed(w) \/ Paused(w)
         PROVE  pc[w] \in {"executing", "returned", "raised"} /\ pc'[w] = "saving"
                /\ copy'[w].task = copy[w].task /\ UNCHANGED db
    BY <1>10, Concluded
  <1>11. CASE Completed(w) \/ Failed(w)
    <2>1. \/ pc[w] = "returned" /\ copy'[w].row.status = "completed"
          \/ pc[w] = "raised" /\ copy'[w].row.status = "failed"
      BY <1>11, ConcludedRow DEF Completed, Failed
    <2>2. Told(w)' = Told(w)
      BY <1>10, <1>11, <2>1 DEF Told
    <2> QED  BY <1>7, <1>10, <1>11, <2>2
  <1>12. CASE Paused(w)
    <2>1. PICK t : t = copy[w].task
      OBVIOUS
    <2>2. /\ t \in Tasks /\ Stage(t) = Told(w) /\ Stage(t)' = Told(w)'
          /\ OneMoves(t) /\ Interrupts' = Interrupts
      BY <1>6, <1>10, <1>12, <2>1
    <2>3. Told(w) \in {"working", "succeeded", "broken"}
      BY <1>10, <1>12 DEF Told
    <2>4. copy'[w].row.status = "paused"
      BY <1>12, ConcludedRow
    <2>5. Told(w)' = "interrupted"
      BY <1>10, <1>12, <2>4 DEF Told
    <2>6. Survives!Moves(t, Stage(t), "interrupted")
      BY <2>2, <2>5, Moved
    <2>7. Survives!Interrupt(t)
      BY <2>2, <2>3, <2>6 DEF Survives!Interrupt, Survives!Moves, Survives!UnderWay, Interrupts
    <2> QED  BY <2>2, <2>7 DEF Backlogged, Survives!Next
  <1>13. CASE SaveOutcome(w)
    <2>0. PICK t : t = copy[w].task
      OBVIOUS
    <2>1. Writes(w)  BY <1>13, WorkerWrites
    <2>2. pc[w] = "saving" /\ copy'[w].task = None
      BY <1>13 DEF SaveOutcome, Idle, TypeOK
    <2>3. /\ t \in Tasks /\ copy[w].row \in Row /\ Stage(t) = Told(w)
          /\ t \notin recalled /\ t \notin recalled'
      BY <1>3, <1>4, <2>0, <2>2 DEF Kept
    <2>4. db'[t] = copy[w].row /\ db'[t] # None /\ \A u \in Tasks \ {t} : db'[u] = db[u]
      BY <2>0, <2>1 DEF Writes
    <2>5. copy[w].row.status \in {"completed", "failed", "paused"}
      BY <1>2, <2>0, <2>2, <2>3 DEF PlainInv, PlainHand, Kept
    <2>6. OneMoves(t)
      <3> SUFFICES ASSUME NEW u \in Tasks \ {t}
                   PROVE  Stage(u)' = Stage(u)
        BY DEF OneMoves
      <3>1. db'[u] = db[u] /\ \A v \in Workers : copy[v].task # u /\ copy'[v].task # u
        BY <1>1, <1>2, <2>0, <2>2, <2>4
      <3> QED  BY <1>4, <3>1, StageStays
    <2>7. Interrupts' = Interrupts
      BY <1>3, <1>4, <2>0, <2>2, <2>3, <2>4, NotCounted DEF OneIsCounted
    <2>8. \/ Stage(t) = "succeeded" /\ Stage(t)' = "completed"
          \/ Stage(t) = "broken" /\ Stage(t)' = "failed"
          \/ Stage(t) = "interrupted" /\ Stage(t)' = "waiting"
      <3>1. StageIs(t)'
        BY <2>3 DEF StagesAre
      <3>2. CASE copy[w].row.status = "completed"
        <4>1. Told(w) = "succeeded" /\ Stage(t)' = "completed"
          BY <2>2, <2>3, <2>4, <3>1, <3>2 DEF Told, StageIs, Final
        <4> QED  BY <2>3, <4>1
      <3>3. CASE copy[w].row.status = "failed"
        <4>1. Told(w) = "broken" /\ Stage(t)' = "failed"
          BY <2>2, <2>3, <2>4, <3>1, <3>3 DEF Told, StageIs, Final
        <4> QED  BY <2>3, <4>1
      <3>4. CASE copy[w].row.status = "paused"
        <4>1. Told(w) = "interrupted" /\ Stage(t)' = "waiting"
          BY <2>2, <2>3, <2>4, <3>1, <3>4 DEF Told, StageIs, Final
        <4> QED  BY <2>3, <4>1
      <3> QED  BY <2>5, <3>2, <3>3, <3>4
    <2>9. \/ Survives!Moves(t, "succeeded", "completed")
          \/ Survives!Moves(t, "broken", "failed")
          \/ Survives!Moves(t, "interrupted", "waiting")
      BY <2>3, <2>6, <2>8, Moved
    <2>10. Survives!Settle(t) \/ Survives!Requeue(t)
      BY <2>7, <2>9 DEF Survives!Settle, Survives!Requeue, Interrupts
    <2> QED  BY <2>3, <2>10 DEF Backlogged, Survives!Next
  <1>14. CASE WorkerEnds(w)
    <2>1. UNCHANGED db /\ \A v \in Workers : copy'[v].task = None
      BY <1>14 DEF WorkerEnds, Idle, TypeOK, OneWorker
    <2> QED  BY <1>4, <2>1, LetGo
  <1>15. ~Poll(w)
    BY <1>2 DEF Poll, TypeOK
  <1> QED  BY <1>15, <1>5, <1>8, <1>9, <1>11, <1>12, <1>13, <1>14 DEF Worker

(* Only its own task is touched by a worker that does not poll. *)
LEMMA WorkerTouches ==
  ASSUME TypeOK, NEW w \in Workers, Worker(w), ~Poll(w)
  PROVE  /\ copy'[w].task \in {copy[w].task, None}
         /\ \A u \in Tasks : u # copy[w].task => db'[u] = db[u]
  <1>1. CASE MarkRunning(w) \/ SaveOutcome(w)
    <2>1. Writes(w)
      BY <1>1, WorkerWrites
    <2>2. copy'[w].task \in {copy[w].task, None}
      BY <1>1 DEF MarkRunning, SaveOutcome, Idle, TypeOK
    <2> QED  BY <2>1, <2>2 DEF Writes
  <1>2. CASE Execute(w) \/ ExecutorEnds(w) \/ WorkerEnds(w)
    BY <1>2 DEF Execute, ExecutorEnds, WorkerEnds, Idle, TypeOK
  <1>3. CASE Completed(w) \/ Failed(w) \/ Paused(w)
    BY <1>3, Concluded
  <1> QED  BY <1>1, <1>2, <1>3 DEF Worker

LEMMA WorkerIsBacklogged ==
  ASSUME TypeOK, TypeOK', OneWorker, PlainInv, PlainInv', StagesAre, StagesAre',
         NEW w \in Workers, Worker(w)
  PROVE  Backlogged
  <1>1. \A v \in Workers : v = w
    BY DEF OneWorker
  <1>2. None \notin Tasks
    BY QueueAssumption DEF QueueAssumption
  <1>3. recalled' = recalled
    BY KeptStays
  <1>4. CASE Poll(w)
    <2>1. PICK t \in Tasks : Has(t, {"queued"}) /\ copy' = [copy EXCEPT ![w] =
               [task |-> t, row |-> [db[t] EXCEPT !.status = "running"]]]
      BY <1>4 DEF Poll, Queued
    <2>2. copy'[w].task = t /\ copy[w].task = None /\ UNCHANGED db
      BY <1>4, <2>1 DEF TypeOK, Poll
    <2>3. \A u \in Tasks : Has(u, {"running"}) => copy'[w].task # u /\ copy[w].task # u
      BY <1>2, <2>1, <2>2
    <2>4. StagesStay
      BY <1>1, <1>3, <2>2, <2>3, StageStays DEF StagesStay
    <2> QED  BY <1>3, <2>2, <2>4, Stutters DEF Backlogged
  <1>5. CASE ~Poll(w) /\ copy[w].task \notin Kept
    <2>1. PICK t : t = copy[w].task
      OBVIOUS
    <2>2. /\ copy'[w].task \in {t, None}
          /\ \A u \in Tasks : u # t => db'[u] = db[u]
      BY <1>5, <2>1, WorkerTouches
    <2>3. \A u \in Tasks : u # t => Stage(u)' = Stage(u)
      <3> SUFFICES ASSUME NEW u \in Tasks, u # t
                   PROVE  Stage(u)' = Stage(u)
        OBVIOUS
      <3>1. db'[u] = db[u] /\ \A v \in Workers : copy[v].task # u /\ copy'[v].task # u
        BY <1>1, <1>2, <2>1, <2>2
      <3> QED  BY <1>3, <3>1, StageStays
    <2>4. CASE t \in Tasks
      <3>1. t \in recalled
        BY <1>5, <2>1, <2>4 DEF Kept
      <3>2. OneMoves(t) /\ OneIsCounted(t)
        BY <2>2, <2>3 DEF OneMoves, OneIsCounted
      <3> QED  BY <1>3, <2>4, <3>1, <3>2, PromisedNothing DEF Backlogged
    <2>5. CASE t \notin Tasks
      <3>1. StagesStay
        BY <2>3, <2>5 DEF StagesStay
      <3>2. db' = db
        BY <2>2, <2>5 DEF TypeOK
      <3> QED  BY <1>3, <3>1, <3>2, Stutters DEF Backlogged
    <2> QED  BY <2>4, <2>5
  <1> QED  BY <1>4, <1>5, KeptIsBacklogged

(* One row is written and no worker moves. *)
LEMMA WrittenAlone ==
  ASSUME TypeOK, StagesAre, StagesAre', NEW t \in Tasks, UNCHANGED <<pc, copy, recalled>>,
         \A u \in Tasks \ {t} : db'[u] = db[u]
  PROVE  OneMoves(t) /\ OneIsCounted(t)
  <1>1. \A w \in Workers : Told(w)' = Told(w)
    BY DEF Told
  <1>2. \A u \in Tasks \ {t} : Stage(u)' = Stage(u)
    BY <1>1, StageStays
  <1> QED  BY <1>2 DEF OneMoves, OneIsCounted

(* Nothing that Stage reads has changed. *)
LEMMA NothingMoves ==
  ASSUME TypeOK, StagesAre, StagesAre', UNCHANGED <<db, pc, copy, recalled>>
  PROVE  Backlogged
  <1>1. \A w \in Workers : Told(w)' = Told(w)
    BY DEF Told
  <1>2. StagesStay
    BY <1>1, StageStays DEF StagesStay
  <1> QED  BY <1>2, Stutters DEF Backlogged

(* A task that has no row gets one. *)
LEMMA Submitted ==
  ASSUME TypeOK, TypeOK', NEW t \in Tasks, Stage(t) = "gone", Stage(t)' = "waiting",
         OneMoves(t), OneIsCounted(t), UNCHANGED recalled
  PROVE  Backlogged
  <1>1. Survives!Moves(t, "gone", "waiting")
    BY Moved
  <1>2. Interrupts' \in [Tasks -> Nat]
    <2>1. \A u \in Tasks : db'[u] # None => db'[u].interrupts \in Nat
      BY DEF TypeOK, Row
    <2> QED  BY <2>1 DEF Interrupts
  <1>3. \A u \in Tasks \ {t} : Interrupts'[u] = Interrupts[u]
    BY DEF Interrupts, OneIsCounted
  <1>4. Survives!Submit(t)
    BY <1>1, <1>2, <1>3 DEF Survives!Submit, Interrupts
  <1> QED  BY <1>4 DEF Backlogged, Survives!Next

LEMMA RecoveryIsBacklogged ==
  ASSUME TypeOK, ProcessInv, PlainInv, StagesAre, StagesAre', NEW t \in Tasks, Recover(t)
  PROVE  Backlogged
  <1>1. \A w \in Workers : copy[w].task # t /\ copy'[w].task # t
    BY QueueAssumption DEF QueueAssumption, ProcessInv, Recover, TypeOK, workerVars
  <1>2. UNCHANGED <<pc, copy, recalled>>
    BY DEF Recover, workerVars, userVars
  <1>3. db[t] \in Row /\ db[t] # None
    BY RecoveredRow
  <1>4. PICK row \in Row :
          /\ Save(t, row)
          /\ \/ /\ db[t].status = "running" /\ row.status = "queued"
                /\ row.interrupts = db[t].interrupts + 1 /\ row.interrupts <= MaxInterrupts
             \/ /\ db[t].status = "running" /\ row.status = "failed"
                /\ row.interrupts = db[t].interrupts + 1 /\ row.interrupts > MaxInterrupts
             \/ /\ db[t].status = "paused" /\ row.status = "queued"
                /\ row.interrupts = db[t].interrupts
    BY RecoveredRow
  <1>5. db'[t] = row /\ db'[t] # None /\ \A u \in Tasks \ {t} : db'[u] = db[u]
    BY <1>4, Saves
  <1>6. OneMoves(t) /\ OneIsCounted(t)
    BY <1>2, <1>5, WrittenAlone
  <1>14. CASE t \in recalled
    BY <1>2, <1>6, <1>14, PromisedNothing DEF Backlogged
  <1> SUFFICES ASSUME t \notin recalled
               PROVE  Backlogged
    BY <1>14
  <1>7. Interrupts[t] = db[t].interrupts /\ Interrupts'[t] = row.interrupts
    BY <1>2, <1>3, <1>5 DEF Interrupts
  <1>8. db[t].interrupts \in Nat /\ MaxInterrupts \in Nat
    BY <1>3, QueueAssumption DEF QueueAssumption, Row
  <1>9. StageIs(t) /\ StageIs(t)'
    BY DEF StagesAre
  <1>10. ASSUME row.interrupts = db[t].interrupts + 1
         PROVE  Interrupts' = [Interrupts EXCEPT ![t] = @ + 1]
    BY <1>2, <1>3, <1>5, <1>6, <1>10 DEF Interrupts, OneIsCounted
  <1>11. CASE db[t].status = "running" /\ row.status = "queued"
    <2>1. Stage(t) = "interrupted" /\ Stage(t)' = "waiting"
      BY <1>1, <1>2, <1>3, <1>5, <1>9, <1>11 DEF StageIs
    <2>2. Survives!Moves(t, "interrupted", "waiting")
      BY <1>6, <2>1, Moved
    <2>3. Interrupts[t] < MaxInterrupts
      BY <1>4, <1>7, <1>8, <1>11
    <2>4. Interrupts' = [Interrupts EXCEPT ![t] = @ + 1]
      BY <1>4, <1>10, <1>11
    <2>5. Survives!Requeue(t)
      BY <2>2, <2>3, <2>4 DEF Survives!Requeue, Survives!Counted, Interrupts
    <2> QED  BY <2>5 DEF Backlogged, Survives!Next
  <1>12. CASE db[t].status = "running" /\ row.status = "failed"
    <2>1. Stage(t) = "interrupted" /\ Stage(t)' = "failed"
      BY <1>1, <1>2, <1>3, <1>5, <1>9, <1>12 DEF StageIs, Final
    <2>2. Survives!Moves(t, "interrupted", "failed")
      BY <1>6, <2>1, Moved
    <2>3. Interrupts[t] >= MaxInterrupts
      BY <1>4, <1>7, <1>8, <1>12
    <2>4. Interrupts' = [Interrupts EXCEPT ![t] = @ + 1]
      BY <1>4, <1>10, <1>12
    <2>5. Survives!Park(t)
      BY <2>2, <2>3, <2>4 DEF Survives!Park, Survives!Counted, Interrupts
    <2> QED  BY <2>5 DEF Backlogged, Survives!Next
  <1>13. CASE db[t].status = "paused" /\ row.status = "queued" /\ row.interrupts = db[t].interrupts
    <2>1. Stage(t) = "waiting" /\ Stage(t)' = "waiting"
      BY <1>2, <1>3, <1>5, <1>9, <1>13 DEF StageIs
    <2>2. Interrupts' = Interrupts
      BY <1>2, <1>3, <1>5, <1>6, <1>13, NotCounted
    <2>3. Stages' = Stages
      BY <1>6, <2>1 DEF Stages, OneMoves
    <2> QED  BY <2>2, <2>3 DEF Backlogged, Survives!vars, Stages, Interrupts
  <1> QED  BY <1>4, <1>11, <1>12, <1>13

LEMMA SubmissionIsBacklogged ==
  ASSUME TypeOK, TypeOK', StagesAre, StagesAre', NEW t \in Tasks, Submit(t)
  PROVE  Backlogged
  <1>1. UNCHANGED <<pc, copy, recalled>> /\ db[t] = None
    BY DEF Submit, workerVars
  <1>2. CASE UNCHANGED db
    BY <1>1, <1>2, NothingMoves
  <1>3. CASE Save(t, FreshRow)
    <2>1. db'[t] = FreshRow /\ db'[t] # None /\ \A u \in Tasks \ {t} : db'[u] = db[u]
      BY <1>3, Fresh, Saves
    <2>2. OneMoves(t) /\ OneIsCounted(t)
      BY <1>1, <2>1, WrittenAlone
    <2>3. CASE t \in recalled
      BY <1>1, <2>2, <2>3, PromisedNothing DEF Backlogged
    <2>4. CASE t \notin recalled
      <3>1. Stage(t) = "gone" /\ Stage(t)' = "waiting"
        BY <1>1, <2>1, <2>4 DEF StagesAre, StageIs, FreshRow
      <3> QED  BY <1>1, <2>2, <3>1, Submitted
    <2> QED  BY <2>3, <2>4
  <1> QED  BY <1>2, <1>3 DEF Submit

(* A retry, or the write of a cancel. *)
LEMMA ChangeIsBacklogged ==
  ASSUME TypeOK, TypeOK', PlainInv, StagesAre, StagesAre', SaveChange
  PROVE  Backlogged
  <1>1. PICK t : t = op.task
    OBVIOUS
  <1>2. t \in Tasks /\ op.row \in Row /\ Save(t, op.row) /\ op # None
    BY <1>1, Operated DEF SaveChange
  <1>3. UNCHANGED <<pc, copy, recalled>>
    BY DEF SaveChange, workerVars
  <1>4. db'[t] = op.row /\ db'[t] # None /\ \A u \in Tasks \ {t} : db'[u] = db[u]
    BY <1>2, Saves
  <1>5. OneMoves(t) /\ OneIsCounted(t)
    BY <1>2, <1>3, <1>4, WrittenAlone
  <1>6. CASE t \in recalled
    BY <1>2, <1>3, <1>5, <1>6, PromisedNothing DEF Backlogged
  <1>7. CASE t \notin recalled
    <2>1. /\ op.row.status = "queued"
          /\ db[t] # None => db[t].status = "failed" /\ db[t].interrupts = op.row.interrupts
      BY <1>1, <1>2, <1>7 DEF PlainInv, PlainOperation, Kept
    <2>2. Stage(t)' = "waiting"
      BY <1>2, <1>3, <1>4, <1>7, <2>1 DEF StagesAre, StageIs
    <2>3. CASE db[t] = None
      <3>1. Stage(t) = "gone"
        BY <1>2, <1>7, <2>3 DEF StagesAre, StageIs
      <3> QED  BY <1>2, <1>3, <1>5, <2>2, <3>1, Submitted
    <2>4. CASE db[t] # None
      <3>1. Stage(t) = "failed"
        BY <1>2, <1>7, <2>1, <2>4 DEF StagesAre, StageIs, Final
      <3>2. Survives!Moves(t, "failed", "waiting")
        BY <1>2, <1>5, <2>2, <3>1, Moved
      <3>3. Interrupts' = Interrupts
        BY <1>2, <1>3, <1>4, <1>5, <2>1, <2>4, NotCounted
      <3>4. Survives!Retry(t)
        BY <3>2, <3>3 DEF Survives!Retry, Interrupts
      <3> QED  BY <1>2, <3>4 DEF Backlogged, Survives!Next
    <2> QED  BY <2>3, <2>4
  <1> QED  BY <1>6, <1>7

(* The beginning of a cancel. *)
LEMMA CancelIsBacklogged ==
  ASSUME TypeOK, StagesAre, StagesAre', UNCHANGED <<db, pc, copy>>,
         NEW t \in Tasks, t \notin recalled, recalled' = recalled \union {t}
  PROVE  Backlogged
  <1>1. \A w \in Workers : Told(w)' = Told(w)
    BY DEF Told
  <1>2. Stage(t)' = "cancelled"
    BY DEF StagesAre, StageIs
  <1>3. \A u \in Tasks \ {t} : Stage(u)' = Stage(u)
    <2> SUFFICES ASSUME NEW u \in Tasks \ {t}
                 PROVE  Stage(u)' = Stage(u)
      OBVIOUS
    <2>1. u \in recalled' <=> u \in recalled
      OBVIOUS
    <2> QED  BY <1>1, <2>1, StageStays
  <1>4. Stages' = [Stages EXCEPT ![t] = "cancelled"]
    BY <1>2, <1>3 DEF Stages
  <1>5. Interrupts' = [Interrupts EXCEPT ![t] = 0]
    BY DEF Interrupts
  <1>6. Survives!Cancel(t)
    BY <1>4, <1>5 DEF Survives!Cancel, Stages, Interrupts
  <1> QED  BY <1>6 DEF Backlogged, Survives!Next

LEMMA CleanupIsBacklogged ==
  ASSUME TypeOK, PlainInv, StagesAre, StagesAre', Cleanup
  PROVE  Backlogged
  <1>1. PICK old \in SUBSET {t \in Tasks : Has(t, Final)} :
          db' = [t \in Tasks |-> IF t \in old THEN None ELSE db[t]]
    BY DEF Cleanup
  <1>2. UNCHANGED <<pc, copy, recalled>>
    BY DEF Cleanup, workerVars, userVars
  <1>3. PICK kept : kept = old \ recalled
    OBVIOUS
  <1>4. \A t \in kept : Stages[t] \in {"completed", "failed"}
    BY <1>1, <1>3 DEF Stages, StagesAre, StageIs, PlainInv, NoneCancelled, Final, Kept
  <1>5. \A t \in kept : Stage(t)' = "gone"
    BY <1>1, <1>2, <1>3 DEF StagesAre, StageIs
  <1>6. \A w \in Workers : Told(w)' = Told(w)
    BY <1>2 DEF Told
  <1>7. \A t \in Tasks \ kept : Stage(t)' = Stage(t)
    <2> SUFFICES ASSUME NEW t \in Tasks \ kept
                 PROVE  Stage(t)' = Stage(t)
      OBVIOUS
    <2>1. CASE t \in recalled
      BY <1>2, <2>1 DEF StagesAre, StageIs
    <2>2. CASE t \notin recalled
      <3>1. db'[t] = db[t]
        BY <1>1, <1>3, <2>2
      <3> QED  BY <1>2, <1>6, <3>1, StageStays
    <2> QED  BY <2>1, <2>2
  <1>8. Stages' = [t \in Tasks |-> IF t \in kept THEN "gone" ELSE Stages[t]]
    BY <1>1, <1>5, <1>7 DEF Stages
  <1>9. Interrupts' = [t \in Tasks |-> IF t \in kept THEN 0 ELSE Interrupts[t]]
    BY <1>1, <1>2, <1>3 DEF Interrupts
  <1>10. kept \in SUBSET {t \in Tasks : Stages[t] \in {"completed", "failed"}}
    BY <1>1, <1>3, <1>4
  <1>11. Survives!Remove
    BY <1>8, <1>9, <1>10 DEF Survives!Remove, Survives!Over, Stages, Interrupts
  <1> QED  BY <1>11 DEF Backlogged, Survives!Next

LEMMA BacklogStep ==
  ASSUME TypeOK, TypeOK', ProcessInv, OneWorker, PlainInv, PlainInv', StagesAre, StagesAre',
         [Next]_vars
  PROVE  Backlogged
  <1>1. CASE UNCHANGED vars
    BY <1>1, NothingMoves DEF vars, workerVars, userVars
  <1>2. CASE Restart \/ Stop \/ Signal
    BY <1>2, NothingMoves DEF Restart, Stop, Signal, workerVars, userVars
  <1>3. CASE Serve
    <2>1. UNCHANGED <<db, recalled>> /\ \A w \in Workers : copy'[w].task = None
      BY <1>3 DEF Serve, ProcessInv, TypeOK, userVars
    <2> QED  BY <2>1, LetGo
  <1>4. CASE Stopped \/ Crash
    <2>1. UNCHANGED <<db, recalled>> /\ \A w \in Workers : copy'[w].task = None
      BY <1>4 DEF Stopped, Crash, Exit, Idle
    <2> QED  BY <2>1, LetGo
  <1>5. ASSUME NEW t \in Tasks, Recover(t)
        PROVE  Backlogged
    BY <1>5, RecoveryIsBacklogged
  <1>6. ASSUME NEW w \in Workers, Worker(w)
        PROVE  Backlogged
    BY <1>6, WorkerIsBacklogged
  <1>7. ASSUME NEW t \in Tasks, Submit(t)
        PROVE  Backlogged
    BY <1>7, SubmissionIsBacklogged
  <1>8. ASSUME NEW kind \in Operations, NEW t \in Tasks, Load(kind, t)
        PROVE  Backlogged
    <2>1. UNCHANGED <<db, pc, copy>>
      BY <1>8 DEF Load, workerVars
    <2>2. CASE recalled' = recalled
      BY <2>1, <2>2, NothingMoves
    <2>3. CASE recalled' # recalled
      <3>1. t \notin recalled /\ recalled' = recalled \union {t}
        BY <1>8, <2>3 DEF Load
      <3> QED  BY <2>1, <3>1, CancelIsBacklogged
    <2> QED  BY <2>2, <2>3
  <1>9. CASE SaveChange
    BY <1>9, ChangeIsBacklogged
  <1>10. CASE Cleanup
    BY <1>10, CleanupIsBacklogged
  <1> QED  BY <1>1, <1>2, <1>3, <1>4, <1>5, <1>6, <1>7, <1>8, <1>9, <1>10 DEF Next

LEMMA StartOfBacklog ==
  ASSUME Init, StagesAre
  PROVE  PlainInv /\ Survives!Init
  <1>1. \A t \in Tasks : db[t] \in {FreshRow, None}
    BY DEF Init
  <1>2. FreshRow.status = "queued" /\ FreshRow.interrupts = 0 /\ FreshRow # None
    BY Fresh DEF FreshRow
  <1>3. PlainInv
    BY <1>1, <1>2, QueueAssumption DEF QueueAssumption, Init, Idle, PlainInv, PlainOperation,
       NoneCancelled, PlainHand, Kept
  <1>4. \A t \in Tasks : Stage(t) \in {"gone", "waiting"}
    BY <1>1, <1>2 DEF Init, StagesAre, StageIs
  <1>5. Interrupts = [t \in Tasks |-> 0]
    BY <1>1, <1>2 DEF Interrupts
  <1>6. Stages \in [Tasks -> {"gone", "waiting"}]
    BY <1>4 DEF Stages
  <1> QED  BY <1>3, <1>5, <1>6 DEF Survives!Init, Stages, Interrupts

(***************************************************************************)
(* For the tasks that nobody cancels the queue is an at-least-once queue:  *)
(* whatever ends the process, between whatever two writes, and whatever is *)
(* cancelled beside it, a task waits, is executed by one worker at a time, *)
(* and is over only when the end of an execution has been written down;    *)
(* what was lost is begun again until it has been interrupted too often.   *)
(* "Tasks survive terminal close, restart, and disconnection."             *)
(***************************************************************************)
THEOREM TheQueueIsABacklog ==
  ASSUME NoCheckpoints, OneWorker
  PROVE  Spec => IsBacklog
  <1> DEFINE Inv == TypeOK /\ ProcessInv /\ PlainInv
  <1>1. Init => Inv /\ Survives!Init
    BY Start, StagesKnown, StartOfBacklog
  <1>2. Inv /\ [Next]_vars => Inv'
    BY TypeStep, ProcessStep, PlainStep
  <1>3. StagesAre
    BY StagesKnown
  <1>4. /\ Inv /\ Inv'
        /\ StagesAre /\ StagesAre'
        /\ [Next]_vars
        => [Survives!Next]_(Survives!vars)
    BY BacklogStep DEF Backlogged
  <1> HIDE DEF Inv
  <1> QED  BY <1>1, <1>2, <1>3, <1>4, PTL DEF Spec, IsBacklog, Survives!Spec
=============================================================================
