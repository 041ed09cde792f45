------------------------------ MODULE Host_proofs -------------------------------
(***************************************************************************)
(* Proofs about the threads and processes of one host, for every set of    *)
(* them and every value of the bounds: the lock of a conversation           *)
(* (FIFOLock), and what module Host composes, in every behaviour of         *)
(* HostSpec.  Each part has an inductive invariant of its own, which        *)
(* HostSteps carries to the whole.                                          *)
(*                                                                         *)
(* The lock: NoStrandedWaiter is not inductive alone.  That a queued waiter *)
(* survives the timeout of another one needs QueueSound (nobody still       *)
(* queued has been signalled, so leaving the queue never drops a grant);    *)
(* that a held lock has somebody to release it needs OwnerInside.           *)
(*                                                                         *)
(* The guard: the file of a live supervisor stays because whoever removes a *)
(* file has seen that its creator is dead, and nobody can have become the   *)
(* supervisor since then: that takes a start, and another start is in       *)
(* progress.                                                                *)
(*                                                                         *)
(* The link: there is one socket because an attempt that succeeds closes    *)
(* the socket it replaces, and because at most one task is in the middle of *)
(* an attempt.                                                             *)
(*                                                                         *)
(* The scheduler: a job is run once in its slot because its next slot is in *)
(* the file before its agent starts, and whoever writes the file has read   *)
(* what the last one wrote.                                                *)
(*                                                                         *)
(* The pipeline: what is known of a role follows from the place of its task *)
(* (ResultsFit); the last role says something only after all roles of the   *)
(* pipeline, so that nobody is at work when it approves (AllHaveWorked).    *)
(*                                                                         *)
(* The limiter: in the calm the window is what was really sent, and who     *)
(* waits has exactly the time to wait that the oldest request has in it.    *)
(***************************************************************************)
EXTENDS Host, QueueLemmas, WellFoundedInduction

-----------------------------------------------------------------------------
(* The lock of a conversation.                                             *)

IInv == TypeOK /\ OwnerInside /\ QueueSound /\ NoStrandedWaiter

LEMMA InitIInv == Init => IInv
<1> SUFFICES ASSUME Init
             PROVE  IInv
  OBVIOUS
<1>1. waiters \in Seq(Threads) /\ IsInjective(waiters) /\ \A e : ~Contains(waiters, e)
  BY EmptyQueue DEF Init
<1>2. TypeOK
  BY <1>1 DEF Init, TypeOK, Places
<1>3. QED
  BY <1>1, <1>2 DEF Init, IInv, OwnerInside, QueueSound, NoStrandedWaiter

LEMMA AcquireFastIInv ==
    ASSUME IInv, NEW t \in Threads, AcquireFast(t)
    PROVE  IInv'
  BY DEF AcquireFast, Goto, IInv, TypeOK, OwnerInside, QueueSound,
         NoStrandedWaiter, OnItsWay, Places

LEMMA EnqueueIInv ==
    ASSUME IInv, NEW t \in Threads, Enqueue(t)
    PROVE  IInv'
<1> USE DEF IInv
<1>1. ~Contains(waiters, t)
  BY DEF Enqueue, QueueSound
<1>2. /\ waiters' \in Seq(Threads)
      /\ IsInjective(waiters')
      /\ \A e : Contains(waiters', e) <=> Contains(waiters, e) \/ e = t
  BY <1>1, AppendQueue DEF Enqueue, TypeOK, QueueSound
<1>3. TypeOK'
  BY <1>2 DEF Enqueue, Goto, TypeOK, Places
<1>4. OwnerInside'
  BY DEF Enqueue, Goto, TypeOK, OwnerInside
<1>5. QueueSound'
  BY <1>2 DEF Enqueue, Goto, TypeOK, QueueSound
<1>6. NoStrandedWaiter'
  BY <1>4 DEF Enqueue, NoStrandedWaiter
<1>7. QED
  BY <1>3, <1>4, <1>5, <1>6

LEMMA WaitEndsIInv ==
    ASSUME IInv, NEW t \in Threads, Wake(t) \/ Expire(t)
    PROVE  IInv'
<1> USE DEF IInv, Goto
<1>1. TypeOK'
  BY DEF Wake, Expire, TypeOK, Places
<1>2. OwnerInside'
  BY DEF Wake, Expire, TypeOK, OwnerInside
<1>3. QueueSound'
  BY DEF Wake, Expire, TypeOK, QueueSound
<1>4. NoStrandedWaiter'
  BY <1>2 DEF Wake, Expire, TypeOK, NoStrandedWaiter, OnItsWay
<1>5. QED
  BY <1>1, <1>2, <1>3, <1>4

LEMMA WithdrawIInv ==
    ASSUME IInv, NEW t \in Threads, Withdraw(t)
    PROVE  IInv'
<1> USE DEF IInv, Goto
<1>1. CASE pc' = [pc EXCEPT ![t] = "out"]
  <2>1. PICK i \in 1 .. Len(waiters) :
            waiters[i] = t /\ waiters' = RemoveAt(waiters, i)
    BY <1>1 DEF Withdraw, TypeOK
  <2>2. /\ waiters' \in Seq(Threads)
        /\ IsInjective(waiters')
        /\ \A e : Contains(waiters', e) <=> Contains(waiters, e) /\ e # t
    BY <2>1, RemoveAtQueue DEF TypeOK, QueueSound
  <2>3. Contains(waiters, t) /\ t \notin signalled
    BY <2>1 DEF Contains, QueueSound
  <2>4. TypeOK'
    BY <1>1, <2>2 DEF Withdraw, TypeOK, Places
  <2>5. OwnerInside'
    BY <1>1 DEF Withdraw, TypeOK, OwnerInside
  <2>6. QueueSound'
    BY <1>1, <2>2 DEF Withdraw, TypeOK, QueueSound
  <2>7. NoStrandedWaiter'
    <3>1. waiters # <<>>
      BY <2>3, EmptySeq DEF Contains
    <3>2. \A u \in Threads : OnItsWay(u) => OnItsWay(u)'
      BY <1>1, <2>3 DEF Withdraw, TypeOK, OnItsWay
    <3>3. QED
      BY <2>5, <3>1, <3>2 DEF Withdraw, NoStrandedWaiter
  <2>8. QED
    BY <2>4, <2>5, <2>6, <2>7
<1>2. CASE pc' = [pc EXCEPT ![t] = "granted"] /\ UNCHANGED waiters /\ ~Contains(waiters, t)
  <2>1. TypeOK'
    BY <1>2 DEF Withdraw, TypeOK, Places
  <2>2. OwnerInside'
    BY <1>2 DEF Withdraw, TypeOK, OwnerInside
  <2>3. QueueSound'
    BY <1>2 DEF Withdraw, TypeOK, QueueSound
  <2>4. NoStrandedWaiter'
    BY <1>2, <2>2 DEF Withdraw, TypeOK, NoStrandedWaiter, OnItsWay
  <2>5. QED
    BY <2>1, <2>2, <2>3, <2>4
<1>3. QED
  BY <1>1, <1>2 DEF Withdraw

LEMMA TakeIInv ==
    ASSUME IInv, NEW t \in Threads, Take(t)
    PROVE  IInv'
  BY DEF Take, Goto, IInv, TypeOK, OwnerInside, QueueSound,
         NoStrandedWaiter, OnItsWay, Places

LEMMA ReleaseHeldIInv ==
    ASSUME IInv, NEW t \in Threads, ReleaseHeld(t)
    PROVE  IInv'
<1> USE DEF IInv, Goto
<1>1. CASE waiters = <<>>
  BY <1>1 DEF ReleaseHeld, TypeOK, OwnerInside, QueueSound, NoStrandedWaiter,
              OnItsWay, Places
<1>2. CASE waiters # <<>>
  <2>1. /\ Head(waiters) \in Threads
        /\ Contains(waiters, Head(waiters))
        /\ Tail(waiters) \in Seq(Threads)
        /\ IsInjective(Tail(waiters))
        /\ \A e : Contains(Tail(waiters), e) <=> Contains(waiters, e) /\ e # Head(waiters)
    BY <1>2, TailQueue DEF TypeOK, QueueSound
  <2> PICK h \in Threads : h = Head(waiters)
    BY <2>1
  <2>2. /\ Contains(waiters, h)
        /\ waiters' \in Seq(Threads)
        /\ IsInjective(waiters')
        /\ \A e : Contains(waiters', e) <=> Contains(waiters, e) /\ e # h
        /\ signalled' = signalled \union {h}
    BY <1>2, <2>1 DEF ReleaseHeld
  <2>3. h # t /\ pc[h] \in {"waiting", "expired"}
    BY <2>2 DEF ReleaseHeld, QueueSound
  <2>4. TypeOK'
    BY <2>2 DEF ReleaseHeld, TypeOK, Places
  <2>5. OwnerInside'
    BY DEF ReleaseHeld, OwnerInside
  <2>6. QueueSound'
    BY <2>2 DEF ReleaseHeld, TypeOK, QueueSound
  <2>7. OnItsWay(h)'
    BY <2>2, <2>3 DEF ReleaseHeld, TypeOK, OnItsWay
  <2>8. QED
    BY <2>4, <2>5, <2>6, <2>7 DEF NoStrandedWaiter
<1>3. QED
  BY <1>1, <1>2

LEMMA ReleaseUnheldIInv ==
    ASSUME IInv, NEW t \in Threads, ReleaseUnheld(t)
    PROVE  IInv'
<1> USE DEF IInv, Goto
<1>1. \A u \in Threads : OnItsWay(u) => OnItsWay(u)'
  BY DEF ReleaseUnheld, TypeOK, OnItsWay
<1>2. NoStrandedWaiter'
  BY <1>1 DEF ReleaseUnheld, NoStrandedWaiter
<1>3. QED
  BY <1>2 DEF ReleaseUnheld, TypeOK, OwnerInside, QueueSound, Places

(***************************************************************************)
(* The inductive invariant holds in every reachable state, whatever the    *)
(* threads, the timeouts and the schedule.                                 *)
(***************************************************************************)
THEOREM Invariance == Spec => []IInv
<1>1. Init => IInv
  BY InitIInv
<1>2. IInv /\ [Next]_vars => IInv'
  <2> SUFFICES ASSUME IInv, [Next]_vars
               PROVE  IInv'
    OBVIOUS
  <2>1. ASSUME NEW t \in Threads, AcquireFast(t) PROVE IInv'
    BY <2>1, AcquireFastIInv
  <2>2. ASSUME NEW t \in Threads, Enqueue(t) PROVE IInv'
    BY <2>2, EnqueueIInv
  <2>3. ASSUME NEW t \in Threads, Wake(t) \/ Expire(t) PROVE IInv'
    BY <2>3, WaitEndsIInv
  <2>4. ASSUME NEW t \in Threads, Withdraw(t) PROVE IInv'
    BY <2>4, WithdrawIInv
  <2>5. ASSUME NEW t \in Threads, Take(t) PROVE IInv'
    BY <2>5, TakeIInv
  <2>6. ASSUME NEW t \in Threads, ReleaseHeld(t) PROVE IInv'
    BY <2>6, ReleaseHeldIInv
  <2>7. ASSUME NEW t \in Threads, ReleaseUnheld(t) PROVE IInv'
    BY <2>7, ReleaseUnheldIInv
  <2>8. CASE UNCHANGED vars
    BY <2>8 DEF vars, IInv, TypeOK, OwnerInside, QueueSound, NoStrandedWaiter, OnItsWay
  <2>9. QED
    BY <2>1, <2>2, <2>3, <2>4, <2>5, <2>6, <2>7, <2>8 DEF Next
<1>3. QED
  BY <1>1, <1>2, PTL DEF Spec

(* The variables keep their types, and _owner is None iff the lock is free. *)
THEOREM TypeCorrect == Spec => []TypeOK
  BY Invariance, PTL DEF IInv

(* The deque and the events agree in every reachable state. *)
THEOREM QueueIsSound == Spec => []QueueSound
  BY Invariance, PTL DEF IInv

(***************************************************************************)
(* No wakeup is lost: a queued waiter always has an owner inside, or a     *)
(* dequeued waiter on its way in, that will come to release.               *)
(***************************************************************************)
THEOREM NoWaiterIsStranded == Spec => []NoStrandedWaiter
  BY Invariance, PTL DEF IInv

-----------------------------------------------------------------------------

(* A step of the host is a step, or none, of each of its parts. *)
LEMMA HostSteps ==
    ASSUME [HostNext]_hostVars
    PROVE  /\ [Pipe!Next]_(Pipe!vars) /\ [Limit!Next]_(Limit!vars) /\ [Guard!Next]_(Guard!vars)
           /\ [Sched!Next]_(Sched!vars) /\ [Link!Next]_(Link!vars)
<1>1. [Pipe!Next]_(Pipe!vars)
  BY DEF HostNext, hostVars, pipeline, Pipe!vars
<1>2. [Limit!Next]_(Limit!vars)
  BY DEF HostNext, hostVars, limiter, Limit!vars
<1>3. [Guard!Next]_(Guard!vars)
  BY DEF HostNext, hostVars, guard, Guard!vars
<1>4. [Sched!Next]_(Sched!vars)
  BY DEF HostNext, hostVars, schedule, Sched!vars
<1>5. [Link!Next]_(Link!vars)
  BY DEF HostNext, hostVars, link, Link!vars
<1>6. QED
  BY <1>1, <1>2, <1>3, <1>4, <1>5

-----------------------------------------------------------------------------
(* The guard of the supervisor, for processes that start one after the     *)
(* other and die at any step.                                              *)

(* One process starts at a time. *)
OneStarts ==
    \A p, q \in alive :
        procAt[p] \in Guard!Starting /\ procAt[q] \in Guard!Starting => p = q

(* The supervisor's file has its pid. *)
HoldersFile == \A p \in Guard!Holders : pidFile = p /\ p \in written

(* The file of a process that is about to write its pid is its own. *)
OwnFile == \A p \in alive : procAt[p] = "write" => pidFile = p

(* A file that is about to be removed is nobody's. *)
StaleIsStale == \A p \in alive : procAt[p] \in {"reclaim", "replace"} => Guard!Holders = {}

(* After the removal of a stale file there is none. *)
RoomIsMade == \A p \in alive : procAt[p] = "recreate" => pidFile = None

(* The file of a live process is the supervisor's, or will be. *)
LiveFile == \A p \in alive : pidFile = p => procAt[p] \in {"write"} \union Guard!Holding

GuardIInv ==
    /\ Guard!TypeOK
    /\ OneStarts /\ HoldersFile /\ OwnFile /\ StaleIsStale /\ RoomIsMade /\ LiveFile

(* What a process does with its place, and with nothing else. *)
LEMMA MoveType ==
    ASSUME Guard!TypeOK, NEW p, NEW from, NEW to, Guard!Move(p, from, to),
           to \in {"new", "refused", "gone"} \union Guard!Starting \union Guard!Holding
    PROVE  /\ p \in Procs /\ procAt[p] = from /\ procAt'[p] = to
           /\ \A q \in Procs \ {p} : procAt'[q] = procAt[q]
           /\ procAt' \in [Procs -> {"new", "refused", "gone"}
                                       \union Guard!Starting \union Guard!Holding]
BY DEF Guard!Move, Guard!TypeOK

LEMMA StartIInv ==
    ASSUME GuardIInv, NEW p \in Procs, Guard!Start(p)
    PROVE  GuardIInv'
<1>1. Guard!TypeOK
  BY DEF GuardIInv
<1>2. /\ p \in alive /\ procAt[p] = "new" /\ procAt'[p] = "create"
      /\ \A q \in Procs \ {p} : procAt'[q] = procAt[q]
      /\ procAt' \in [Procs -> {"new", "refused", "gone"}
                                  \union Guard!Starting \union Guard!Holding]
  BY <1>1, MoveType DEF Guard!Start, Guard!Starting, Guard!Move
<1>3. /\ UNCHANGED <<pidFile, written, alive>>
      /\ \A q \in alive : procAt[q] \notin Guard!Starting
  BY DEF Guard!Start
<1>4. Guard!Holders' = Guard!Holders
  BY <1>1, <1>2, <1>3 DEF Guard!Holders, Guard!Holding, Guard!TypeOK
<1>5. Guard!TypeOK'
  BY <1>1, <1>2, <1>3 DEF Guard!TypeOK, Guard!Holding
<1>6. OneStarts'
  BY <1>1, <1>2, <1>3 DEF OneStarts, Guard!TypeOK
<1>7. HoldersFile' /\ OwnFile' /\ StaleIsStale' /\ RoomIsMade'
  BY <1>1, <1>2, <1>3, <1>4
  DEF GuardIInv, HoldersFile, OwnFile, StaleIsStale, RoomIsMade, Guard!TypeOK
<1>8. LiveFile'
  BY <1>1, <1>2, <1>3 DEF GuardIInv, LiveFile, Guard!TypeOK, Guard!Holding
<1>9. QED
  BY <1>5, <1>6, <1>7, <1>8 DEF GuardIInv

LEMMA CreateIInv ==
    ASSUME GuardIInv, Guard!SupervisorAssumption, NEW p \in Procs, Guard!Create(p)
    PROVE  GuardIInv'
<1>1. Guard!TypeOK
  BY DEF GuardIInv
<1>2. CASE /\ pidFile = None /\ pidFile' = p
           /\ Guard!Move(p, "create", "write") \/ Guard!Move(p, "recreate", "write")
  <2>1. /\ p \in alive /\ procAt[p] \in {"create", "recreate"} /\ procAt'[p] = "write"
        /\ \A q \in Procs \ {p} : procAt'[q] = procAt[q]
        /\ procAt' \in [Procs -> {"new", "refused", "gone"}
                                    \union Guard!Starting \union Guard!Holding]
    BY <1>1, <1>2, MoveType DEF Guard!Starting, Guard!Move
  <2>2. UNCHANGED <<written, alive>>
    BY DEF Guard!Create
  <2>3. Guard!Holders = {}
    BY <1>1, <1>2
    DEF GuardIInv, HoldersFile, Guard!Holders, Guard!TypeOK, Guard!SupervisorAssumption
  <2>4. Guard!Holders' = {}
    BY <1>1, <2>1, <2>2, <2>3 DEF Guard!Holders, Guard!Holding, Guard!TypeOK
  <2>5. \A q \in alive : q # p => procAt[q] \notin Guard!Starting
    BY <1>1, <2>1 DEF GuardIInv, OneStarts, Guard!Starting, Guard!TypeOK
  <2>6. Guard!TypeOK'
    BY <1>1, <1>2, <2>1, <2>2 DEF Guard!TypeOK, Guard!Holding
  <2>7. OneStarts' /\ HoldersFile' /\ OwnFile' /\ StaleIsStale' /\ RoomIsMade' /\ LiveFile'
    BY <1>1, <1>2, <2>1, <2>2, <2>4, <2>5
    DEF OneStarts, HoldersFile, OwnFile, StaleIsStale, RoomIsMade, LiveFile, Guard!TypeOK,
        Guard!Starting
  <2>8. QED
    BY <2>6, <2>7 DEF GuardIInv
<1>3. CASE /\ pidFile # None /\ UNCHANGED pidFile
           /\ Guard!Move(p, "create", "inspect") \/ Guard!Move(p, "recreate", "refused")
  <2>1. /\ p \in alive /\ procAt[p] \in {"create", "recreate"}
        /\ procAt'[p] \in {"inspect", "refused"}
        /\ \A q \in Procs \ {p} : procAt'[q] = procAt[q]
        /\ procAt' \in [Procs -> {"new", "refused", "gone"}
                                    \union Guard!Starting \union Guard!Holding]
    BY <1>1, <1>3, MoveType DEF Guard!Starting, Guard!Move
  <2>2. UNCHANGED <<pidFile, written, alive>>
    BY <1>3 DEF Guard!Create
  <2>3. Guard!Holders' = Guard!Holders
    BY <1>1, <2>1, <2>2 DEF Guard!Holders, Guard!Holding, Guard!TypeOK
  <2>4. Guard!TypeOK'
    BY <1>1, <2>1, <2>2 DEF Guard!TypeOK, Guard!Holding
  <2>5. OneStarts' /\ HoldersFile' /\ OwnFile' /\ StaleIsStale' /\ RoomIsMade'
    BY <1>1, <2>1, <2>2, <2>3
    DEF GuardIInv, OneStarts, HoldersFile, OwnFile, StaleIsStale, RoomIsMade, Guard!TypeOK,
        Guard!Starting
  <2>6. LiveFile'
    BY <1>1, <2>1, <2>2 DEF GuardIInv, LiveFile, Guard!TypeOK, Guard!Holding
  <2>7. QED
    BY <2>4, <2>5, <2>6 DEF GuardIInv
<1>4. QED
  BY <1>2, <1>3 DEF Guard!Create

LEMMA WriteIInv ==
    ASSUME GuardIInv, NEW p \in Procs, Guard!Write(p)
    PROVE  GuardIInv'
<1>1. Guard!TypeOK
  BY DEF GuardIInv
<1>2. /\ p \in alive /\ procAt[p] = "write" /\ procAt'[p] = "holds"
      /\ \A q \in Procs \ {p} : procAt'[q] = procAt[q]
      /\ procAt' \in [Procs -> {"new", "refused", "gone"}
                                  \union Guard!Starting \union Guard!Holding]
  BY <1>1, MoveType DEF Guard!Write, Guard!Holding, Guard!Move
<1>3. UNCHANGED <<pidFile, alive>> /\ written' = written \union {p}
  BY DEF Guard!Write
<1>4. pidFile = p /\ \A q \in alive : q # p => procAt[q] \notin Guard!Starting
  BY <1>1, <1>2 DEF GuardIInv, OwnFile, OneStarts, Guard!Starting, Guard!TypeOK
<1>5. Guard!Holders' = Guard!Holders \union {p}
  BY <1>1, <1>2, <1>3 DEF Guard!Holders, Guard!Holding, Guard!TypeOK
<1>6. Guard!TypeOK'
  BY <1>1, <1>2, <1>3 DEF Guard!TypeOK, Guard!Holding
<1>7. OneStarts' /\ StaleIsStale' /\ RoomIsMade' /\ OwnFile'
  BY <1>1, <1>2, <1>3, <1>4
  DEF OneStarts, StaleIsStale, RoomIsMade, OwnFile, Guard!TypeOK, Guard!Starting
<1>8. HoldersFile'
  BY <1>3, <1>4, <1>5 DEF GuardIInv, HoldersFile
<1>9. LiveFile'
  BY <1>1, <1>2, <1>3, <1>4 DEF LiveFile, Guard!TypeOK, Guard!Holding
<1>10. QED
  BY <1>6, <1>7, <1>8, <1>9 DEF GuardIInv

LEMMA InspectIInv ==
    ASSUME GuardIInv, Guard!SupervisorAssumption, NEW p \in Procs, Guard!Inspect(p)
    PROVE  GuardIInv'
<1>1. Guard!TypeOK
  BY DEF GuardIInv
<1>2. /\ p \in alive /\ procAt[p] = "inspect"
      /\ procAt'[p] \in {"reclaim", "refused", "replace"}
      /\ \A q \in Procs \ {p} : procAt'[q] = procAt[q]
      /\ procAt' \in [Procs -> {"new", "refused", "gone"}
                                  \union Guard!Starting \union Guard!Holding]
  BY <1>1, MoveType DEF Guard!Inspect, Guard!Starting, Guard!Move
<1>3. UNCHANGED <<pidFile, written, alive>>
  BY DEF Guard!Inspect
<1>4. procAt'[p] \in {"reclaim", "replace"} => ~Guard!Readable \/ pidFile \notin alive
  BY <1>1, <1>2, MoveType DEF Guard!Inspect, Guard!Move, Guard!Starting
<1>5. Guard!Holders # {} => Guard!Readable /\ pidFile \in alive
  BY <1>1
  DEF GuardIInv, HoldersFile, Guard!Holders, Guard!Readable, Guard!TypeOK,
      Guard!SupervisorAssumption
<1>6. Guard!Holders' = Guard!Holders
  BY <1>1, <1>2, <1>3 DEF Guard!Holders, Guard!Holding, Guard!TypeOK
<1>7. Guard!TypeOK'
  BY <1>1, <1>2, <1>3 DEF Guard!TypeOK, Guard!Holding
<1>8. StaleIsStale'
  BY <1>1, <1>2, <1>3, <1>4, <1>5, <1>6 DEF GuardIInv, StaleIsStale, Guard!TypeOK
<1>9. OneStarts' /\ HoldersFile' /\ OwnFile' /\ RoomIsMade'
  BY <1>1, <1>2, <1>3, <1>6
  DEF GuardIInv, OneStarts, HoldersFile, OwnFile, RoomIsMade, Guard!TypeOK, Guard!Starting
<1>10. LiveFile'
  BY <1>1, <1>2, <1>3 DEF GuardIInv, LiveFile, Guard!TypeOK, Guard!Holding
<1>11. QED
  BY <1>7, <1>8, <1>9, <1>10 DEF GuardIInv

LEMMA RemoveIInv ==
    ASSUME GuardIInv, Guard!SupervisorAssumption, NEW p \in Procs, Guard!Remove(p)
    PROVE  GuardIInv'
<1>1. Guard!TypeOK
  BY DEF GuardIInv
<1>2. /\ p \in alive /\ procAt[p] \in {"reclaim", "replace"}
      /\ procAt'[p] \in {"create", "recreate"}
      /\ \A q \in Procs \ {p} : procAt'[q] = procAt[q]
      /\ procAt' \in [Procs -> {"new", "refused", "gone"}
                                  \union Guard!Starting \union Guard!Holding]
  BY <1>1, MoveType DEF Guard!Remove, Guard!Starting, Guard!Move
<1>3. pidFile' = None /\ UNCHANGED <<written, alive>>
  BY DEF Guard!Remove
<1>4. Guard!Holders = {}
  BY <1>2 DEF GuardIInv, StaleIsStale
<1>5. Guard!Holders' = {}
  BY <1>1, <1>2, <1>3, <1>4 DEF Guard!Holders, Guard!Holding, Guard!TypeOK
<1>6. Guard!TypeOK'
  BY <1>1, <1>2, <1>3 DEF Guard!TypeOK, Guard!Holding
<1>7. \A q \in alive : q # p => procAt[q] \notin Guard!Starting
  BY <1>1, <1>2 DEF GuardIInv, OneStarts, Guard!Starting, Guard!TypeOK
<1>8. OneStarts' /\ HoldersFile' /\ OwnFile' /\ StaleIsStale' /\ RoomIsMade'
  BY <1>1, <1>2, <1>3, <1>5, <1>7
  DEF OneStarts, HoldersFile, OwnFile, StaleIsStale, RoomIsMade, Guard!TypeOK,
      Guard!Starting
<1>9. LiveFile'
  BY <1>1, <1>3 DEF LiveFile, Guard!TypeOK, Guard!SupervisorAssumption
<1>10. QED
  BY <1>6, <1>8, <1>9 DEF GuardIInv

LEMMA ReleaseIInv ==
    ASSUME GuardIInv, Guard!SupervisorAssumption, NEW p \in Procs, Guard!Release(p)
    PROVE  GuardIInv'
<1>1. Guard!TypeOK
  BY DEF GuardIInv
<1>2. p \in alive /\ procAt[p] = "holds"
  BY DEF Guard!Release, Guard!Move
<1>3. Guard!Readable /\ pidFile = p
  BY <1>1, <1>2
  DEF GuardIInv, HoldersFile, Guard!Holders, Guard!Holding, Guard!Readable, Guard!TypeOK,
      Guard!SupervisorAssumption
<1>4. /\ procAt'[p] = "remove"
      /\ \A q \in Procs \ {p} : procAt'[q] = procAt[q]
      /\ procAt' \in [Procs -> {"new", "refused", "gone"}
                                  \union Guard!Starting \union Guard!Holding]
  BY <1>1, <1>3, MoveType DEF Guard!Release, Guard!Holding
<1>5. UNCHANGED <<pidFile, written, alive>>
  BY DEF Guard!Release
<1>6. Guard!Holders' = Guard!Holders
  BY <1>1, <1>2, <1>4, <1>5 DEF Guard!Holders, Guard!Holding, Guard!TypeOK
<1>7. Guard!TypeOK'
  BY <1>1, <1>2, <1>4, <1>5 DEF Guard!TypeOK, Guard!Holding
<1>8. OneStarts' /\ HoldersFile' /\ OwnFile' /\ StaleIsStale' /\ RoomIsMade'
  BY <1>1, <1>2, <1>4, <1>5, <1>6
  DEF GuardIInv, OneStarts, HoldersFile, OwnFile, StaleIsStale, RoomIsMade, Guard!TypeOK,
      Guard!Starting
<1>9. LiveFile'
  BY <1>1, <1>2, <1>4, <1>5 DEF GuardIInv, LiveFile, Guard!TypeOK, Guard!Holding
<1>10. QED
  BY <1>7, <1>8, <1>9 DEF GuardIInv

LEMMA RemovedIInv ==
    ASSUME GuardIInv, Guard!SupervisorAssumption, NEW p \in Procs, Guard!Removed(p)
    PROVE  GuardIInv'
<1>1. Guard!TypeOK
  BY DEF GuardIInv
<1>2. /\ p \in alive /\ procAt[p] = "remove" /\ procAt'[p] = "gone"
      /\ \A q \in Procs \ {p} : procAt'[q] = procAt[q]
      /\ procAt' \in [Procs -> {"new", "refused", "gone"}
                                  \union Guard!Starting \union Guard!Holding]
  BY <1>1, MoveType DEF Guard!Removed, Guard!Move
<1>3. pidFile' = None /\ UNCHANGED <<written, alive>>
  BY DEF Guard!Removed
<1>4. p \in Guard!Holders /\ pidFile = p
  BY <1>2 DEF GuardIInv, HoldersFile, Guard!Holders, Guard!Holding
<1>5. Guard!Holders = {p}
  BY <1>4 DEF GuardIInv, HoldersFile
<1>6. Guard!Holders' = {}
  BY <1>1, <1>2, <1>3, <1>5 DEF Guard!Holders, Guard!Holding, Guard!TypeOK
<1>7. \A q \in alive : procAt[q] # "write"
  BY <1>2, <1>4 DEF GuardIInv, OwnFile
<1>8. Guard!TypeOK'
  BY <1>1, <1>2, <1>3 DEF Guard!TypeOK, Guard!Holding
<1>9. OneStarts' /\ HoldersFile' /\ OwnFile' /\ StaleIsStale' /\ RoomIsMade'
  BY <1>1, <1>2, <1>3, <1>6, <1>7
  DEF GuardIInv, OneStarts, HoldersFile, OwnFile, StaleIsStale, RoomIsMade, Guard!TypeOK,
      Guard!Starting
<1>10. LiveFile'
  BY <1>1, <1>3 DEF LiveFile, Guard!TypeOK, Guard!SupervisorAssumption
<1>11. QED
  BY <1>8, <1>9, <1>10 DEF GuardIInv

LEMMA DieIInv ==
    ASSUME GuardIInv, NEW p \in Procs, Guard!Die(p)
    PROVE  GuardIInv'
<1>1. alive' = alive \ {p} /\ UNCHANGED <<pidFile, written, procAt>>
  BY DEF Guard!Die
<1>2. Guard!Holders' = Guard!Holders \ {p}
  BY <1>1 DEF Guard!Holders
<1>3. QED
  BY <1>1, <1>2
  DEF GuardIInv, Guard!TypeOK, OneStarts, HoldersFile, OwnFile, StaleIsStale, RoomIsMade,
      LiveFile

LEMMA GuardInitIInv ==
    ASSUME Guard!SupervisorAssumption, Guard!Init
    PROVE  GuardIInv
<1>1. Guard!TypeOK
  BY DEF Guard!Init, Guard!TypeOK, Guard!Holding, Guard!Starting
<1>2. Guard!Holders = {}
  BY DEF Guard!Init, Guard!Holders, Guard!Holding
<1>3. QED
  BY <1>1, <1>2
  DEF Guard!Init, GuardIInv, OneStarts, HoldersFile, OwnFile, StaleIsStale, RoomIsMade,
      LiveFile,
     Guard!Starting, Guard!SupervisorAssumption

LEMMA GuardNextIInv ==
    ASSUME Guard!SupervisorAssumption, GuardIInv, [Guard!Next]_(Guard!vars)
    PROVE  GuardIInv'
<1>1. CASE UNCHANGED Guard!vars
  BY <1>1
  DEF Guard!vars, GuardIInv, Guard!TypeOK, OneStarts, HoldersFile, OwnFile, StaleIsStale,
      RoomIsMade,
     LiveFile, Guard!Holders
<1>2. CASE Guard!Next
  BY <1>2, StartIInv, CreateIInv, WriteIInv, InspectIInv, RemoveIInv, ReleaseIInv,
      RemovedIInv,
     DieIInv DEF Guard!Next, Guard!Acquire
<1>3. QED
  BY <1>1, <1>2

(* A process is refused for another one that lives and has the file, or is  *)
(* about to write it.                                                       *)
Rightly ==
    \A p \in Procs : procAt[p] # "refused" /\ procAt'[p] = "refused" =>
        \E q \in alive \ {p} : procAt[q] \in {"write"} \union Guard!Holding

LEMMA RefusedRightly ==
    ASSUME GuardIInv, Guard!Next
    PROVE  Rightly
<1>1. Guard!TypeOK
  BY DEF GuardIInv
<1> SUFFICES ASSUME NEW p \in Procs, procAt[p] # "refused", procAt'[p] = "refused"
             PROVE  \E q \in alive \ {p} : procAt[q] \in {"write"} \union Guard!Holding
  BY DEF Rightly
<1>2. Guard!Create(p) \/ Guard!Inspect(p)
  <2>1. PICK q \in Procs :
           Guard!Start(q) \/ Guard!Acquire(q) \/ Guard!Release(q) \/ Guard!Removed(q) \/ Guard!Die(q)
    BY DEF Guard!Next
  <2>2. CASE ~(Guard!Create(q) \/ Guard!Inspect(q))
    BY <1>1, <2>1, <2>2
    DEF Guard!Start, Guard!Acquire, Guard!Release, Guard!Removed, Guard!Die, Guard!Write,
        Guard!Remove, Guard!Move, Guard!TypeOK
  <2>3. CASE Guard!Create(q) \/ Guard!Inspect(q)
    BY <1>1, <2>3 DEF Guard!Create, Guard!Inspect, Guard!Move, Guard!TypeOK
  <2>4. QED
    BY <2>2, <2>3
<1>3. CASE Guard!Create(p)
  <2>1. pidFile # None /\ p \in alive /\ procAt[p] = "recreate"
    BY <1>1, <1>3 DEF Guard!Create, Guard!Move, Guard!TypeOK
  <2>2. QED
    BY <2>1 DEF GuardIInv, RoomIsMade
<1>4. CASE Guard!Inspect(p)
  <2>1. pidFile \in alive /\ procAt[p] = "inspect"
    BY <1>1, <1>4 DEF Guard!Inspect, Guard!Move, Guard!TypeOK
  <2>2. procAt[pidFile] \in {"write"} \union Guard!Holding
    BY <2>1 DEF GuardIInv, LiveFile
  <2>3. pidFile # p
    BY <2>1, <2>2 DEF Guard!Holding
  <2>4. QED
    BY <2>1, <2>2, <2>3
<1>5. QED
  BY <1>2, <1>3, <1>4

(***************************************************************************)
(* There is one live supervisor at most, its file stays until it removes    *)
(* it, and acquire_guard refuses nobody for a file that a dead process has  *)
(* left, at whatever step it has died.                                      *)
(***************************************************************************)
THEOREM TheGuardIsKept == HostSpec => GuardIsKept
<1>1. HostInit => GuardIInv
  BY HostAssumption, GuardInitIInv DEF HostInit
<1>2. GuardIInv /\ [HostNext]_hostVars => GuardIInv'
  BY HostAssumption, HostSteps, GuardNextIInv
<1>3. GuardIInv => Guard!TypeOK /\ Guard!OneSupervisor /\ Guard!HolderHasTheFile
  BY DEF GuardIInv, HoldersFile, Guard!OneSupervisor, Guard!HolderHasTheFile
<1>4. GuardIInv /\ [HostNext]_hostVars => [Rightly]_(Guard!vars)
  BY HostSteps, RefusedRightly
<1>5. QED
  BY <1>1, <1>2, <1>3, <1>4, PTL DEF HostSpec, GuardIsKept, Guard!RefusedForTheLiving, Rightly

(* HostSteps is above *)

-----------------------------------------------------------------------------
(* The link of a remote conversation, whose callers wait for each other.   *)

(* One caller at most is at work. *)
OneCaller == \A c, d \in Callers : linkAt[c] # "idle" /\ linkAt[d] # "idle" => c = d

(* While a caller connects nobody else does, and the task does so alone.    *)
OneConnects ==
    /\ \A c \in Callers : linkAt[c] = "connecting" => state = "connecting" /\ repair = "none"
    /\ repair # "none" => \A c \in Callers : linkAt[c] = "idle"
    /\ repair = "sleeping" => state # "connecting"
    /\ repair = "connecting" => state = "connecting"
    /\ state = "connecting" => repair = "connecting" \/ \E c \in Callers : linkAt[c] = "connecting"

(* A caller that closes has cancelled the tasks, and closes the only socket. *)
OneCloses ==
    \A c \in Callers : linkAt[c] = "closing" =>
        state = "disconnected" /\ repair = "none" /\ closes[c] = ws

(* Nobody is told of the socket that is open, or is to be closed, but by ws. *)
OpenIsKnown == open \subseteq {ws}

(* Without a connection there is no listener, and no socket unless a caller *)
(* closes it.                                                               *)
NothingIsLeft ==
    state # "connected" =>
        listens = None /\ ((\A c \in Callers : linkAt[c] # "closing") => ws = None)

(* Nobody connects when a caller has asked for the end last. *)
WishIsHeeded == wished = "disconnect" => state = "disconnected" /\ repair = "none"

LinkIInv ==
    /\ Link!TypeOK /\ Link!OpenIsHeard
    /\ OneCaller /\ OneConnects /\ OneCloses /\ OpenIsKnown /\ NothingIsLeft /\ WishIsHeeded

LEMMA LinkInitIInv ==
    ASSUME Link!LinkAssumption, Link!Init
    PROVE  LinkIInv
BY DEF Link!LinkAssumption, Link!Init, LinkIInv, Link!TypeOK, Link!OpenIsHeard, OneCaller,
       OneConnects, OneCloses, OpenIsKnown, NothingIsLeft, WishIsHeeded

LEMMA ConnectIInv ==
    ASSUME CallersWait, LinkIInv, NEW c \in Callers, Link!Connect(c)
    PROVE  LinkIInv'
<1> USE DEF LinkIInv
<1>1. /\ \A d \in Callers : linkAt[d] = "idle"
      /\ repair = "none" /\ state = "disconnected"
  BY DEF CallersWait, Link!Connect, Link!Quiet, Link!TypeOK, OneConnects
<1>2. QED
  BY <1>1
  DEF Link!Connect, Link!Goto, Link!TypeOK, Link!OpenIsHeard, OneCaller,
      OneConnects, OneCloses, OpenIsKnown, NothingIsLeft, WishIsHeeded

LEMMA SocketOpens ==
    ASSUME Link!LinkAssumption, LinkIInv, NEW s \in Sockets, Link!Opened(s), state = "connecting",
           UNCHANGED <<closes, wished, outbox>>,
           linkAt' \in [Callers -> {"idle"}], repair' = "none"
    PROVE  LinkIInv'
<1> USE DEF LinkIInv
<1>1. open = {}
  BY DEF NothingIsLeft, OpenIsKnown, Link!TypeOK, Link!LinkAssumption, OneCloses
<1>2. listens = None /\ wished = "connect"
  BY DEF NothingIsLeft, WishIsHeeded, Link!TypeOK
<1>3. Link!TypeOK'
  BY <1>1, <1>2 DEF Link!Opened, Link!TypeOK, Link!LinkAssumption
<1>4. Link!OpenIsHeard' /\ OpenIsKnown'
  BY <1>1, <1>2 DEF Link!Opened, Link!OpenIsHeard, OpenIsKnown
<1>5. OneCaller' /\ OneConnects' /\ OneCloses' /\ NothingIsLeft' /\ WishIsHeeded'
  BY <1>2 DEF Link!Opened, OneCaller, OneConnects, OneCloses, NothingIsLeft, WishIsHeeded
<1>6. QED
  BY <1>3, <1>4, <1>5

LEMMA ConnectedIInv ==
    ASSUME Link!LinkAssumption, LinkIInv, NEW c \in Callers, NEW s \in Sockets,
           Link!Connected(c, s)
    PROVE  LinkIInv'
<1>1. linkAt[c] = "connecting" /\ state = "connecting" /\ repair = "none"
  BY DEF Link!Connected, LinkIInv, OneConnects
<1>2. \A d \in Callers : d # c => linkAt[d] = "idle"
  BY <1>1 DEF LinkIInv, OneCaller
<1>3. linkAt' \in [Callers -> {"idle"}]
  BY <1>2 DEF Link!Connected, Link!Goto, LinkIInv, Link!TypeOK
<1>4. Link!Opened(s) /\ UNCHANGED <<closes, wished, outbox>> /\ repair' = "none"
  BY <1>1 DEF Link!Connected
<1>5. QED
  BY <1>1, <1>3, <1>4, SocketOpens

LEMMA RepairedIInv ==
    ASSUME Link!LinkAssumption, LinkIInv, NEW s \in Sockets, Link!Repaired(s)
    PROVE  LinkIInv'
<1>1. state = "connecting" /\ linkAt \in [Callers -> {"idle"}]
  BY DEF Link!Repaired, LinkIInv, OneConnects, Link!TypeOK
<1>2. QED
  BY <1>1, SocketOpens DEF Link!Repaired

LEMMA RefusedIInv ==
    ASSUME Link!LinkAssumption, LinkIInv, NEW c \in Callers, Link!Refused(c)
    PROVE  LinkIInv'
<1> USE DEF LinkIInv
<1>1. linkAt[c] = "connecting" /\ state = "connecting" /\ repair = "none"
  BY DEF Link!Refused, OneConnects
<1>2. \A d \in Callers : d # c => linkAt[d] = "idle"
  BY <1>1 DEF OneCaller
<1>3. open = {} /\ listens = None /\ wished = "connect"
  BY <1>1 DEF NothingIsLeft, OpenIsKnown, Link!TypeOK, Link!LinkAssumption, OneCloses, WishIsHeeded
<1>4. attempts' \in 0..MaxAttempts /\ repair' \in {"none", "sleeping"}
  BY <1>1 DEF Link!Refused, Link!StartRepair, Link!TypeOK, Link!LinkAssumption
<1>5. linkAt' \in [Callers -> {"idle"}]
  BY <1>2 DEF Link!Refused, Link!Goto, Link!TypeOK
<1>6. Link!TypeOK'
  BY <1>4, <1>5 DEF Link!Refused, Link!TypeOK
<1>7. QED
  BY <1>3, <1>4, <1>5, <1>6
  DEF Link!Refused, Link!OpenIsHeard, OneCaller, OneConnects, OneCloses, OpenIsKnown,
      NothingIsLeft, WishIsHeeded

LEMMA RetryIInv ==
    ASSUME LinkIInv, Link!Retry
    PROVE  LinkIInv'
  BY DEF LinkIInv, Link!Retry, Link!TypeOK, Link!OpenIsHeard, OneCaller, OneConnects,
         OneCloses, OpenIsKnown, NothingIsLeft, WishIsHeeded

LEMMA NotRepairedIInv ==
    ASSUME Link!LinkAssumption, LinkIInv, Link!NotRepaired
    PROVE  LinkIInv'
<1> USE DEF LinkIInv
<1>1. state = "connecting" /\ \A c \in Callers : linkAt[c] = "idle"
  BY DEF Link!NotRepaired, OneConnects
<1>2. open = {} /\ listens = None /\ wished = "connect"
  BY <1>1 DEF NothingIsLeft, OpenIsKnown, Link!TypeOK, Link!LinkAssumption, OneCloses, WishIsHeeded
<1>3. attempts' \in 0..MaxAttempts /\ repair' \in {"none", "sleeping"}
  BY DEF Link!NotRepaired, Link!TypeOK, Link!LinkAssumption
<1>4. Link!TypeOK'
  BY <1>3 DEF Link!NotRepaired, Link!TypeOK
<1>5. QED
  BY <1>1, <1>2, <1>3, <1>4
  DEF Link!NotRepaired, Link!OpenIsHeard, OneCaller, OneConnects, OneCloses, OpenIsKnown,
      NothingIsLeft, WishIsHeeded

LEMMA LostIInv ==
    ASSUME Link!LinkAssumption, LinkIInv, NEW s \in Sockets, Link!Lost(s)
    PROVE  LinkIInv'
<1> USE DEF LinkIInv
<1>1. ws = s /\ open = {s} /\ open' = {}
  BY DEF Link!Lost, OpenIsKnown
<1>2. CASE state = "connected"
  <2>1. listens = s /\ listens' = None /\ ws' = None /\ state' = "disconnected"
    BY <1>1, <1>2 DEF Link!Lost, Link!OpenIsHeard
  <2>2. /\ repair' \in {"none", "sleeping", "connecting"} /\ attempts' \in 0..MaxAttempts
        /\ repair # "none" => repair' = repair
    BY <1>1, <1>2, <2>1 DEF Link!Lost, Link!StartRepair, Link!TypeOK, Link!LinkAssumption
  <2>3. \A c \in Callers : linkAt[c] = "idle"
    BY <1>2 DEF OneConnects, OneCloses, Link!TypeOK
  <2>4. repair # "connecting" /\ wished = "connect"
    BY <1>2 DEF OneConnects, WishIsHeeded, Link!TypeOK
  <2>5. repair' # "connecting"
    BY <1>1, <1>2, <2>1, <2>4 DEF Link!Lost, Link!StartRepair
  <2>6. Link!TypeOK'
    BY <1>1, <2>1, <2>2 DEF Link!Lost, Link!TypeOK
  <2>7. QED
    BY <1>1, <2>1, <2>2, <2>3, <2>4, <2>5, <2>6
    DEF Link!Lost, Link!OpenIsHeard, OneCaller, OneConnects, OneCloses, OpenIsKnown,
        NothingIsLeft, WishIsHeeded
<1>3. CASE state # "connected"
  <2>1. UNCHANGED <<state, ws, repair, attempts>>
    BY <1>3 DEF Link!Lost
  <2>2. listens = None /\ listens' = None
    BY <1>3 DEF Link!Lost, NothingIsLeft
  <2>3. QED
    BY <1>1, <1>3, <2>1, <2>2
    DEF Link!Lost, Link!TypeOK, Link!OpenIsHeard, OneCaller, OneConnects, OneCloses, OpenIsKnown,
        NothingIsLeft, WishIsHeeded
<1>4. QED
  BY <1>2, <1>3

LEMMA EndedIInv ==
    ASSUME LinkIInv, NEW s \in Sockets, Link!Ended(s)
    PROVE  LinkIInv'
<1>1. open' = {} /\ listens' \in {listens, None}
  BY DEF Link!Ended, LinkIInv, OpenIsKnown
<1>2. QED
  BY <1>1
  DEF Link!Ended, LinkIInv, Link!TypeOK, Link!OpenIsHeard, OneCaller, OneConnects, OneCloses,
      OpenIsKnown, NothingIsLeft, WishIsHeeded

LEMMA DisconnectIInv ==
    ASSUME CallersWait, Link!LinkAssumption, LinkIInv, NEW c \in Callers, Link!Disconnect(c)
    PROVE  LinkIInv'
<1> USE DEF LinkIInv
<1>1. \A d \in Callers : linkAt[d] = "idle"
  BY DEF CallersWait, Link!Disconnect
<1>2. /\ state' = "disconnected" /\ listens' = None /\ repair' = "none"
      /\ wished' = "disconnect" /\ UNCHANGED <<ws, attempts, open, fresh, outbox>>
  BY DEF Link!Disconnect, Link!Cancelled
<1>3. CASE ws = None
  BY <1>1, <1>2, <1>3
  DEF Link!Disconnect, Link!TypeOK, Link!OpenIsHeard, OneCaller, OneConnects, OneCloses,
      OpenIsKnown, NothingIsLeft, WishIsHeeded
<1>4. CASE ws # None
  <2>1. /\ linkAt' = [linkAt EXCEPT ![c] = "closing"] /\ closes' = [closes EXCEPT ![c] = ws]
    BY <1>4 DEF Link!Disconnect, Link!Goto
  <2>2. /\ linkAt'[c] = "closing" /\ closes'[c] = ws
        /\ \A d \in Callers : d # c => linkAt'[d] = "idle"
    BY <1>1, <2>1 DEF Link!TypeOK
  <2>3. Link!TypeOK'
    BY <1>2, <2>1 DEF Link!TypeOK
  <2>4. QED
    BY <1>2, <2>2, <2>3
    DEF Link!OpenIsHeard, OneCaller, OneConnects, OneCloses, OpenIsKnown, NothingIsLeft,
        WishIsHeeded
<1>5. QED
  BY <1>3, <1>4

LEMMA DisconnectedIInv ==
    ASSUME Link!LinkAssumption, LinkIInv, NEW c \in Callers, Link!Disconnected(c)
    PROVE  LinkIInv'
<1> USE DEF LinkIInv
<1>1. /\ linkAt[c] = "closing" /\ closes[c] = ws /\ state = "disconnected" /\ repair = "none"
      /\ listens = None
  BY DEF Link!Disconnected, OneCloses, NothingIsLeft
<1>2. open' = {} /\ ws' = None /\ UNCHANGED <<state, listens, repair, attempts, fresh, wished, outbox>>
  BY <1>1 DEF Link!Disconnected, OpenIsKnown
<1>3. linkAt' \in [Callers -> {"idle"}]
  BY <1>1 DEF Link!Disconnected, Link!Goto, OneCaller, Link!TypeOK
<1>4. closes' \in [Callers -> Sockets \union {None}]
  BY DEF Link!Disconnected, Link!TypeOK
<1>5. QED
  BY <1>1, <1>2, <1>3, <1>4
  DEF Link!TypeOK, Link!OpenIsHeard, OneCaller, OneConnects, OneCloses, OpenIsKnown,
      NothingIsLeft, WishIsHeeded

LEMMA SocketCloses ==
    ASSUME CallersWait, Link!LinkAssumption, LinkIInv, NEW c \in Callers, Link!Close(c)
    PROVE  LinkIInv'
<1>1. \A d \in Callers : linkAt[d] = "idle"
  BY DEF CallersWait, Link!Close
<1>2. open' = {}
  BY DEF Link!Close, LinkIInv, OpenIsKnown
<1>3. QED
  BY <1>1, <1>2
  DEF Link!Close, Link!Cancelled, LinkIInv, Link!TypeOK, Link!OpenIsHeard, OneCaller,
      OneConnects, OneCloses, OpenIsKnown, NothingIsLeft, WishIsHeeded

LEMMA SendIInv ==
    ASSUME LinkIInv, NEW c \in Callers, Link!Send(c)
    PROVE  LinkIInv'
  BY DEF Link!Send, LinkIInv, Link!TypeOK, Link!OpenIsHeard, OneCaller,
         OneConnects, OneCloses, OpenIsKnown, NothingIsLeft, WishIsHeeded

LEMMA LinkNextIInv ==
    ASSUME CallersWait, Link!LinkAssumption, LinkIInv, [Link!Next]_(Link!vars)
    PROVE  LinkIInv'
<1>1. CASE UNCHANGED Link!vars
  BY <1>1
  DEF Link!vars, LinkIInv, Link!TypeOK, Link!OpenIsHeard, OneCaller,
      OneConnects, OneCloses, OpenIsKnown, NothingIsLeft, WishIsHeeded
<1>2. CASE Link!Next
  BY <1>2, ConnectIInv, ConnectedIInv, RepairedIInv, RefusedIInv, RetryIInv, NotRepairedIInv,
     LostIInv, EndedIInv, DisconnectIInv, DisconnectedIInv, SocketCloses, SendIInv
  DEF Link!Next, Link!Repair, Link!Settle
<1>3. QED
  BY <1>1, <1>2

(***************************************************************************)
(* There is one socket at most and it is listened to, whatever is lost      *)
(* whenever; and what a caller has ended is not made again.                 *)
(***************************************************************************)
LEMMA LinkSafe ==
    ASSUME Link!LinkAssumption, LinkIInv
    PROVE  LinkIsKept
<1>1. Link!OneSocket
  BY DEF LinkIInv, OpenIsKnown, Link!OneSocket
<1>2. Link!DisconnectSticks
  BY DEF Link!DisconnectSticks, LinkIInv, WishIsHeeded, NothingIsLeft, OpenIsKnown, Link!TypeOK,
         Link!LinkAssumption
<1>3. QED
  BY <1>1, <1>2 DEF LinkIsKept, LinkIInv

(***************************************************************************)
(* If callers wait for each other, there is one socket at most, an open one *)
(* is listened to, the attempts to repair the link have their limit, and a  *)
(* disconnect is not undone by a repair that was in progress.  The server   *)
(* may close in order or not (Polite).                                      *)
(***************************************************************************)
THEOREM TheLinkIsKept ==
    ASSUME CallersWait
    PROVE  HostSpec => []LinkIsKept
<1>1. HostInit => LinkIInv
  BY HostAssumption, LinkInitIInv DEF HostInit
<1>2. LinkIInv /\ [HostNext]_hostVars => LinkIInv'
  BY HostAssumption, HostSteps, LinkNextIInv
<1>3. LinkIInv => LinkIsKept
  BY HostAssumption, LinkSafe
<1>4. QED
  BY <1>1, <1>2, <1>3, PTL DEF HostSpec

-----------------------------------------------------------------------------
(* The scheduler and its commands, which run one at a time and do not die   *)
(* while they write.                                                        *)

Resting == {"out", "gone"}

(* What a job file, or a copy of it, has. *)
Kept(jobs) == {j \in Jobs : jobs[j] # None}

(* The next slot of a job is after its last run. *)
AfterLast(jobs) ==
    \A j \in Jobs : jobs[j] # None /\ last[j] # None => last[j] < jobs[j]

Orders == [what : {"add", "remove", "trigger"}, job : Jobs]

SchedTypes ==
    /\ commandOrder \in [Commands -> Orders \union {None}]
    /\ \A c \in Commands :
          /\ processAt[c] \in {"out", "loaded", "writing", "gone"}
          /\ processAt[c] \in {"loaded", "writing"} => commandOrder[c] \in Orders
    /\ processAt[Scheduler] \in {"out", "sleeping", "writing"}

(* One process at a time is at work. *)
OneWorks ==
    \A p, q \in Sched!Processes : processAt[p] \notin Resting /\ processAt[q] \notin Resting => p = q

(* What a command that writes is about to leave. *)
WillBeWanted(c) ==
    IF commandOrder[c].what = "add" THEN wanted \union {commandOrder[c].job}
    ELSE wanted \ {commandOrder[c].job}

(* The jobs of the file, and those of whoever is at work, are the wanted     *)
(* ones.                                                                    *)
JobsAreKept ==
    /\ (\A p \in Sched!Processes : processAt[p] # "writing") => Kept(jobsFile) = wanted
    /\ processAt[Scheduler] # "out" => Kept(memory[Scheduler]) = wanted
    /\ \A c \in Commands :
          /\ processAt[c] = "loaded" => Kept(memory[c]) = wanted
          /\ processAt[c] = "writing" => Kept(memory[c]) = WillBeWanted(c)

SlotsFollow ==
    /\ \A j \in Jobs : last[j] = None \/ last[j] <= now
    /\ AfterLast(jobsFile)
    /\ \A p \in Sched!Processes : processAt[p] \notin Resting => AfterLast(memory[p])

(* A job whose task has not begun has no agent, and did not run in this slot. *)
TasksAreDue ==
    /\ processAt[Scheduler] = "out" => tasked = {}
    /\ \A j \in tasked : agents[j] = 0 /\ memory[Scheduler][j] # None
                         /\ (last[j] = None \/ last[j] < now)

AgentsInFlight ==
    \A j \in Jobs : agents[j] \in {0, 1} /\ (agents[j] = 1 => j \in inflight)

SchedIInv ==
    /\ Sched!TypeOK /\ SchedTypes
    /\ OneWorks /\ JobsAreKept /\ SlotsFollow /\ TasksAreDue /\ AgentsInFlight

LEMMA SchedInitIInv ==
    ASSUME Sched!CronAssumption, Sched!Init
    PROVE  SchedIInv
<1> USE DEF Sched!CronAssumption, Sched!Init, Sched!NoJobs, Sched!Processes
<1>1. Sched!TypeOK
  BY DEF Sched!TypeOK, Sched!Contents
<1>2. SchedTypes /\ OneWorks
  BY DEF SchedTypes, OneWorks, Resting
<1>3. JobsAreKept /\ SlotsFollow
  BY DEF JobsAreKept, SlotsFollow, Kept, AfterLast, Resting
<1>4. TasksAreDue /\ AgentsInFlight
  BY DEF TasksAreDue, AgentsInFlight
<1>5. QED
  BY <1>1, <1>2, <1>3, <1>4 DEF SchedIInv

(* The only one at work takes or gives up its place. *)
LEMMA OneGoesOn ==
    ASSUME SchedIInv, NEW p \in Sched!Processes, NEW to,
           processAt[p] \notin Resting \/ \A q \in Sched!Processes \ {p} : processAt[q] \in Resting,
           Sched!Goto(p, to)
    PROVE  /\ \A q \in Sched!Processes \ {p} :
                  processAt[q] \in Resting /\ processAt'[q] = processAt[q]
           /\ processAt'[p] = to
           /\ OneWorks'
<1>1. processAt \in [Sched!Processes -> {"out", "loaded", "writing", "sleeping", "gone"}]
  BY DEF SchedIInv, Sched!TypeOK
<1>2. \A q \in Sched!Processes \ {p} : processAt[q] \in Resting /\ processAt'[q] = processAt[q]
  BY <1>1 DEF SchedIInv, OneWorks, Sched!Goto
<1>3. processAt'[p] = to
  BY <1>1 DEF Sched!Goto
<1>4. OneWorks'
  BY <1>2, <1>3 DEF OneWorks, Resting, Sched!Processes
<1>5. QED
  BY <1>2, <1>3, <1>4

LEMMA CommandStartsIInv ==
    ASSUME CommandsWait, Sched!CronAssumption, SchedIInv, NEW c \in Commands, Sched!CommandStarts(c)
    PROVE  SchedIInv'
<1>1. /\ c \in Sched!Processes /\ c # Scheduler /\ processAt[c] = "out"
      /\ \A q \in Sched!Processes \ {c} : processAt[q] \in Resting
      /\ memory' = [memory EXCEPT ![c] = jobsFile]
      /\ UNCHANGED <<now, jobsFile, tasked, inflight, agents, last, wanted, schedulerKills>>
  BY DEF CommandsWait, Sched!CommandStarts, Sched!Load, Sched!Apart, Resting, Sched!Processes,
         Sched!CronAssumption, Sched!taskVars
<1>2. /\ \A q \in Sched!Processes \ {c} : processAt'[q] = processAt[q]
      /\ processAt'[c] = "loaded" /\ OneWorks'
  BY <1>1, OneGoesOn DEF Sched!CommandStarts
<1>3. PICK what \in {"add", "remove", "trigger"}, j \in Jobs :
         commandOrder' = [commandOrder EXCEPT ![c] = [what |-> what, job |-> j]]
  BY DEF Sched!CommandStarts
<1>4. Sched!TypeOK'
  BY <1>1, <1>2, <1>3
  DEF Sched!CommandStarts, Sched!Goto, SchedIInv, Sched!TypeOK, Sched!Contents, Sched!Processes
<1>5. SchedTypes'
  BY <1>1, <1>2, <1>3 DEF SchedIInv, SchedTypes, Orders, Sched!Processes, Resting
<1>6. \A p \in Sched!Processes : processAt[p] # "writing"
  BY <1>1 DEF Resting
<1>7. JobsAreKept'
  <2>1. \A q \in Sched!Processes \ {c} : memory'[q] = memory[q] /\ processAt'[q] # "writing"
    BY <1>1, <1>2 DEF SchedIInv, Sched!TypeOK, Resting
  <2>2. memory'[c] = jobsFile
    BY <1>1 DEF SchedIInv, Sched!TypeOK
  <2>3. Kept(jobsFile) = wanted
    BY <1>6 DEF SchedIInv, JobsAreKept
  <2>4. \A d \in Commands : d # c => processAt'[d] \notin {"loaded", "writing"}
    BY <1>1, <1>2 DEF Resting, Sched!Processes
  <2>5. QED
    BY <1>1, <1>2, <2>1, <2>2, <2>3, <2>4
    DEF SchedIInv, JobsAreKept, Kept, Sched!Processes
<1>8. SlotsFollow'
  BY <1>1, <1>2 DEF SchedIInv, SlotsFollow, AfterLast, Sched!Processes, Resting, Sched!TypeOK
<1>9. TasksAreDue' /\ AgentsInFlight'
  BY <1>1, <1>2
  DEF SchedIInv, TasksAreDue, AgentsInFlight, Sched!Processes, Resting, Sched!TypeOK
<1>10. QED
  BY <1>2, <1>4, <1>5, <1>7, <1>8, <1>9 DEF SchedIInv

LEMMA ChangeIInv ==
    ASSUME Sched!CronAssumption, SchedIInv, NEW c \in Commands, Sched!Change(c)
    PROVE  SchedIInv'
<1> DEFINE j == commandOrder[c].job
           what == commandOrder[c].what
<1>1. /\ c \in Sched!Processes /\ c # Scheduler /\ processAt[c] = "loaded"
      /\ Scheduler \in Sched!Processes /\ Commands \subseteq Sched!Processes
      /\ UNCHANGED <<now, commandOrder, tasked, inflight, agents, last, wanted, schedulerKills>>
  BY DEF Sched!Change, Sched!Processes, Sched!CronAssumption, Sched!taskVars
<1>2. j \in Jobs /\ what \in {"add", "remove", "trigger"} /\ commandOrder[c] \in Orders
  BY <1>1 DEF SchedIInv, SchedTypes, Orders
<1>3. /\ Sched!TypeOK /\ now \in 0..MaxTime + 1 /\ now + 1 \in 0..MaxTime + 1 /\ now + 1 # None
      /\ memory[c] \in Sched!Contents
  BY <1>1 DEF SchedIInv, Sched!TypeOK, Sched!CronAssumption
<1> HIDE DEF j, what
<1>4. PICK to \in {"writing", "gone"} : Sched!Goto(c, to)
  BY <1>1, <1>2, <1>3 DEF Sched!Change, j, what
<1>5. /\ \A q \in Sched!Processes \ {c} : processAt[q] \in Resting /\ processAt'[q] = processAt[q]
      /\ processAt'[c] = to /\ OneWorks'
  BY <1>1, <1>4, OneGoesOn DEF Resting
<1>6. PICK jobs \in Sched!Contents :
         /\ memory' = [memory EXCEPT ![c] = jobs]
         /\ to = "writing" => AfterLast(jobs) /\ Kept(jobs) = WillBeWanted(c)
         /\ jobsFile' = jobsFile \/ (to = "writing" /\ jobsFile' = Sched!NoJobs)
  <2>0. \A place \in {"writing", "gone"} : Sched!Goto(c, place) => to = place
    BY <1>1, <1>3, <1>5 DEF Sched!TypeOK, Sched!Goto
  <2>1. CASE /\ what = "add" /\ Sched!Truncate(c, [memory[c] EXCEPT ![j] = now + 1])
             /\ Sched!Goto(c, "writing")
    <3> DEFINE jobs == [memory[c] EXCEPT ![j] = now + 1]
    <3>1. jobs \in Sched!Contents
      BY <1>2, <1>3 DEF Sched!Contents
    <3>2. AfterLast(jobs)
      <4>1. \A k \in Jobs : last[k] # None => last[k] < now + 1
        BY <1>1, <1>3 DEF SchedIInv, SlotsFollow, Sched!TypeOK
      <4>2. AfterLast(memory[c])
        BY <1>1 DEF SchedIInv, SlotsFollow, Resting
      <4>3. QED
        BY <1>2, <1>3, <4>1, <4>2 DEF AfterLast, Sched!Contents
    <3>3. Kept(jobs) = WillBeWanted(c)
      BY <1>1, <1>2, <1>3, <2>1
      DEF SchedIInv, JobsAreKept, Kept, WillBeWanted, Sched!Contents, j, what
    <3>4. QED
      BY <2>0, <2>1, <3>1, <3>2, <3>3 DEF Sched!Truncate
  <2>2. CASE /\ what = "remove" /\ Sched!Truncate(c, [memory[c] EXCEPT ![j] = None])
             /\ Sched!Goto(c, "writing")
    <3> DEFINE jobs == [memory[c] EXCEPT ![j] = None]
    <3>1. jobs \in Sched!Contents
      BY <1>2, <1>3 DEF Sched!Contents
    <3>2. AfterLast(jobs)
      BY <1>1, <1>2, <1>3
      DEF SchedIInv, SlotsFollow, AfterLast, Sched!TypeOK, Sched!Contents, Resting
    <3>3. Kept(jobs) = WillBeWanted(c)
      BY <1>1, <1>2, <1>3, <2>2
      DEF SchedIInv, JobsAreKept, Kept, WillBeWanted, Sched!Contents, j, what
    <3>4. QED
      BY <2>0, <2>2, <3>1, <3>2, <3>3 DEF Sched!Truncate
  <2>3. CASE Sched!Goto(c, "gone") /\ UNCHANGED <<jobsFile, memory>>
    <3>1. memory' = [memory EXCEPT ![c] = memory[c]] /\ to # "writing" /\ jobsFile' = jobsFile
      BY <1>1, <1>3, <1>4, <1>5, <2>3 DEF Sched!TypeOK, Sched!Goto
    <3>2. QED
      BY <1>3, <3>1
  <2>4. CASE /\ memory' = [memory EXCEPT ![c][j] = IF @ = None THEN None ELSE now]
             /\ Sched!Goto(c, "gone") /\ UNCHANGED jobsFile
    <3> DEFINE jobs == [memory[c] EXCEPT ![j] = IF memory[c][j] = None THEN None ELSE now]
    <3>1. memory' = [memory EXCEPT ![c] = jobs] /\ to # "writing" /\ jobsFile' = jobsFile
      BY <1>1, <1>2, <1>3, <1>4, <1>5, <2>4 DEF Sched!TypeOK, Sched!Goto, Sched!Contents
    <3>2. jobs \in Sched!Contents
      BY <1>2, <1>3 DEF Sched!Contents, Sched!TypeOK
    <3> HIDE DEF jobs
    <3>3. QED
      BY <3>1, <3>2
  <2>5. QED
    BY <2>1, <2>2, <2>3, <2>4 DEF Sched!Change, j, what
<1>7. Sched!TypeOK'
  BY <1>1, <1>3, <1>4, <1>6 DEF Sched!TypeOK, Sched!Goto, Sched!NoJobs, Sched!Contents
<1>8. SchedTypes'
  BY <1>1, <1>2, <1>5 DEF SchedIInv, SchedTypes, Sched!Processes, Resting
<1>9. /\ \A q \in Sched!Processes \ {c} : memory'[q] = memory[q] /\ processAt'[q] \in Resting
       /\ memory'[c] = jobs
  BY <1>1, <1>3, <1>5, <1>6 DEF Sched!TypeOK
<1>10. JobsAreKept'
  <2>1. CASE to = "writing"
    <3>1. Kept(memory[c])' = WillBeWanted(c)'
      BY <1>1, <1>6, <1>9, <2>1 DEF Kept, WillBeWanted
    <3>2. \A d \in Commands : d # c => processAt'[d] \notin {"loaded", "writing"}
      BY <1>1, <1>9 DEF Resting
    <3>3. processAt'[Scheduler] = "out"
      BY <1>1, <1>8, <1>9 DEF SchedTypes, Resting
    <3>4. QED
      BY <1>1, <1>5, <2>1, <3>1, <3>2, <3>3 DEF JobsAreKept
  <2>2. CASE to = "gone"
    <3>1. Kept(jobsFile) = wanted
      BY <1>1, <1>5 DEF SchedIInv, JobsAreKept, Resting
    <3>2. Kept(jobsFile)' = wanted'
      BY <1>1, <1>6, <2>2, <3>1 DEF Kept
    <3>3. \A d \in Commands : processAt'[d] \notin {"loaded", "writing"}
      BY <1>1, <1>5, <1>9, <2>2 DEF Resting
    <3>4. processAt'[Scheduler] = "out"
      BY <1>1, <1>8, <1>9 DEF SchedTypes, Resting
    <3>5. QED
      BY <3>2, <3>3, <3>4 DEF JobsAreKept
  <2>3. QED
    BY <2>1, <2>2
<1>11. SlotsFollow'
  BY <1>1, <1>5, <1>6, <1>9
  DEF SchedIInv, SlotsFollow, AfterLast, Resting, Sched!NoJobs
<1>12. TasksAreDue' /\ AgentsInFlight'
  BY <1>1, <1>9, <1>5 DEF SchedIInv, TasksAreDue, AgentsInFlight
<1>13. QED
  BY <1>5, <1>7, <1>8, <1>10, <1>11, <1>12 DEF SchedIInv

LEMMA CommandEndsIInv ==
    ASSUME Sched!CronAssumption, SchedIInv, NEW c \in Commands, Sched!CommandEnds(c)
    PROVE  SchedIInv'
<1>1. /\ c \in Sched!Processes /\ c # Scheduler /\ processAt[c] = "writing"
      /\ Scheduler \in Sched!Processes /\ Commands \subseteq Sched!Processes
      /\ jobsFile' = memory[c]
      /\ UNCHANGED <<now, memory, commandOrder, tasked, inflight, agents, last, schedulerKills>>
  BY DEF Sched!CommandEnds, Sched!Processes, Sched!CronAssumption, Sched!taskVars
<1>2. /\ \A q \in Sched!Processes \ {c} : processAt[q] \in Resting /\ processAt'[q] = processAt[q]
      /\ processAt'[c] = "gone" /\ OneWorks'
  BY <1>1, OneGoesOn DEF Resting, Sched!CommandEnds
<1>3. wanted' = WillBeWanted(c) /\ commandOrder[c].job \in Jobs
  BY <1>1 DEF Sched!CommandEnds, WillBeWanted, SchedIInv, SchedTypes, Orders
<1>4. Sched!TypeOK'
  BY <1>1, <1>3 DEF SchedIInv, Sched!TypeOK, Sched!CommandEnds, Sched!Goto, Sched!Contents, WillBeWanted
<1>5. SchedTypes'
  BY <1>1, <1>2 DEF SchedIInv, SchedTypes, Resting
<1>6. JobsAreKept'
  <2>1. Kept(jobsFile)' = wanted'
    BY <1>1, <1>3 DEF SchedIInv, JobsAreKept, Kept
  <2>2. \A d \in Commands : processAt'[d] \notin {"loaded", "writing"}
    BY <1>1, <1>2 DEF Resting
  <2>3. processAt'[Scheduler] = "out"
    BY <1>1, <1>2, <1>5 DEF SchedTypes, Resting
  <2>4. QED
    BY <2>1, <2>2, <2>3 DEF JobsAreKept
<1>7. SlotsFollow'
  BY <1>1, <1>2 DEF SchedIInv, SlotsFollow, AfterLast, Resting
<1>8. TasksAreDue' /\ AgentsInFlight'
  BY <1>1, <1>2 DEF SchedIInv, TasksAreDue, AgentsInFlight
<1>9. QED
  BY <1>2, <1>4, <1>5, <1>6, <1>7, <1>8 DEF SchedIInv

LEMMA BootIInv ==
    ASSUME CommandsWait, Sched!CronAssumption, SchedIInv, Sched!Boot
    PROVE  SchedIInv'
<1>1. /\ Scheduler \in Sched!Processes /\ processAt[Scheduler] = "out"
      /\ \A q \in Sched!Processes \ {Scheduler} : processAt[q] \in Resting
      /\ memory' = [memory EXCEPT ![Scheduler] = jobsFile]
      /\ UNCHANGED <<now, jobsFile, commandOrder, tasked, inflight, agents, last, wanted,
                     schedulerKills>>
  BY DEF CommandsWait, Sched!Boot, Sched!Load, Sched!Apart, Resting, Sched!Processes, Sched!taskVars
<1>2. /\ \A q \in Sched!Processes \ {Scheduler} : processAt'[q] = processAt[q]
      /\ processAt'[Scheduler] = "sleeping" /\ OneWorks'
  BY <1>1, OneGoesOn DEF Sched!Boot
<1>3. Sched!TypeOK'
  BY <1>1 DEF SchedIInv, Sched!TypeOK, Sched!Boot, Sched!Goto, Sched!Contents
<1>4. SchedTypes'
  BY <1>1, <1>2 DEF SchedIInv, SchedTypes, Sched!Processes, Sched!CronAssumption
<1>5. memory'[Scheduler] = jobsFile
  BY <1>1 DEF SchedIInv, Sched!TypeOK
<1>6. /\ \A d \in Commands : processAt'[d] \notin {"loaded", "writing"}
      /\ \A p \in Sched!Processes : processAt[p] # "writing"
  BY <1>1, <1>2 DEF Resting, Sched!Processes, Sched!CronAssumption
<1>7. JobsAreKept'
  BY <1>1, <1>5, <1>6 DEF SchedIInv, JobsAreKept, Kept
<1>8. SlotsFollow'
  BY <1>1, <1>2, <1>5 DEF SchedIInv, SlotsFollow, AfterLast
<1>9. TasksAreDue' /\ AgentsInFlight'
  BY <1>1, <1>2 DEF SchedIInv, TasksAreDue, AgentsInFlight
<1>10. QED
  BY <1>2, <1>3, <1>4, <1>7, <1>8, <1>9 DEF SchedIInv

LEMMA TickIInv ==
    ASSUME Sched!CronAssumption, SchedIInv, Sched!Tick
    PROVE  SchedIInv'
<1> DEFINE new == Sched!DueJobs \ inflight
<1>1. /\ processAt[Scheduler] = "sleeping" /\ Scheduler \in Sched!Processes
      /\ tasked' = new /\ inflight' = inflight \union new
      /\ UNCHANGED <<now, jobsFile, memory, processAt, commandOrder, agents, last, wanted,
                     schedulerKills>>
  BY DEF Sched!Tick, Sched!Processes, Sched!DueJobs
<1>2. \A j \in new : /\ j \in Jobs /\ agents[j] = 0 /\ memory[Scheduler][j] # None
                     /\ last[j] = None \/ last[j] < now
  <2> SUFFICES ASSUME NEW j \in new
               PROVE  /\ j \in Jobs /\ agents[j] = 0 /\ memory[Scheduler][j] # None
                      /\ last[j] = None \/ last[j] < now
    OBVIOUS
  <2>1. /\ j \in Jobs /\ j \notin inflight
        /\ memory[Scheduler][j] # None /\ memory[Scheduler][j] <= now
    BY DEF Sched!DueJobs
  <2>2. agents[j] = 0
    BY <2>1 DEF SchedIInv, AgentsInFlight
  <2>3. last[j] # None => last[j] < memory[Scheduler][j]
    BY <1>1, <2>1 DEF SchedIInv, SlotsFollow, AfterLast, Resting
  <2>4. /\ memory[Scheduler][j] \in Nat /\ now \in Nat
        /\ last[j] # None => last[j] \in Nat
    BY <1>1, <2>1 DEF SchedIInv, Sched!TypeOK, Sched!Contents, Sched!CronAssumption
  <2>5. QED
    BY <2>1, <2>2, <2>3, <2>4
<1> HIDE DEF new
<1>3. Sched!TypeOK'
  BY <1>1, <1>2 DEF SchedIInv, Sched!TypeOK
<1>4. SchedTypes' /\ OneWorks' /\ JobsAreKept' /\ SlotsFollow'
  BY <1>1
  DEF SchedIInv, SchedTypes, OneWorks, JobsAreKept, Kept, WillBeWanted, SlotsFollow, AfterLast
<1>5. TasksAreDue' /\ AgentsInFlight'
  BY <1>1, <1>2 DEF SchedIInv, TasksAreDue, AgentsInFlight
<1>6. QED
  BY <1>3, <1>4, <1>5 DEF SchedIInv

LEMMA BeginIInv ==
    ASSUME Sched!CronAssumption, SchedIInv, NEW j \in Jobs, Sched!Begin(j)
    PROVE  SchedIInv'
<1> DEFINE jobs == [memory[Scheduler] EXCEPT ![j] = now + 1]
<1>1. /\ processAt[Scheduler] = "sleeping" /\ Scheduler \in Sched!Processes
      /\ Commands = Sched!Processes \ {Scheduler}
      /\ j \in tasked /\ tasked' = tasked \ {j}
      /\ memory' = [memory EXCEPT ![Scheduler] = jobs] /\ jobsFile' = Sched!NoJobs
      /\ agents' = [agents EXCEPT ![j] = @ + 1] /\ last' = [last EXCEPT ![j] = now]
      /\ UNCHANGED <<now, commandOrder, inflight, wanted, schedulerKills>>
  BY DEF Sched!Begin, Sched!Truncate, Sched!Processes, Sched!CronAssumption
<1>2. /\ \A q \in Sched!Processes \ {Scheduler} :
            processAt[q] \in Resting /\ processAt'[q] = processAt[q]
      /\ processAt'[Scheduler] = "writing" /\ OneWorks'
  BY <1>1, OneGoesOn DEF Resting, Sched!Begin
<1>3. /\ Sched!TypeOK /\ now \in 0..MaxTime /\ now + 1 \in 0..MaxTime + 1
      /\ now # None /\ now + 1 # None
      /\ memory[Scheduler] \in Sched!Contents
  BY <1>1 DEF SchedIInv, Sched!TypeOK, Sched!CronAssumption
<1>4. /\ jobs \in Sched!Contents
      /\ \A k \in Jobs : jobs[k] = IF k = j THEN now + 1 ELSE memory[Scheduler][k]
  BY <1>3 DEF Sched!Contents
<1> HIDE DEF jobs
<1>5. \A k \in Jobs : /\ last'[k] = IF k = j THEN now ELSE last[k]
                      /\ agents'[k] = IF k = j THEN 1 ELSE agents[k]
  BY <1>1, <1>3 DEF SchedIInv, TasksAreDue, Sched!TypeOK
<1>6. Sched!TypeOK'
  BY <1>1, <1>3, <1>4
  DEF Sched!Begin, Sched!Goto, Sched!TypeOK, Sched!Contents, Sched!NoJobs, Sched!Processes
<1>7. SchedTypes'
  BY <1>1, <1>2 DEF SchedIInv, SchedTypes, Resting
<1>8. memory'[Scheduler] = jobs
  BY <1>1, <1>3 DEF Sched!TypeOK
<1>9. JobsAreKept'
  <2>1. Kept(jobs) = wanted
    <3>1. Kept(memory[Scheduler]) = wanted /\ memory[Scheduler][j] # None
      BY <1>1 DEF SchedIInv, JobsAreKept, TasksAreDue
    <3>2. QED
      BY <1>3, <1>4, <3>1 DEF Kept
  <2>2. \A d \in Commands : processAt'[d] \notin {"loaded", "writing"}
    BY <1>1, <1>2 DEF Resting
  <2>3. Kept(memory[Scheduler])' = wanted'
    BY <1>1, <1>8, <2>1 DEF Kept
  <2>4. QED
    BY <1>1, <1>2, <2>2, <2>3 DEF JobsAreKept
<1>10. SlotsFollow'
  <2>1. AfterLast(jobsFile)'
    BY <1>1 DEF AfterLast, Sched!NoJobs
  <2>2. AfterLast(memory[Scheduler])'
    <3>1. AfterLast(memory[Scheduler])
      BY <1>1 DEF SchedIInv, SlotsFollow, Resting
    <3>2. QED
      BY <1>3, <1>4, <1>5, <1>8, <3>1 DEF AfterLast
  <2>3. \A k \in Jobs : last'[k] = None \/ last'[k] <= now'
    BY <1>1, <1>3, <1>5 DEF SchedIInv, SlotsFollow
  <2>4. \A p \in Sched!Processes : processAt'[p] \notin Resting => p = Scheduler
    BY <1>1, <1>2
  <2>5. QED
    BY <2>1, <2>2, <2>3, <2>4 DEF SlotsFollow
<1>11. TasksAreDue'
  BY <1>1, <1>2, <1>3, <1>4, <1>5, <1>8 DEF SchedIInv, TasksAreDue, Sched!TypeOK
<1>12. AgentsInFlight'
  BY <1>1, <1>3, <1>5 DEF SchedIInv, AgentsInFlight, Sched!TypeOK
<1>13. QED
  BY <1>2, <1>6, <1>7, <1>9, <1>10, <1>11, <1>12 DEF SchedIInv

LEMMA SavedIInv ==
    ASSUME Sched!CronAssumption, SchedIInv, Sched!Saved
    PROVE  SchedIInv'
<1>1. /\ processAt[Scheduler] = "writing" /\ Scheduler \in Sched!Processes
      /\ Commands = Sched!Processes \ {Scheduler}
      /\ jobsFile' = memory[Scheduler]
      /\ UNCHANGED <<now, memory, commandOrder, tasked, inflight, agents, last, wanted,
                     schedulerKills>>
  BY DEF Sched!Saved, Sched!Processes, Sched!CronAssumption, Sched!taskVars
<1>2. /\ \A q \in Sched!Processes \ {Scheduler} :
            processAt[q] \in Resting /\ processAt'[q] = processAt[q]
      /\ processAt'[Scheduler] = "sleeping" /\ OneWorks'
  BY <1>1, OneGoesOn DEF Resting, Sched!Saved
<1>3. Sched!TypeOK'
  BY <1>1 DEF SchedIInv, Sched!TypeOK, Sched!Saved, Sched!Goto
<1>4. SchedTypes'
  BY <1>1, <1>2 DEF SchedIInv, SchedTypes, Resting
<1>5. JobsAreKept'
  <2>1. \A d \in Commands : processAt'[d] \notin {"loaded", "writing"}
    BY <1>1, <1>2 DEF Resting
  <2>2. Kept(memory[Scheduler])' = wanted' /\ Kept(jobsFile)' = wanted'
    BY <1>1 DEF SchedIInv, JobsAreKept, Kept
  <2>3. QED
    BY <2>1, <2>2 DEF JobsAreKept
<1>6. SlotsFollow'
  BY <1>1, <1>2 DEF SchedIInv, SlotsFollow, AfterLast, Resting
<1>7. TasksAreDue' /\ AgentsInFlight'
  BY <1>1, <1>2 DEF SchedIInv, TasksAreDue, AgentsInFlight
<1>8. QED
  BY <1>2, <1>3, <1>4, <1>5, <1>6, <1>7 DEF SchedIInv

LEMMA FinishIInv ==
    ASSUME Sched!CronAssumption, SchedIInv, NEW j \in Jobs, Sched!Finish(j)
    PROVE  SchedIInv'
<1>1. /\ agents[j] > 0 /\ agents' = [agents EXCEPT ![j] = @ - 1] /\ inflight' = inflight \ {j}
      /\ UNCHANGED <<now, jobsFile, memory, processAt, commandOrder, tasked, last, wanted,
                     schedulerKills>>
  BY DEF Sched!Finish
<1>2. agents[j] = 1 /\ j \notin tasked
  BY <1>1 DEF SchedIInv, AgentsInFlight, TasksAreDue
<1>3. \A k \in Jobs : agents'[k] = IF k = j THEN 0 ELSE agents[k]
  BY <1>1, <1>2 DEF SchedIInv, Sched!TypeOK
<1>4. Sched!TypeOK'
  BY <1>1, <1>2, <1>3 DEF SchedIInv, Sched!TypeOK
<1>5. SchedTypes' /\ OneWorks' /\ JobsAreKept' /\ SlotsFollow'
  BY <1>1
  DEF SchedIInv, SchedTypes, OneWorks, JobsAreKept, Kept, WillBeWanted, SlotsFollow, AfterLast
<1>6. TasksAreDue' /\ AgentsInFlight'
  BY <1>1, <1>2, <1>3 DEF SchedIInv, TasksAreDue, AgentsInFlight, Sched!TypeOK
<1>7. QED
  BY <1>4, <1>5, <1>6 DEF SchedIInv

LEMMA SchedulerDiesIInv ==
    ASSUME CommandsWait, Sched!CronAssumption, SchedIInv, Sched!Die
    PROVE  SchedIInv'
<1>1. /\ processAt[Scheduler] = "sleeping" /\ Scheduler \in Sched!Processes
      /\ Commands = Sched!Processes \ {Scheduler}
      /\ tasked' = {} /\ inflight' = {} /\ agents' = [j \in Jobs |-> 0]
      /\ UNCHANGED <<now, jobsFile, memory, commandOrder, last, wanted>>
  BY DEF CommandsWait, Sched!Die, Sched!Processes, Sched!CronAssumption, SchedIInv, SchedTypes
<1>2. /\ \A q \in Sched!Processes \ {Scheduler} :
            processAt[q] \in Resting /\ processAt'[q] = processAt[q]
      /\ processAt'[Scheduler] = "out" /\ OneWorks'
  BY <1>1, OneGoesOn DEF Resting, Sched!Die
<1>3. Sched!TypeOK'
  BY <1>1 DEF SchedIInv, Sched!TypeOK, Sched!Die, Sched!Goto, Sched!CronAssumption
<1>4. SchedTypes'
  BY <1>1, <1>2 DEF SchedIInv, SchedTypes, Resting
<1>5. JobsAreKept'
  <2>1. \A p \in Sched!Processes : processAt[p] # "writing"
    BY <1>1, <1>2 DEF Resting
  <2>2. Kept(jobsFile)' = wanted'
    BY <1>1, <2>1 DEF SchedIInv, JobsAreKept, Kept
  <2>3. \A d \in Commands : processAt'[d] \notin {"loaded", "writing"}
    BY <1>1, <1>2 DEF Resting
  <2>4. QED
    BY <1>2, <2>2, <2>3 DEF JobsAreKept
<1>6. SlotsFollow'
  BY <1>1, <1>2 DEF SchedIInv, SlotsFollow, AfterLast, Resting
<1>7. TasksAreDue' /\ AgentsInFlight'
  BY <1>1, <1>2 DEF SchedIInv, TasksAreDue, AgentsInFlight
<1>8. QED
  BY <1>2, <1>3, <1>4, <1>5, <1>6, <1>7 DEF SchedIInv

LEMMA TimePassesIInv ==
    ASSUME Sched!CronAssumption, SchedIInv, Sched!Pass
    PROVE  SchedIInv'
<1>1. /\ now \in 0..MaxTime - 1 /\ now' = now + 1
      /\ UNCHANGED <<jobsFile, memory, processAt, commandOrder, tasked, inflight, agents, last,
                     wanted, schedulerKills>>
  BY DEF Sched!Pass, Sched!taskVars, SchedIInv, Sched!TypeOK, Sched!CronAssumption
<1>2. Sched!TypeOK'
  BY <1>1 DEF SchedIInv, Sched!TypeOK, Sched!Contents, Sched!CronAssumption
<1>3. SchedTypes' /\ OneWorks' /\ JobsAreKept' /\ AgentsInFlight'
  BY <1>1
  DEF SchedIInv, SchedTypes, OneWorks, JobsAreKept, Kept, WillBeWanted, AgentsInFlight
<1>4. SlotsFollow' /\ TasksAreDue'
  BY <1>1 DEF SchedIInv, SlotsFollow, AfterLast, TasksAreDue, Sched!TypeOK
<1>5. QED
  BY <1>2, <1>3, <1>4 DEF SchedIInv

LEMMA SchedNextIInv ==
    ASSUME CommandsWait, Sched!CronAssumption, SchedIInv, [Sched!Next]_(Sched!vars)
    PROVE  SchedIInv'
<1>1. CASE UNCHANGED Sched!vars
  <2>1. Sched!TypeOK'
    BY <1>1 DEF Sched!vars, SchedIInv, Sched!TypeOK
  <2>2. SchedTypes' /\ OneWorks' /\ JobsAreKept' /\ AgentsInFlight' /\ SlotsFollow' /\ TasksAreDue'
    BY <1>1
    DEF Sched!vars, SchedIInv, SchedTypes, OneWorks, JobsAreKept, Kept, WillBeWanted,
        AgentsInFlight, SlotsFollow, AfterLast, TasksAreDue
  <2>3. QED
    BY <2>1, <2>2 DEF SchedIInv
<1>2. CASE Sched!Next
  BY <1>2, CommandStartsIInv, ChangeIInv, CommandEndsIInv, BootIInv, TickIInv, BeginIInv,
     SavedIInv, FinishIInv, SchedulerDiesIInv, TimePassesIInv
  DEF Sched!Next
<1>3. QED
  BY <1>1, <1>2

(* A job that begins has not run in its slot. *)
OnceInItsSlot ==
    \A j \in Jobs : agents'[j] > agents[j] => last[j] = None \/ last[j] < now

LEMMA BeginsOnce ==
    ASSUME SchedIInv, Sched!Next
    PROVE  OnceInItsSlot
<1>1. ASSUME NEW j \in Jobs, Sched!Begin(j) PROVE OnceInItsSlot
  <2>1. \A k \in Jobs : k # j => agents'[k] = agents[k] /\ agents[k] \in {0, 1}
    BY <1>1 DEF Sched!Begin, SchedIInv, Sched!TypeOK, AgentsInFlight
  <2>2. last[j] = None \/ last[j] < now
    BY <1>1 DEF Sched!Begin, SchedIInv, TasksAreDue
  <2>3. QED
    BY <2>1, <2>2 DEF OnceInItsSlot
<1>2. ASSUME NEW j \in Jobs, Sched!Finish(j) PROVE OnceInItsSlot
  BY <1>2 DEF OnceInItsSlot, Sched!Finish, SchedIInv, Sched!TypeOK, AgentsInFlight
<1>3. CASE Sched!Die
  BY <1>3 DEF OnceInItsSlot, Sched!Die, SchedIInv, AgentsInFlight
<1>4. CASE UNCHANGED agents
  BY <1>4 DEF OnceInItsSlot, SchedIInv, AgentsInFlight
<1>5. ASSUME NEW c \in Commands,
             Sched!CommandStarts(c) \/ Sched!Change(c) \/ Sched!CommandEnds(c)
      PROVE  UNCHANGED agents
  BY <1>5 DEF Sched!CommandStarts, Sched!Change, Sched!CommandEnds, Sched!taskVars
<1>6. Sched!Boot \/ Sched!Tick \/ Sched!Saved \/ Sched!Pass => UNCHANGED agents
  BY DEF Sched!Boot, Sched!Tick, Sched!Saved, Sched!Pass, Sched!taskVars
<1>7. QED
  BY <1>1, <1>2, <1>3, <1>4, <1>5, <1>6 DEF Sched!Next

LEMMA SchedSafe ==
    ASSUME SchedIInv
    PROVE  Sched!TypeOK /\ Sched!NoOverlap /\ Sched!JobsSurvive
<1>1. Sched!NoOverlap
  BY DEF SchedIInv, AgentsInFlight, Sched!NoOverlap
<1>2. Sched!JobsSurvive
  BY DEF SchedIInv, JobsAreKept, Kept, Sched!JobsSurvive
<1>3. QED
  BY <1>1, <1>2 DEF SchedIInv

(***************************************************************************)
(* If commands wait for the scheduler and nobody dies inside a write, a job *)
(* is run once in its slot and never twice at a time, and no job is lost,   *)
(* however long it runs and however often the scheduler dies elsewhere.     *)
(***************************************************************************)
THEOREM TheJobsRunOnce ==
    ASSUME CommandsWait
    PROVE  HostSpec => JobsRunOnce
<1>1. HostInit => SchedIInv
  BY HostAssumption, SchedInitIInv DEF HostInit
<1>2. SchedIInv /\ [HostNext]_hostVars => SchedIInv'
  BY HostAssumption, HostSteps, SchedNextIInv
<1>3. SchedIInv => Sched!TypeOK /\ Sched!NoOverlap /\ Sched!JobsSurvive
  BY HostAssumption, SchedSafe
<1>4. SchedIInv /\ [HostNext]_hostVars => [OnceInItsSlot]_(Sched!vars)
  BY HostAssumption, HostSteps, BeginsOnce
<1>5. QED
  BY <1>1, <1>2, <1>3, <1>4, PTL DEF HostSpec, JobsRunOnce, Sched!OncePerSlot, OnceInItsSlot

(* A task that has not begun has no agent, and one agent is in flight.      *)
OneAgent ==
    /\ agents \in [Jobs -> {0, 1}]
    /\ tasked \subseteq Jobs /\ tasked \subseteq inflight
    /\ \A j \in tasked : agents[j] = 0
    /\ \A j \in Jobs : agents[j] = 1 => j \in inflight

LEMMA OneAgentStays ==
    ASSUME OneAgent, [Sched!Next]_(Sched!vars)
    PROVE  OneAgent'
<1>1. CASE UNCHANGED <<tasked, inflight, agents>>
  BY <1>1 DEF OneAgent
<1>2. CASE Sched!Tick
  BY <1>2 DEF OneAgent, Sched!Tick, Sched!DueJobs
<1>3. CASE Sched!Die
  BY <1>3 DEF OneAgent, Sched!Die
<1>4. ASSUME NEW j \in Jobs, Sched!Begin(j) PROVE OneAgent'
  <2>1. j \in tasked /\ j \in inflight' /\ agents[j] = 0 /\ tasked' = tasked \ {j}
        /\ inflight' = inflight
    BY <1>4 DEF OneAgent, Sched!Begin
  <2>2. QED
    BY <1>4, <2>1 DEF OneAgent, Sched!Begin
<1>5. ASSUME NEW j \in Jobs, Sched!Finish(j) PROVE OneAgent'
  BY <1>5 DEF OneAgent, Sched!Finish
<1>6. Sched!Boot \/ Sched!Saved \/ Sched!Pass \/ UNCHANGED Sched!vars =>
         UNCHANGED <<tasked, inflight, agents>>
  BY DEF Sched!Boot, Sched!Saved, Sched!Pass, Sched!taskVars, Sched!vars
<1>7. ASSUME NEW c \in Commands,
             Sched!CommandStarts(c) \/ Sched!Change(c) \/ Sched!CommandEnds(c)
      PROVE  UNCHANGED <<tasked, inflight, agents>>
  BY <1>7 DEF Sched!CommandStarts, Sched!Change, Sched!CommandEnds, Sched!taskVars
<1>8. QED
  BY <1>1, <1>2, <1>3, <1>4, <1>5, <1>6, <1>7 DEF Sched!Next

(***************************************************************************)
(* A job never has two agents, also when commands run beside the scheduler  *)
(* and processes die inside a write: whatever the file says.                *)
(***************************************************************************)
THEOREM JobsDoNotOverlap == HostSpec => []Sched!NoOverlap
<1>1. HostInit => OneAgent
  BY DEF HostInit, Sched!Init, OneAgent
<1>2. OneAgent /\ [HostNext]_hostVars => OneAgent'
  BY HostSteps, OneAgentStays
<1>3. OneAgent => Sched!NoOverlap
  BY DEF OneAgent, Sched!NoOverlap
<1>4. QED
  BY <1>1, <1>2, <1>3, PTL DEF HostSpec

-----------------------------------------------------------------------------
(* A pipeline, whose last role is qa.                                      *)

(* Nothing has happened before the roles are sorted. *)
NothingYet ==
    phase = "sorting" =>
        /\ over = {} /\ published = {} /\ words = {} /\ ~timedOut
        /\ \A r \in Pipe!Roles : roleAt[r] = "out" /\ result[r] = None

(* A role outside the pipeline has no task and no result. *)
OutsidersRest ==
    \A r \in Pipe!Roles : r \notin plan.roles => roleAt[r] = "out" /\ result[r] = None

(* Whoever has a task finds all roles subscribed. *)
AllSubscribed == \A r \in Pipe!Roles : roleAt[r] # "out" => subscribed = plan.roles

(* There are tasks while they are gathered, and after that only if one of   *)
(* them has raised.                                                         *)
Late == {"closing", "fallback", "hooks", "returned"}

TasksEnd == timedOut \/ phase \in Late => \A r \in Pipe!Roles : roleAt[r] = "out"

(* What is known of a role from the place of its task. *)
ResultsFit ==
    \A r \in Pipe!Roles :
        /\ roleAt[r] = "noting" => result[r] \in Pipe!Outputs
        /\ roleAt[r] = "failing" => result[r] = "error"
        /\ roleAt[r] = "skipping" => result[r] = "skipped"
        /\ r \in over => roleAt[r] = "out"
        /\ r \in over /\ ~timedOut =>
              \/ result[r] = "error"
              \/ result[r] \in Pipe!Outputs /\ listed[r] = "completed"
        /\ r = "qa" /\ words # {} => r \in Pipe!Began

(* What was published to a role that waits is in its queue. *)
QueuesAreFilled ==
    \A r, d \in Pipe!Roles :
        roleAt[r] = "waiting" /\ d \in published /\ r \in Pipe!Addressees[d] =>
            d \in inbox[r]

(* Who has raised has failed, or was skipped. *)
RaisedForCause ==
    phase = "raising" =>
        \E r \in plan.roles : roleAt[r] = "out" /\ result[r] \in {"error", "skipped"}

(* The verdict and the state of the session come when the tasks are over. *)
ClosedLate ==
    /\ phase \in {"sorting", "stages", "raising", "closing"} => verdict = None
    /\ verdict = "approved" => \A r \in Pipe!Roles : roleAt[r] = "out"
    /\ phase \in {"fallback", "hooks", "returned", "raised"} => session # "running"

(* The single agent is asked only for an engineer that did not complete.    *)
FallenForCause ==
    /\ fallenBack => phase = "returned"
    /\ phase = "fallback" \/ fallenBack => "engineer" \in plan.roles /\ ~Pipe!EngineerOk

PipeIInv ==
    /\ Pipe!TypeOK
    /\ NothingYet /\ OutsidersRest /\ AllSubscribed /\ TasksEnd /\ ResultsFit
    /\ QueuesAreFilled /\ RaisedForCause /\ ClosedLate /\ FallenForCause
    /\ Pipe!NoErrorFlowsDown /\ Pipe!HandoffsArrive /\ Pipe!ApprovalHasGrounds

-----------------------------------------------------------------------------

LEMMA RolesAre == "qa" \in Pipe!Roles /\ "engineer" \in Pipe!Roles
BY DEF Pipe!Roles, Pipe!Addressees

LEMMA OutputsAre ==
    ASSUME Pipe!PipelineAssumption
    PROVE  /\ Pipe!Outputs = {"artefact", "report", "error"}
           /\ None \notin {"artefact", "report", "error", "skipped", "completed", "approved"}
BY DEF Pipe!Outputs, Pipe!PipelineAssumption

LEMMA PlanIs ==
    ASSUME Pipe!PipelineAssumption, plan \in Plans
    PROVE  plan.roles \subseteq Pipe!Roles /\ plan.deps \in [Pipe!Roles -> SUBSET Pipe!Roles]
BY DEF Pipe!PipelineAssumption

(* What the roles have come to when the last one has said something. *)
LEMMA AllHaveWorked ==
    ASSUME Pipe!PipelineAssumption, QaIsLast, PipeIInv, ~timedOut, words # {},
           NEW r \in plan.roles, r # "qa"
    PROVE  r \in over /\ result[r] \in {"artefact", "report"}
<1>1. /\ plan \in Plans /\ plan.roles \subseteq Pipe!Roles /\ over \subseteq plan.roles
  BY PlanIs DEF PipeIInv, Pipe!TypeOK, Pipe!PipelineAssumption
<1>2. "qa" \in plan.roles /\ "qa" \in Pipe!Began
  BY <1>1, RolesAre DEF PipeIInv, OutsidersRest, ResultsFit, Pipe!Began
<1>3. \A x \in Pipe!Began : \A d \in plan.deps[x] \intersect plan.roles :
         d \in over /\ result[d] \in {"artefact", "report"}
  BY DEF PipeIInv, Pipe!NoErrorFlowsDown
<1>4. over \subseteq Pipe!Began
  BY <1>1 DEF Pipe!Began
<1>5. over \union {"qa"} = plan.roles
  <2> DEFINE some == over \union {"qa"}
  <2>1. some \in SUBSET plan.roles /\ "qa" \in some
    BY <1>1, <1>2
  <2>2. \A x \in some : plan.deps[x] \intersect plan.roles \subseteq some
    BY <1>2, <1>3, <1>4
  <2> HIDE DEF some
  <2>3. some = plan.roles
    BY <1>1, <2>1, <2>2 DEF QaIsLast
  <2>4. QED
    BY <2>3 DEF some
<1>6. r \in over /\ plan.roles \subseteq Pipe!Began
  BY <1>2, <1>4, <1>5
<1>7. \E x \in plan.roles \ {r} : r \in plan.deps[x]
  <2> DEFINE rest == plan.roles \ {r}
  <2>1. rest \in SUBSET plan.roles /\ "qa" \in rest /\ rest # plan.roles
    BY <1>2
  <2>2. \E x \in rest : ~(plan.deps[x] \intersect plan.roles \subseteq rest)
    <3> HIDE DEF rest
    <3>1. QED
      BY <1>1, <2>1 DEF QaIsLast
  <2>3. QED
    BY <2>2
<1>8. QED
  BY <1>3, <1>6, <1>7

LEMMA PipeInitIInv ==
    ASSUME Pipe!PipelineAssumption, Pipe!Init
    PROVE  PipeIInv
<1>1. Pipe!Began = {}
  BY DEF Pipe!Init, Pipe!Began
<1>2. None \notin {"artefact", "report", "error", "skipped", "completed", "approved"}
  BY OutputsAre
<1>3. Pipe!TypeOK
  <2>1. /\ plan \in Plans /\ phase = "sorting" /\ over = {} /\ subscribed = {}
        /\ timedOut \in BOOLEAN /\ session = "running" /\ verdict = None
        /\ published = {} /\ words = {} /\ judged = None /\ fallenBack \in BOOLEAN
    BY DEF Pipe!Init
  <2>2. hooks \in Nat /\ faults \in 0..MaxFaults
    BY DEF Pipe!Init, Pipe!PipelineAssumption
  <2>3. /\ roleAt \in [Pipe!Roles -> {"out"}] /\ result \in [Pipe!Roles -> {None}]
        /\ listed \in [Pipe!Roles -> {None}]
        /\ inbox \in [Pipe!Roles -> {{}}] /\ heard \in [Pipe!Roles -> {{}}]
    BY DEF Pipe!Init
  <2>4. QED
    BY <2>1, <2>2, <2>3 DEF Pipe!TypeOK
<1>4. /\ NothingYet /\ OutsidersRest /\ AllSubscribed /\ TasksEnd /\ QueuesAreFilled
      /\ RaisedForCause
  BY <1>2 DEF Pipe!Init, NothingYet, OutsidersRest, AllSubscribed, TasksEnd, QueuesAreFilled,
              RaisedForCause
<1>5. ResultsFit
  BY <1>2 DEF Pipe!Init, ResultsFit
<1>6. ClosedLate /\ FallenForCause /\ Pipe!ApprovalHasGrounds
  BY <1>2 DEF Pipe!Init, ClosedLate, FallenForCause, Pipe!ApprovalHasGrounds
<1>7. Pipe!NoErrorFlowsDown /\ Pipe!HandoffsArrive
  BY <1>1 DEF Pipe!NoErrorFlowsDown, Pipe!HandoffsArrive
<1>8. QED
  BY <1>3, <1>4, <1>5, <1>6, <1>7 DEF PipeIInv

-----------------------------------------------------------------------------
(* The steps of a task. *)

LEMMA TaskIs ==
    ASSUME PipeIInv, NEW r \in Pipe!Roles, roleAt[r] # "out"
    PROVE  /\ r \in plan.roles /\ r \notin over /\ subscribed = plan.roles
           /\ ~timedOut /\ phase \in {"stages", "raising", "raised"} /\ verdict # "approved"
           /\ ~fallenBack
<1>1. phase \notin Late /\ ~timedOut
  BY DEF PipeIInv, TasksEnd
<1>2. phase # "sorting"
  BY DEF PipeIInv, NothingYet
<1>3. phase \in {"stages", "raising", "raised"}
  BY <1>1, <1>2 DEF PipeIInv, Pipe!TypeOK, Late
<1>4. verdict # "approved" /\ ~fallenBack
  BY <1>3 DEF PipeIInv, ClosedLate, FallenForCause
<1>5. r \in plan.roles /\ r \notin over /\ subscribed = plan.roles
  BY DEF PipeIInv, OutsidersRest, ResultsFit, AllSubscribed
<1>6. QED
  BY <1>1, <1>3, <1>4, <1>5

(* What a step of the task leaves as it is. *)
Aside ==
    /\ UNCHANGED <<plan, timedOut, session, verdict, fallenBack, subscribed>>
    /\ phase' \in {phase, "raising"} /\ (phase' = phase \/ phase = "stages")

(* The step keeps what does not depend on its role. *)
LEMMA AsideKeeps ==
    ASSUME Pipe!PipelineAssumption, PipeIInv, NEW r \in Pipe!Roles, roleAt[r] # "out", Aside
    PROVE  /\ phase' \in {"stages", "raising", "raised"}
           /\ NothingYet' /\ AllSubscribed' /\ TasksEnd' /\ ClosedLate' /\ FallenForCause'
           /\ Pipe!ApprovalHasGrounds'
<1>1. /\ ~timedOut /\ phase \in {"stages", "raising", "raised"} /\ verdict # "approved"
      /\ subscribed = plan.roles /\ ~fallenBack
  BY TaskIs
<1>2. /\ phase' \in {"stages", "raising", "raised"} /\ ~timedOut' /\ verdict' # "approved"
      /\ ~fallenBack'
  BY <1>1 DEF Aside
<1>3. NothingYet' /\ AllSubscribed' /\ TasksEnd' /\ Pipe!ApprovalHasGrounds'
  BY <1>1, <1>2 DEF NothingYet, AllSubscribed, TasksEnd, Pipe!ApprovalHasGrounds, Late, Aside
<1>4. ClosedLate' /\ FallenForCause'
  BY <1>1, <1>2 DEF PipeIInv, ClosedLate, FallenForCause, Aside
<1>5. QED
  BY <1>2, <1>3, <1>4

LEMMA SkipIInv ==
    ASSUME Pipe!PipelineAssumption, PipeIInv, NEW r \in Pipe!Roles, Pipe!Skip(r)
    PROVE  PipeIInv'
<1>1. roleAt[r] = "waiting" /\ roleAt[r] # "out"
  BY DEF Pipe!Skip, Pipe!Ready
<1>2. /\ r \in plan.roles /\ r \notin over /\ subscribed = plan.roles /\ ~timedOut
      /\ Pipe!TypeOK
  BY <1>1, TaskIs DEF PipeIInv
<1>3. /\ roleAt' = [roleAt EXCEPT ![r] = "skipping"]
      /\ result' = [result EXCEPT ![r] = "skipped"]
      /\ listed' = [listed EXCEPT ![r] = "skipped"]
      /\ UNCHANGED <<plan, timedOut, session, verdict, fallenBack, phase, over, subscribed, inbox,
                     heard, published, words, judged, hooks, faults>>
  BY DEF Pipe!Skip, Pipe!Goto, Pipe!taskFree, Pipe!said
<1> DEFINE ByRole ==
      \A q \in Pipe!Roles :
        /\ roleAt'[q] = IF q = r THEN "skipping" ELSE roleAt[q]
        /\ result'[q] = IF q = r THEN "skipped" ELSE result[q]
        /\ listed'[q] = IF q = r THEN "skipped" ELSE listed[q]
<1>4. Aside
  BY DEF Pipe!Skip, Aside, Pipe!taskFree, Pipe!said
<1>5. /\ phase' \in {"stages", "raising", "raised"}
      /\ NothingYet' /\ AllSubscribed' /\ TasksEnd' /\ ClosedLate' /\ FallenForCause'
      /\ Pipe!ApprovalHasGrounds'
  BY <1>1, <1>4, AsideKeeps
<1>6. ByRole
  BY <1>2, <1>3 DEF Pipe!TypeOK
<1>7. Pipe!TypeOK'
  BY <1>2, <1>3 DEF Pipe!TypeOK
<1>8. Pipe!Began' = Pipe!Began
  BY <1>1, <1>2, <1>3, <1>6 DEF Pipe!Began
<1>9. OutsidersRest'
  BY <1>2, <1>3, <1>6 DEF PipeIInv, OutsidersRest
<1>10. ResultsFit'
  BY <1>2, <1>3, <1>6, <1>8 DEF PipeIInv, ResultsFit
<1>11. QueuesAreFilled' /\ RaisedForCause'
  BY <1>1, <1>2, <1>3, <1>6, PlanIs DEF PipeIInv, QueuesAreFilled, RaisedForCause, Pipe!TypeOK
<1>12. Pipe!NoErrorFlowsDown' /\ Pipe!HandoffsArrive'
  BY <1>2, <1>3, <1>6, <1>8, PlanIs
  DEF PipeIInv, Pipe!NoErrorFlowsDown, Pipe!HandoffsArrive, Pipe!TypeOK, Pipe!Began
<1>13. QED
  BY <1>5, <1>6, <1>7, <1>8, <1>9, <1>10, <1>11, <1>12 DEF PipeIInv

LEMMA RoleStarts ==
    ASSUME Pipe!PipelineAssumption, PipeIInv, NEW r \in Pipe!Roles, Pipe!Start(r)
    PROVE  PipeIInv'
<1>1. /\ roleAt[r] = "waiting" /\ roleAt[r] # "out"
      /\ plan.deps[r] \intersect plan.roles \subseteq over /\ Pipe!FailedDeps(r) = {}
  BY DEF Pipe!Start, Pipe!Ready
<1>2. /\ r \in plan.roles /\ r \notin over /\ subscribed = plan.roles /\ ~timedOut
      /\ Pipe!TypeOK
  BY <1>1, TaskIs DEF PipeIInv
<1>3. /\ roleAt' = [roleAt EXCEPT ![r] = "running"]
      /\ heard' = [heard EXCEPT ![r] = inbox[r]]
      /\ inbox' = [inbox EXCEPT ![r] = {}]
      /\ hooks' \in {hooks, hooks + 1}
      /\ UNCHANGED <<plan, timedOut, session, verdict, fallenBack, phase, over, subscribed, result,
                     listed, faults, published, words, judged>>
  BY DEF Pipe!Start, Pipe!Goto, Pipe!Hook, Pipe!taskFree, Pipe!said
<1> DEFINE ByRole ==
      \A q \in Pipe!Roles :
        /\ roleAt'[q] = IF q = r THEN "running" ELSE roleAt[q]
        /\ heard'[q] = IF q = r THEN inbox[q] ELSE heard[q]
        /\ inbox'[q] = IF q = r THEN {} ELSE inbox[q]
<1>4. Aside
  BY DEF Pipe!Start, Aside, Pipe!taskFree, Pipe!said
<1>5. /\ phase' \in {"stages", "raising", "raised"}
      /\ NothingYet' /\ AllSubscribed' /\ TasksEnd' /\ ClosedLate' /\ FallenForCause'
      /\ Pipe!ApprovalHasGrounds'
  BY <1>1, <1>4, AsideKeeps
<1>6. ByRole
  BY <1>2, <1>3 DEF Pipe!TypeOK
<1>7. Pipe!TypeOK'
  <2>1. hooks' \in Nat /\ inbox[r] \in SUBSET Pipe!Roles
    BY <1>2, <1>3 DEF Pipe!TypeOK
  <2>2. QED
    BY <1>2, <1>3, <2>1 DEF Pipe!TypeOK
<1>8. Pipe!Began' = Pipe!Began \union {r}
  BY <1>1, <1>2, <1>3, <1>6 DEF Pipe!Began
<1>9. OutsidersRest'
  BY <1>2, <1>3, <1>6 DEF PipeIInv, OutsidersRest
<1>10. ResultsFit'
  BY <1>2, <1>3, <1>6, <1>8 DEF PipeIInv, ResultsFit
<1>11. QueuesAreFilled' /\ RaisedForCause'
  BY <1>1, <1>2, <1>3, <1>6, PlanIs DEF PipeIInv, QueuesAreFilled, RaisedForCause, Pipe!TypeOK
<1>12. Pipe!NoErrorFlowsDown'
  <2>1. \A d \in plan.deps[r] \intersect plan.roles :
           d \in over /\ result[d] \in {"artefact", "report"}
    <3>1. SUFFICES ASSUME NEW d \in plan.deps[r] \intersect plan.roles
                   PROVE  d \in over /\ result[d] \in {"artefact", "report"}
      OBVIOUS
    <3>2. d \in over /\ d \in Pipe!Roles /\ result[d] # "error"
      BY <1>1, <1>2, PlanIs DEF Pipe!FailedDeps, Pipe!TypeOK
    <3>3. result[d] \in Pipe!Outputs
      BY <1>2, <3>2 DEF PipeIInv, ResultsFit
    <3>4. QED
      BY <3>2, <3>3, OutputsAre
  <2>2. \A q \in Pipe!Began : \A d \in plan.deps[q] \intersect plan.roles :
           d \in over /\ result[d] \in {"artefact", "report"}
    BY DEF PipeIInv, Pipe!NoErrorFlowsDown
  <2>3. QED
    BY <1>3, <1>8, <2>1, <2>2 DEF Pipe!NoErrorFlowsDown
<1>13. Pipe!HandoffsArrive'
  <2>1. SUFFICES ASSUME NEW q \in Pipe!Began', NEW d \in plan.deps[q],
                        d \in published, q \in Pipe!Addressees[d]
                 PROVE  d \in heard'[q]
    BY <1>3 DEF Pipe!HandoffsArrive
  <2>2. q \in Pipe!Roles /\ d \in Pipe!Roles
    BY <1>2, PlanIs DEF Pipe!Began, Pipe!TypeOK
  <2>3. CASE q = r
    BY <1>1, <1>6, <2>1, <2>2, <2>3 DEF PipeIInv, QueuesAreFilled
  <2>4. CASE q # r
    <3>1. q \in Pipe!Began /\ heard'[q] = heard[q]
      BY <1>6, <1>8, <2>1, <2>2, <2>4
    <3>2. QED
      BY <2>1, <3>1 DEF PipeIInv, Pipe!HandoffsArrive
  <2>5. QED
    BY <2>3, <2>4
<1>14. QED
  BY <1>5, <1>7, <1>9, <1>10, <1>11, <1>12, <1>13 DEF PipeIInv

LEMMA RoleReturns ==
    ASSUME Pipe!PipelineAssumption, PipeIInv, NEW r \in Pipe!Roles, Pipe!Return(r)
    PROVE  PipeIInv'
<1>1. roleAt[r] = "running" /\ roleAt[r] # "out"
  BY DEF Pipe!Return
<1>2. /\ r \in plan.roles /\ r \notin over /\ subscribed = plan.roles /\ ~timedOut
      /\ Pipe!TypeOK
  BY <1>1, TaskIs DEF PipeIInv
<1>3. PICK out \in Pipe!Outputs, sent \in BOOLEAN :
        /\ result' = [result EXCEPT ![r] = out]
        /\ published' = IF sent THEN published \union {r} ELSE published
        /\ inbox' = [to \in Pipe!Roles |->
              IF sent /\ to \in Pipe!Addressees[r] \intersect subscribed
              THEN inbox[to] \union {r} ELSE inbox[to]]
        /\ Pipe!Judges(r, sent)
  BY DEF Pipe!Return, Pipe!Sendings
<1>4. /\ roleAt' = [roleAt EXCEPT ![r] = "noting"]
      /\ r # "qa" => words' = words
      /\ words' \subseteq Pipe!Words /\ judged' \in {None, "approved", "rework"}
      /\ UNCHANGED <<plan, timedOut, session, verdict, fallenBack, phase, over, subscribed, listed,
                     heard, hooks, faults>>
  BY <1>2, <1>3
  DEF Pipe!Return, Pipe!Goto, Pipe!taskFree, Pipe!Says, Pipe!Judges, Pipe!TypeOK
<1>5. out \in {"artefact", "report", "error"}
  BY OutputsAre
<1> DEFINE ByRole ==
      \A q \in Pipe!Roles :
        /\ roleAt'[q] = IF q = r THEN "noting" ELSE roleAt[q]
        /\ result'[q] = IF q = r THEN out ELSE result[q]
        /\ inbox[q] \subseteq inbox'[q]
        /\ sent /\ q \in Pipe!Addressees[r] /\ q \in subscribed => r \in inbox'[q]
<1>6. Aside
  BY DEF Pipe!Return, Aside, Pipe!taskFree, Pipe!said
<1>7. /\ phase' \in {"stages", "raising", "raised"}
      /\ NothingYet' /\ AllSubscribed' /\ TasksEnd' /\ ClosedLate' /\ FallenForCause'
      /\ Pipe!ApprovalHasGrounds'
  BY <1>1, <1>6, AsideKeeps
<1>8. ByRole
  BY <1>2, <1>3, <1>4 DEF Pipe!TypeOK
<1>9. Pipe!TypeOK'
  <2>1. inbox' \in [Pipe!Roles -> SUBSET Pipe!Roles]
    BY <1>2, <1>3 DEF Pipe!TypeOK
  <2>2. QED
    BY <1>2, <1>3, <1>4, <1>5, <2>1 DEF Pipe!TypeOK
<1>10. Pipe!Began' = Pipe!Began /\ r \in Pipe!Began
  BY <1>1, <1>2, <1>4, <1>8 DEF Pipe!Began
<1>11. OutsidersRest'
  BY <1>2, <1>4, <1>8 DEF PipeIInv, OutsidersRest
<1>12. ResultsFit'
  BY <1>2, <1>3, <1>4, <1>8, <1>10 DEF PipeIInv, ResultsFit
<1>13. RaisedForCause'
  BY <1>1, <1>2, <1>4, <1>8, PlanIs DEF PipeIInv, RaisedForCause, Pipe!TypeOK
<1>14. QueuesAreFilled'
  <2>1. SUFFICES ASSUME NEW q \in Pipe!Roles, NEW d \in Pipe!Roles,
                        roleAt'[q] = "waiting", d \in published', q \in Pipe!Addressees[d]
                 PROVE  d \in inbox'[q]
    BY DEF QueuesAreFilled
  <2>2. roleAt[q] = "waiting" /\ q \in subscribed
    BY <1>2, <1>8, <2>1 DEF PipeIInv, OutsidersRest
  <2>3. CASE d = r
    <3>1. CASE sent
      BY <1>8, <2>1, <2>2, <2>3, <3>1
    <3>2. CASE ~sent
      BY <1>3, <1>8, <2>1, <2>2, <3>2 DEF PipeIInv, QueuesAreFilled
    <3>3. QED
      BY <3>1, <3>2
  <2>4. CASE d # r
    BY <1>3, <1>8, <2>1, <2>2, <2>4 DEF PipeIInv, QueuesAreFilled
  <2>5. QED
    BY <2>3, <2>4
<1>15. Pipe!NoErrorFlowsDown'
  BY <1>2, <1>4, <1>8, <1>10, PlanIs
  DEF PipeIInv, Pipe!NoErrorFlowsDown, Pipe!TypeOK, Pipe!Began
<1>16. Pipe!HandoffsArrive'
  <2>1. SUFFICES ASSUME NEW q \in Pipe!Began', NEW d \in plan.deps[q],
                        d \in published', q \in Pipe!Addressees[d]
                 PROVE  d \in heard'[q]
    BY <1>4 DEF Pipe!HandoffsArrive
  <2>2. d # r
    BY <1>2, <1>10, <2>1 DEF PipeIInv, Pipe!NoErrorFlowsDown
  <2>3. QED
    BY <1>3, <1>4, <1>10, <2>1, <2>2 DEF PipeIInv, Pipe!HandoffsArrive
<1>17. QED
  BY <1>7, <1>9, <1>11, <1>12, <1>13, <1>14, <1>15, <1>16 DEF PipeIInv

LEMMA RoleFails ==
    ASSUME Pipe!PipelineAssumption, PipeIInv, NEW r \in Pipe!Roles, Pipe!Fail(r)
    PROVE  PipeIInv'
<1>1. roleAt[r] \in {"running", "noting"} /\ roleAt[r] # "out"
  BY DEF Pipe!Fail
<1>2. /\ r \in plan.roles /\ r \notin over /\ subscribed = plan.roles /\ ~timedOut
      /\ Pipe!TypeOK
  BY <1>1, TaskIs DEF PipeIInv
<1>3. /\ roleAt' = [roleAt EXCEPT ![r] = "failing"]
      /\ result' = [result EXCEPT ![r] = "error"]
      /\ r # "qa" => words' = words
      /\ words' \subseteq Pipe!Words
      /\ UNCHANGED <<plan, timedOut, session, verdict, fallenBack, phase, over, subscribed, listed,
                     inbox, heard, published, judged, hooks>>
  BY <1>2 DEF Pipe!Fail, Pipe!Says, Pipe!TypeOK, Pipe!Goto, Pipe!taskFree, Pipe!said
<1>4. faults' \in 0..MaxFaults
  BY <1>2 DEF Pipe!Fail, Pipe!TypeOK, Pipe!PipelineAssumption
<1> DEFINE ByRole ==
      \A q \in Pipe!Roles :
        /\ roleAt'[q] = IF q = r THEN "failing" ELSE roleAt[q]
        /\ result'[q] = IF q = r THEN "error" ELSE result[q]
<1>5. Aside
  BY DEF Pipe!Fail, Aside, Pipe!taskFree, Pipe!said
<1>6. /\ phase' \in {"stages", "raising", "raised"}
      /\ NothingYet' /\ AllSubscribed' /\ TasksEnd' /\ ClosedLate' /\ FallenForCause'
      /\ Pipe!ApprovalHasGrounds'
  BY <1>1, <1>5, AsideKeeps
<1>7. ByRole
  BY <1>2, <1>3 DEF Pipe!TypeOK
<1>8. Pipe!TypeOK'
  BY <1>2, <1>3, <1>4 DEF Pipe!TypeOK, Pipe!Outputs
<1>9. Pipe!Began' = Pipe!Began /\ r \in Pipe!Began
  BY <1>1, <1>2, <1>3, <1>7 DEF Pipe!Began
<1>10. OutsidersRest'
  BY <1>2, <1>3, <1>7 DEF PipeIInv, OutsidersRest
<1>11. ResultsFit'
  BY <1>2, <1>3, <1>7, <1>9 DEF PipeIInv, ResultsFit
<1>12. QueuesAreFilled' /\ RaisedForCause'
  BY <1>1, <1>2, <1>3, <1>7, PlanIs DEF PipeIInv, QueuesAreFilled, RaisedForCause, Pipe!TypeOK
<1>13. Pipe!NoErrorFlowsDown' /\ Pipe!HandoffsArrive'
  BY <1>2, <1>3, <1>7, <1>9, PlanIs
  DEF PipeIInv, Pipe!NoErrorFlowsDown, Pipe!HandoffsArrive, Pipe!TypeOK, Pipe!Began
<1>14. QED
  BY <1>6, <1>8, <1>10, <1>11, <1>12, <1>13 DEF PipeIInv

LEMMA RoleEnds ==
    ASSUME Pipe!PipelineAssumption, PipeIInv, NEW r \in Pipe!Roles, Pipe!End(r)
    PROVE  PipeIInv'
<1>1. roleAt[r] \in {"noting", "failing"} /\ roleAt[r] # "out"
  BY DEF Pipe!End
<1>2. /\ r \in plan.roles /\ r \notin over /\ subscribed = plan.roles /\ ~timedOut
      /\ Pipe!TypeOK
  BY <1>1, TaskIs DEF PipeIInv
<1>3. /\ roleAt' = [roleAt EXCEPT ![r] = "out"]
      /\ listed' = [listed EXCEPT ![r] = IF roleAt[r] = "noting" THEN "completed" ELSE "error"]
      /\ over' = over \union {r} /\ hooks' \in {hooks, hooks + 1}
      /\ UNCHANGED <<plan, timedOut, session, verdict, fallenBack, phase, subscribed, result,
                     inbox, heard, faults, published, words, judged>>
  BY DEF Pipe!End, Pipe!Goto, Pipe!Hook, Pipe!taskFree, Pipe!said
<1> DEFINE ByRole ==
      \A q \in Pipe!Roles :
        /\ roleAt'[q] = IF q = r THEN "out" ELSE roleAt[q]
        /\ listed'[q] = IF q # r THEN listed[q]
                        ELSE IF roleAt[r] = "noting" THEN "completed" ELSE "error"
<1>4. Aside
  BY DEF Pipe!End, Aside, Pipe!taskFree, Pipe!said
<1>5. /\ phase' \in {"stages", "raising", "raised"}
      /\ NothingYet' /\ AllSubscribed' /\ TasksEnd' /\ ClosedLate' /\ FallenForCause'
      /\ Pipe!ApprovalHasGrounds'
  BY <1>1, <1>4, AsideKeeps
<1>6. ByRole
  BY <1>2, <1>3 DEF Pipe!TypeOK
<1>7. Pipe!TypeOK'
  <2>1. hooks' \in Nat
    BY <1>2, <1>3 DEF Pipe!TypeOK
  <2>2. QED
    BY <1>2, <1>3, <2>1 DEF Pipe!TypeOK
<1>8. Pipe!Began' = Pipe!Began
  BY <1>1, <1>2, <1>3, <1>6 DEF Pipe!Began
<1>9. OutsidersRest'
  BY <1>2, <1>3, <1>6 DEF PipeIInv, OutsidersRest
<1>10. ResultsFit'
  BY <1>1, <1>2, <1>3, <1>6, <1>8 DEF PipeIInv, ResultsFit
<1>11. QueuesAreFilled' /\ RaisedForCause'
  BY <1>1, <1>2, <1>3, <1>6, PlanIs DEF PipeIInv, QueuesAreFilled, RaisedForCause, Pipe!TypeOK
<1>12. Pipe!NoErrorFlowsDown' /\ Pipe!HandoffsArrive'
  BY <1>2, <1>3, <1>6, <1>8 DEF PipeIInv, Pipe!NoErrorFlowsDown, Pipe!HandoffsArrive
<1>13. QED
  BY <1>5, <1>7, <1>9, <1>10, <1>11, <1>12 DEF PipeIInv

LEMMA RoleWasSkipped ==
    ASSUME Pipe!PipelineAssumption, PipeIInv, NEW r \in Pipe!Roles, Pipe!Skipped(r)
    PROVE  PipeIInv'
<1>1. roleAt[r] = "skipping" /\ roleAt[r] # "out"
  BY DEF Pipe!Skipped
<1>2. /\ r \in plan.roles /\ r \notin over /\ subscribed = plan.roles /\ ~timedOut
      /\ Pipe!TypeOK
  BY <1>1, TaskIs DEF PipeIInv
<1>3. /\ roleAt' = [roleAt EXCEPT ![r] = "out"]
      /\ UNCHANGED <<plan, timedOut, session, verdict, fallenBack, phase, over, subscribed, result,
                     listed, inbox, heard, published, words, judged, hooks, faults>>
  BY DEF Pipe!Skipped, Pipe!Goto, Pipe!taskFree, Pipe!said
<1>4. Aside
  BY DEF Pipe!Skipped, Aside, Pipe!taskFree, Pipe!said
<1>5. /\ phase' \in {"stages", "raising", "raised"}
      /\ NothingYet' /\ AllSubscribed' /\ TasksEnd' /\ ClosedLate' /\ FallenForCause'
      /\ Pipe!ApprovalHasGrounds'
  BY <1>1, <1>4, AsideKeeps
<1>6. \A q \in Pipe!Roles : roleAt'[q] = IF q = r THEN "out" ELSE roleAt[q]
  BY <1>2, <1>3 DEF Pipe!TypeOK
<1>7. Pipe!TypeOK'
  BY <1>2, <1>3 DEF Pipe!TypeOK
<1>8. Pipe!Began' = Pipe!Began
  BY <1>1, <1>2, <1>3, <1>6 DEF Pipe!Began
<1>9. OutsidersRest'
  BY <1>2, <1>3, <1>6 DEF PipeIInv, OutsidersRest
<1>10. ResultsFit'
  BY <1>1, <1>2, <1>3, <1>6, <1>8 DEF PipeIInv, ResultsFit
<1>11. QueuesAreFilled' /\ RaisedForCause'
  BY <1>1, <1>2, <1>3, <1>6, PlanIs DEF PipeIInv, QueuesAreFilled, RaisedForCause, Pipe!TypeOK
<1>12. Pipe!NoErrorFlowsDown' /\ Pipe!HandoffsArrive'
  BY <1>2, <1>3, <1>6, <1>8 DEF PipeIInv, Pipe!NoErrorFlowsDown, Pipe!HandoffsArrive
<1>13. QED
  BY <1>5, <1>7, <1>9, <1>10, <1>11, <1>12 DEF PipeIInv

LEMMA RoleRaises ==
    ASSUME Pipe!PipelineAssumption, PipeIInv, NEW r \in Pipe!Roles, Pipe!Raise(r)
    PROVE  PipeIInv'
<1>1. roleAt[r] \in {"failing", "skipping"} /\ roleAt[r] # "out"
  BY DEF Pipe!Raise
<1>2. /\ r \in plan.roles /\ r \notin over /\ subscribed = plan.roles /\ ~timedOut
      /\ Pipe!TypeOK
  BY <1>1, TaskIs DEF PipeIInv
<1>3. /\ roleAt' = [roleAt EXCEPT ![r] = "out"]
      /\ over' = IF roleAt[r] = "failing" THEN over \union {r} ELSE over
      /\ phase' = IF phase = "stages" THEN "raising" ELSE phase
      /\ UNCHANGED <<plan, timedOut, session, verdict, fallenBack, subscribed, result, listed,
                     inbox, heard, published, words, judged, hooks>>
  BY DEF Pipe!Raise, Pipe!Goto, Pipe!taskFree, Pipe!said
<1>4. faults' \in 0..MaxFaults
  BY <1>2 DEF Pipe!Raise, Pipe!TypeOK, Pipe!PipelineAssumption
<1>5. Aside
  BY <1>3 DEF Aside
<1>6. /\ phase' \in {"stages", "raising", "raised"}
      /\ NothingYet' /\ AllSubscribed' /\ TasksEnd' /\ ClosedLate' /\ FallenForCause'
      /\ Pipe!ApprovalHasGrounds'
  BY <1>1, <1>5, AsideKeeps
<1>7. \A q \in Pipe!Roles : roleAt'[q] = IF q = r THEN "out" ELSE roleAt[q]
  BY <1>2, <1>3 DEF Pipe!TypeOK
<1>8. Pipe!TypeOK'
  BY <1>2, <1>3, <1>4 DEF Pipe!TypeOK
<1>9. Pipe!Began' = Pipe!Began /\ over \subseteq over'
  BY <1>1, <1>2, <1>3, <1>7 DEF Pipe!Began
<1>10. result[r] \in {"error", "skipped"} /\ (r \in over' => result[r] = "error")
  BY <1>1, <1>2, <1>3 DEF PipeIInv, ResultsFit
<1>11. OutsidersRest'
  BY <1>2, <1>3, <1>7 DEF PipeIInv, OutsidersRest
<1>12. ResultsFit'
  BY <1>1, <1>2, <1>3, <1>7, <1>9, <1>10 DEF PipeIInv, ResultsFit
<1>13. QueuesAreFilled' /\ RaisedForCause'
  BY <1>1, <1>2, <1>3, <1>7, <1>10, PlanIs DEF PipeIInv, QueuesAreFilled, RaisedForCause, Pipe!TypeOK
<1>14. Pipe!NoErrorFlowsDown' /\ Pipe!HandoffsArrive'
  BY <1>2, <1>3, <1>9 DEF PipeIInv, Pipe!NoErrorFlowsDown, Pipe!HandoffsArrive
<1>15. QED
  BY <1>6, <1>8, <1>11, <1>12, <1>13, <1>14 DEF PipeIInv

-----------------------------------------------------------------------------
(* The steps of the pipeline.                                              *)

LEMMA RefuseIInv ==
    ASSUME Pipe!PipelineAssumption, QaIsLast, PipeIInv, Pipe!Refuse
    PROVE  PipeIInv'
<1>1. Pipe!TypeOK /\ phase = "sorting" /\ phase' = "raised"
  BY DEF PipeIInv, Pipe!Refuse
<1>2. ~Pipe!Unknown
  <2>1. Pipe!Sorted \subseteq plan.roles
    BY DEF Pipe!Sorted
  <2>2. \A r \in Pipe!Roles \ plan.roles : plan.deps[r] \intersect plan.roles = {}
    BY <1>1 DEF QaIsLast, Pipe!TypeOK
  <2>3. QED
    BY <2>1, <2>2 DEF Pipe!Unknown
<1>3. /\ session' = "error"
      /\ UNCHANGED <<plan, roleAt, result, over, listed, subscribed, inbox, heard, published,
                     words, judged, hooks, timedOut, verdict, fallenBack, faults>>
  BY <1>2 DEF Pipe!Refuse, Pipe!stageVars, Pipe!said
<1>4. verdict = None /\ None # "approved" /\ ~timedOut
  BY <1>1 DEF PipeIInv, ClosedLate, NothingYet, Pipe!PipelineAssumption
<1>5. Pipe!TypeOK'
  BY <1>1, <1>3 DEF Pipe!TypeOK
<1>6. Pipe!Began' = Pipe!Began
  BY <1>3 DEF Pipe!Began
<1>7. NothingYet' /\ OutsidersRest' /\ AllSubscribed' /\ TasksEnd' /\ RaisedForCause'
  BY <1>1, <1>3, <1>4 DEF PipeIInv, NothingYet, OutsidersRest, AllSubscribed, TasksEnd, Late,
                     RaisedForCause
<1>8. ResultsFit' /\ QueuesAreFilled'
  BY <1>3, <1>6 DEF PipeIInv, ResultsFit, QueuesAreFilled
<1>9. ClosedLate' /\ FallenForCause'
      /\ Pipe!ApprovalHasGrounds'
  BY <1>1, <1>3, <1>4 DEF PipeIInv, ClosedLate, FallenForCause, Pipe!ApprovalHasGrounds
<1>10. Pipe!NoErrorFlowsDown' /\ Pipe!HandoffsArrive'
  BY <1>3, <1>6 DEF PipeIInv, Pipe!NoErrorFlowsDown, Pipe!HandoffsArrive
<1>11. QED
  BY <1>5, <1>7, <1>8, <1>9, <1>10 DEF PipeIInv

LEMMA LaunchIInv ==
    ASSUME Pipe!PipelineAssumption, PipeIInv, Pipe!Launch
    PROVE  PipeIInv'
<1>1. Pipe!TypeOK /\ phase = "sorting" /\ phase' = "stages"
  BY DEF PipeIInv, Pipe!Launch
<1>2. /\ roleAt' = [r \in Pipe!Roles |-> IF r \in plan.roles THEN "waiting" ELSE "out"]
      /\ subscribed' = plan.roles
      /\ UNCHANGED <<plan, result, over, listed, inbox, heard, published, words, judged, hooks,
                     timedOut, session, verdict, fallenBack, faults>>
  BY DEF Pipe!Launch, Pipe!said
<1>3. /\ over = {} /\ ~timedOut /\ \A r \in Pipe!Roles : result[r] = None
      /\ verdict = None /\ published = {} /\ words = {}
      /\ None \notin {"artefact", "report", "error", "skipped", "completed", "approved"}
  BY <1>1, OutputsAre DEF PipeIInv, ClosedLate, NothingYet
<1>4. \A r \in Pipe!Roles : roleAt'[r] = IF r \in plan.roles THEN "waiting" ELSE "out"
  BY <1>2
<1>5. Pipe!TypeOK'
  BY <1>1, <1>2 DEF Pipe!TypeOK
<1>6. Pipe!Began' = {}
  BY <1>2, <1>3, <1>4 DEF Pipe!Began
<1>7. NothingYet' /\ OutsidersRest' /\ AllSubscribed' /\ TasksEnd' /\ RaisedForCause'
  BY <1>1, <1>2, <1>3, <1>4 DEF NothingYet, OutsidersRest, AllSubscribed, TasksEnd, Late,
                                RaisedForCause
<1>8. ResultsFit' /\ QueuesAreFilled'
  BY <1>2, <1>3, <1>4 DEF ResultsFit, QueuesAreFilled
<1>9. ClosedLate' /\ FallenForCause'
      /\ Pipe!ApprovalHasGrounds'
  BY <1>1, <1>2, <1>3 DEF PipeIInv, ClosedLate, FallenForCause, Pipe!ApprovalHasGrounds
<1>10. Pipe!NoErrorFlowsDown' /\ Pipe!HandoffsArrive'
  BY <1>6 DEF Pipe!NoErrorFlowsDown, Pipe!HandoffsArrive
<1>11. QED
  BY <1>5, <1>7, <1>8, <1>9, <1>10 DEF PipeIInv

LEMMA GatheredIInv ==
    ASSUME Pipe!PipelineAssumption, PipeIInv, Pipe!Gathered
    PROVE  PipeIInv'
<1>1. /\ Pipe!TypeOK /\ phase = "stages" /\ phase' = "closing"
      /\ \A r \in plan.roles : roleAt[r] = "out"
      /\ UNCHANGED <<plan, roleAt, result, over, listed, subscribed, inbox, heard, published,
                     words, judged, hooks, timedOut, session, verdict, fallenBack, faults>>
  BY DEF PipeIInv, Pipe!Gathered, Pipe!Busy, Pipe!stageVars, Pipe!said
<1>2. \A r \in Pipe!Roles : roleAt[r] = "out"
  BY <1>1 DEF PipeIInv, OutsidersRest
<1>3. verdict = None /\ None # "approved"
  BY <1>1 DEF PipeIInv, ClosedLate, Pipe!PipelineAssumption
<1>4. Pipe!TypeOK' /\ Pipe!Began' = Pipe!Began
  BY <1>1 DEF Pipe!TypeOK, Pipe!Began
<1>5. NothingYet' /\ OutsidersRest' /\ AllSubscribed' /\ TasksEnd' /\ RaisedForCause'
  BY <1>1, <1>2 DEF PipeIInv, NothingYet, OutsidersRest, AllSubscribed, TasksEnd, RaisedForCause
<1>6. ResultsFit' /\ QueuesAreFilled'
  BY <1>1, <1>4 DEF PipeIInv, ResultsFit, QueuesAreFilled
<1>7. ClosedLate' /\ FallenForCause'
      /\ Pipe!ApprovalHasGrounds'
  BY <1>1, <1>3 DEF PipeIInv, ClosedLate, FallenForCause, Pipe!ApprovalHasGrounds
<1>8. Pipe!NoErrorFlowsDown' /\ Pipe!HandoffsArrive'
  BY <1>1, <1>4 DEF PipeIInv, Pipe!NoErrorFlowsDown, Pipe!HandoffsArrive
<1>9. QED
  BY <1>4, <1>5, <1>6, <1>7, <1>8 DEF PipeIInv

(* The time limit cancels the tasks, and those that had begun are over. *)
LEMMA TimeOutIInv ==
    ASSUME Pipe!PipelineAssumption, PipeIInv, Pipe!TimeOut
    PROVE  PipeIInv'
<1>1. /\ Pipe!TypeOK /\ phase = "stages" /\ phase' = "closing" /\ timedOut' = TRUE
      /\ over' = over \union {r \in Pipe!Busy : roleAt[r] \in {"running", "noting", "failing"}}
      /\ roleAt' = [r \in Pipe!Roles |-> "out"]
      /\ UNCHANGED <<plan, result, listed, subscribed, inbox, heard, hooks, session, verdict,
                     fallenBack, faults, published, words, judged>>
  BY DEF PipeIInv, Pipe!TimeOut, Pipe!said
<1>2. plan.roles \subseteq Pipe!Roles /\ over \subseteq plan.roles
  BY <1>1, PlanIs DEF Pipe!TypeOK
<1>3. verdict = None /\ None # "approved"
  BY <1>1 DEF PipeIInv, ClosedLate, Pipe!PipelineAssumption
<1>4. Pipe!TypeOK'
  <2>1. over' \subseteq plan'.roles
    BY <1>1, <1>2 DEF Pipe!Busy
  <2>2. roleAt' \in [Pipe!Roles -> {"out"}]
    BY <1>1
  <2>3. QED
    BY <1>1, <2>1, <2>2 DEF Pipe!TypeOK
<1>5. Pipe!Began' = Pipe!Began /\ over \subseteq over'
  <2>1. \A r \in Pipe!Roles : r \in over' <=> r \in Pipe!Began
    BY <1>1, <1>2 DEF Pipe!Began, Pipe!Busy, PipeIInv, OutsidersRest
  <2>2. QED
    BY <1>1, <2>1 DEF Pipe!Began
<1>6. NothingYet' /\ OutsidersRest' /\ AllSubscribed' /\ TasksEnd' /\ RaisedForCause'
  BY <1>1 DEF PipeIInv, NothingYet, OutsidersRest, AllSubscribed, TasksEnd, RaisedForCause
<1>7. ResultsFit' /\ QueuesAreFilled'
  BY <1>1, <1>5 DEF PipeIInv, ResultsFit, QueuesAreFilled
<1>8. ClosedLate' /\ FallenForCause'
      /\ Pipe!ApprovalHasGrounds'
  BY <1>1, <1>3 DEF PipeIInv, ClosedLate, FallenForCause, Pipe!ApprovalHasGrounds
<1>9. Pipe!NoErrorFlowsDown' /\ Pipe!HandoffsArrive'
  BY <1>1, <1>5 DEF PipeIInv, Pipe!NoErrorFlowsDown, Pipe!HandoffsArrive
<1>10. QED
  BY <1>4, <1>6, <1>7, <1>8, <1>9 DEF PipeIInv

(* A verdict that approves is one the pipeline has come to with all its    *)
(* roles: none of them is at work, and the engineer has completed.          *)
LEMMA VerdictIsEarned ==
    ASSUME Pipe!PipelineAssumption, QaIsLast, PipeIInv, Pipe!Verdict = "approved",
           phase \in {"closing", "raising"}
    PROVE  /\ \A r \in Pipe!Roles : roleAt[r] = "out"
           /\ ~timedOut /\ "approval" \in words /\ "refusal" \notin words
           /\ "engineer" \in plan.roles => Pipe!EngineerOk
<1>1. ~timedOut /\ "approval" \in words /\ "refusal" \notin words /\ words # {}
  BY DEF Pipe!Verdict
<1>2. ASSUME NEW r \in Pipe!Roles PROVE roleAt[r] = "out"
  <2>1. CASE phase = "closing"
    BY <2>1 DEF PipeIInv, TasksEnd, Late
  <2>2. CASE phase = "raising"
    <3>1. PICK q \in plan.roles : roleAt[q] = "out" /\ result[q] \in {"error", "skipped"}
      BY <2>2 DEF PipeIInv, RaisedForCause
    <3>2. q = "qa"
      BY <1>1, <3>1, AllHaveWorked
    <3>3. CASE r \in plan.roles /\ r # "qa"
      BY <1>1, <3>3, AllHaveWorked DEF PipeIInv, ResultsFit
    <3>4. CASE r \notin plan.roles
      BY <3>4 DEF PipeIInv, OutsidersRest
    <3>5. QED
      BY <3>1, <3>2, <3>3, <3>4
  <2>3. QED
    BY <2>1, <2>2
<1>3. "engineer" \in plan.roles => Pipe!EngineerOk
  <2>1. SUFFICES ASSUME "engineer" \in plan.roles
                 PROVE  listed["engineer"] = "completed"
    BY DEF Pipe!EngineerOk
  <2>2. "engineer" \in over /\ result["engineer"] \in {"artefact", "report"}
    BY <1>1, <2>1, AllHaveWorked
  <2>3. QED
    BY <1>1, <2>2, RolesAre DEF PipeIInv, ResultsFit
<1>4. QED
  BY <1>1, <1>2, <1>3

LEMMA CloseIInv ==
    ASSUME Pipe!PipelineAssumption, QaIsLast, PipeIInv, Pipe!Close
    PROVE  PipeIInv'
<1>1. /\ Pipe!TypeOK /\ phase \in {"closing", "raising"}
      /\ verdict' = Pipe!Verdict
      /\ session' = IF timedOut THEN "timeout" ELSE "finished"
      /\ phase' = IF phase = "raising" THEN "raised"
                  ELSE IF "engineer" \in plan.roles /\ ~Pipe!EngineerOk THEN "fallback"
                  ELSE "hooks"
      /\ UNCHANGED <<plan, roleAt, result, over, listed, subscribed, inbox, heard, published,
                     words, judged, hooks, timedOut, fallenBack, faults>>
  BY DEF PipeIInv, Pipe!Close, Pipe!stageVars, Pipe!said
<1>2. Pipe!Verdict \in {"timeout", "approved", "rework", "error", "unknown"}
  BY DEF Pipe!Verdict
<1>3. phase' \in {"raised", "fallback", "hooks"} /\ (phase' \in Late <=> phase = "closing")
  BY <1>1 DEF Late
<1>4. session' \in {"timeout", "finished"}
  BY <1>1
<1>5. Pipe!TypeOK' /\ Pipe!Began' = Pipe!Began
  BY <1>1, <1>2, <1>3, <1>4 DEF Pipe!TypeOK, Pipe!Began
<1>6. NothingYet' /\ OutsidersRest' /\ AllSubscribed' /\ TasksEnd' /\ RaisedForCause'
  BY <1>1, <1>3 DEF PipeIInv, NothingYet, OutsidersRest, AllSubscribed, TasksEnd, RaisedForCause,
                    Late
<1>7. ResultsFit' /\ QueuesAreFilled'
  BY <1>1, <1>5 DEF PipeIInv, ResultsFit, QueuesAreFilled
<1>8. ClosedLate' /\ FallenForCause'
  <2>1. ~fallenBack
    BY <1>1 DEF PipeIInv, FallenForCause
  <2>2. ClosedLate'
    BY <1>1, <1>3, <1>4, VerdictIsEarned DEF ClosedLate
  <2>3. FallenForCause'
    BY <1>1, <1>3, <2>1 DEF FallenForCause, Pipe!EngineerOk
  <2>4. QED
    BY <2>2, <2>3
<1>9. Pipe!ApprovalHasGrounds'
  <2>1. ~fallenBack'
    BY <1>1 DEF PipeIInv, FallenForCause
  <2>2. QED
    BY <1>1, <2>1, VerdictIsEarned DEF Pipe!ApprovalHasGrounds, Pipe!EngineerOk
<1>10. Pipe!NoErrorFlowsDown' /\ Pipe!HandoffsArrive'
  BY <1>1, <1>5 DEF PipeIInv, Pipe!NoErrorFlowsDown, Pipe!HandoffsArrive
<1>11. QED
  BY <1>5, <1>6, <1>7, <1>8, <1>9, <1>10 DEF PipeIInv

(* The fallback, the end of a hook, and the wait for the hooks. *)
LEMMA AfterwardsIInv ==
    ASSUME Pipe!PipelineAssumption, PipeIInv, Pipe!Fallback \/ Pipe!HookEnds \/ Pipe!AwaitHooks
    PROVE  PipeIInv'
<1>1. /\ UNCHANGED <<plan, roleAt, result, over, listed, subscribed, inbox, heard, published,
                     words, judged, timedOut, session, faults>>
      /\ \/ /\ \/ phase' = phase
               \/ phase \in {"fallback", "hooks"} /\ phase' \in {"hooks", "returned"}
            /\ phase' = "fallback" => phase = "fallback"
            /\ fallenBack => phase' = phase
            /\ UNCHANGED <<verdict, fallenBack>>
         \/ /\ phase = "fallback" /\ phase' = "returned"
            /\ verdict' = "approved" /\ fallenBack' = TRUE
  BY DEF Pipe!Fallback, Pipe!HookEnds, Pipe!AwaitHooks, Pipe!resultVars, Pipe!said, PipeIInv,
         FallenForCause
<1>2. /\ hooks' \in Nat /\ Pipe!TypeOK
      /\ verdict' \in {verdict, "approved"} /\ fallenBack' \in {fallenBack, TRUE}
  <2>1. Pipe!TypeOK /\ hooks \in Nat
    BY DEF PipeIInv, Pipe!TypeOK
  <2>2. hooks' \in Nat
    BY <2>1 DEF Pipe!Fallback, Pipe!HookEnds, Pipe!AwaitHooks, Pipe!Hook
  <2>3. QED
    BY <1>1, <2>1, <2>2
<1>3. Pipe!TypeOK' /\ Pipe!Began' = Pipe!Began
  <2>1. fallenBack' \in BOOLEAN
    BY <1>2 DEF Pipe!TypeOK
  <2>2. QED
    BY <1>1, <1>2, <2>1 DEF Pipe!TypeOK, Pipe!Began
<1>4. NothingYet' /\ OutsidersRest' /\ AllSubscribed' /\ TasksEnd' /\ RaisedForCause'
  BY <1>1 DEF PipeIInv, NothingYet, OutsidersRest, AllSubscribed, TasksEnd, RaisedForCause, Late
<1>5. ResultsFit' /\ QueuesAreFilled'
  BY <1>1, <1>3 DEF PipeIInv, ResultsFit, QueuesAreFilled
<1>6. ClosedLate' /\ FallenForCause'
      /\ Pipe!ApprovalHasGrounds'
  BY <1>1 DEF PipeIInv, ClosedLate, FallenForCause, TasksEnd, Pipe!ApprovalHasGrounds,
              Pipe!EngineerOk, Late
<1>7. Pipe!NoErrorFlowsDown' /\ Pipe!HandoffsArrive'
  BY <1>1, <1>3 DEF PipeIInv, Pipe!NoErrorFlowsDown, Pipe!HandoffsArrive
<1>8. QED
  BY <1>3, <1>4, <1>5, <1>6, <1>7 DEF PipeIInv

LEMMA PipeNextIInv ==
    ASSUME Pipe!PipelineAssumption, QaIsLast, PipeIInv, [Pipe!Next]_(Pipe!vars)
    PROVE  PipeIInv'
<1>1. CASE UNCHANGED Pipe!vars
  <2>1. UNCHANGED <<plan, phase, roleAt, result, over, listed, subscribed, inbox, heard, published,
                    words, judged, hooks, timedOut, session, verdict, fallenBack, faults>>
    BY <1>1 DEF Pipe!vars
  <2>2. /\ Pipe!TypeOK' /\ NothingYet' /\ OutsidersRest' /\ AllSubscribed' /\ TasksEnd'
        /\ ResultsFit' /\ QueuesAreFilled'
    BY <2>1 DEF PipeIInv, Pipe!TypeOK, NothingYet, OutsidersRest, AllSubscribed, TasksEnd,
                ResultsFit, QueuesAreFilled, Pipe!Began
  <2>3. /\ RaisedForCause' /\ ClosedLate' /\ FallenForCause'
        /\ Pipe!NoErrorFlowsDown' /\ Pipe!HandoffsArrive' /\ Pipe!ApprovalHasGrounds'
    BY <2>1 DEF PipeIInv, RaisedForCause, ClosedLate, FallenForCause, Pipe!NoErrorFlowsDown, Pipe!HandoffsArrive,
                Pipe!ApprovalHasGrounds, Pipe!EngineerOk, Pipe!Began
  <2>4. QED
    BY <2>2, <2>3 DEF PipeIInv
<1>2. CASE Pipe!Refuse \/ Pipe!Launch \/ Pipe!Gathered \/ Pipe!TimeOut \/ Pipe!Close
  BY <1>2, RefuseIInv, LaunchIInv, GatheredIInv, TimeOutIInv, CloseIInv
<1>3. CASE Pipe!Fallback \/ Pipe!HookEnds \/ Pipe!AwaitHooks
  BY <1>3, AfterwardsIInv
<1>4. CASE \E r \in Pipe!Roles : Pipe!Task(r)
  BY <1>4, SkipIInv, RoleStarts, RoleReturns, RoleFails, RoleEnds, RoleWasSkipped, RoleRaises
  DEF Pipe!Task
<1>5. QED
  BY <1>1, <1>2, <1>3, <1>4 DEF Pipe!Next

LEMMA PipeSafe ==
    ASSUME PipeIInv
    PROVE  /\ Pipe!TypeOK /\ Pipe!NoErrorFlowsDown /\ Pipe!HandoffsArrive
           /\ Pipe!ApprovalHasGrounds /\ Pipe!SessionIsClosed
BY DEF PipeIInv, ClosedLate, Pipe!SessionIsClosed, Pipe!Ended

(***************************************************************************)
(* In a pipeline whose last role is qa no exception flows down as if it     *)
(* were output, what a role publishes has arrived when its successor starts, *)
(* and the session is closed however the pipeline ends.  A result that is   *)
(* said to be approved is the pipeline's, whose last role has said so after *)
(* the engineer had completed, or the single agent's, which was asked only  *)
(* because the engineer had not.                                            *)
(***************************************************************************)
THEOREM ThePipelineIsSound == HostSpec => PipelineIsSound
<1>1. HostInit => PipeIInv
  BY HostAssumption, PipeInitIInv DEF HostInit
<1>2. PipeIInv /\ [HostNext]_hostVars => PipeIInv'
  BY HostAssumption, HostSteps, PipeNextIInv
<1>3. PipeIInv => Pipe!TypeOK /\ Pipe!NoErrorFlowsDown /\ Pipe!HandoffsArrive
  BY PipeSafe
<1>4. PipeIInv => Pipe!ApprovalHasGrounds /\ Pipe!SessionIsClosed
  BY PipeSafe
<1>5. QED
  BY <1>1, <1>2, <1>3, <1>4, PTL DEF HostSpec, PipelineIsSound

-----------------------------------------------------------------------------
(* The window of the limiter. *)

Ages == 0..Window

Falling(ages) == \A i, j \in 1..Len(ages) : i <= j => ages[j] <= ages[i]

(* Where the old part of a window ends. *)
CutAt(ages, n) ==
    /\ n \in 0..Len(ages)
    /\ \A i \in 1..n : ages[i] >= Window
    /\ n < Len(ages) => ages[n + 1] < Window

LEMMA CutExists ==
    ASSUME Window \in Nat, NEW s \in Seq(Ages)
    PROVE  \E n \in 0..Len(s) : CutAt(s, n)
<1> DEFINE S == {n \in 0..Len(s) : n < Len(s) => s[n + 1] < Window}
<1>1. Len(s) \in Nat /\ \A i \in 1..Len(s) : s[i] \in Ages
  OBVIOUS
<1>2. S \subseteq Nat /\ Len(s) \in S
  BY <1>1
<1>3. PICK n \in S : \A k \in S : ~(<<k, n>> \in OpToRel(<, Nat))
  <2> HIDE DEF S
  <2>1. QED
    BY <1>2, NatLessThanWellFounded, WFMin, ZenonT(30)
<1>4. \A k \in S : ~(k < n)
  BY <1>2, <1>3 DEF OpToRel
<1>5. ASSUME NEW i \in 1..n PROVE s[i] >= Window
  <2>1. i - 1 \in 0..Len(s) /\ i - 1 < n /\ n \in 0..Len(s) /\ i \in 1..Len(s)
    BY <1>1
  <2>2. i - 1 \notin S
    BY <1>4, <2>1
  <2>3. ~(s[(i - 1) + 1] < Window)
    BY <2>1, <2>2
  <2>4. s[i] \in Ages /\ (i - 1) + 1 = i
    BY <1>1, <2>1
  <2>5. QED
    BY <2>3, <2>4 DEF Ages
<1>6. QED
  BY <1>5 DEF CutAt

LEMMA CutIsUnique ==
    ASSUME Window \in Nat, NEW s \in Seq(Ages), NEW m, NEW n, CutAt(s, m), CutAt(s, n)
    PROVE  m = n
<1>1. ASSUME NEW a \in 0..Len(s), NEW b \in 0..Len(s), CutAt(s, a), CutAt(s, b), a < b PROVE FALSE
  <2>1. a + 1 \in 1..b /\ a < Len(s) /\ s[a + 1] \in Ages
    BY <1>1
  <2>2. s[a + 1] >= Window /\ s[a + 1] < Window
    BY <1>1, <2>1 DEF CutAt
  <2>3. QED
    BY <2>1, <2>2 DEF Ages
<1>2. m \in 0..Len(s) /\ n \in 0..Len(s)
  BY DEF CutAt
<1>3. ~(m < n) /\ ~(n < m)
  BY <1>1, <1>2
<1>4. QED
  BY <1>2, <1>3

LEMMA EvictIs ==
    ASSUME Window \in Nat, NEW s \in Seq(Ages), NEW n, CutAt(s, n)
    PROVE  Limit!Evict(s) = SubSeq(s, n + 1, Len(s))
<1> DEFINE Cut(k) == (\A i \in 1..k : s[i] >= Window) /\ (k < Len(s) => s[k + 1] < Window)
           m == CHOOSE k \in 0..Len(s) : Cut(k)
<1>1. n \in 0..Len(s) /\ Cut(n)
  BY DEF CutAt
<1>2. m \in 0..Len(s) /\ Cut(m)
  <2> HIDE DEF Cut
  <2>1. QED
    BY <1>1
<1>3. m = n
  <2>1. CutAt(s, m)
    BY <1>2 DEF CutAt
  <2>2. QED
    BY <2>1, CutIsUnique
<1>4. Limit!Evict(s) = SubSeq(s, m + 1, Len(s))
  BY DEF Limit!Evict
<1>5. QED
  BY <1>3, <1>4

LEMMA RestIs ==
    ASSUME NEW A, NEW s \in Seq(A), NEW n \in 0..Len(s)
    PROVE  /\ SubSeq(s, n + 1, Len(s)) \in Seq(A)
           /\ Len(SubSeq(s, n + 1, Len(s))) = Len(s) - n /\ Len(s) \in Nat
           /\ \A i \in 1..Len(s) - n : SubSeq(s, n + 1, Len(s))[i] = s[i + n]
<1>1. Len(s) \in Nat /\ \A i \in n + 1..Len(s) : s[i] \in A
  OBVIOUS
<1>2. SubSeq(s, n + 1, Len(s)) \in Seq(A) /\ Len(SubSeq(s, n + 1, Len(s))) = Len(s) - n
  BY <1>1
<1>3. \A i \in 1..Len(s) - n : SubSeq(s, n + 1, Len(s))[i] = s[i + n]
  BY <1>1, <1>2
<1>4. QED
  BY <1>1, <1>2, <1>3

(* What is left of a window, and how much. *)
LEMMA EvictKeeps ==
    ASSUME Window \in Nat \ {0}, NEW s \in Seq(Ages), Falling(s)
    PROVE  /\ Limit!Evict(s) \in Seq(0..Window - 1) /\ Limit!Evict(s) \in Seq(Ages)
           /\ Falling(Limit!Evict(s))
           /\ Len(Limit!Evict(s)) <= Len(s)
           /\ Len(s) > 0 /\ s[1] < Window => Limit!Evict(s) = s
           /\ Len(s) > 0 /\ s[1] >= Window => Len(Limit!Evict(s)) < Len(s)
<1> DEFINE e == Limit!Evict(s)
<1>1. PICK n \in 0..Len(s) : CutAt(s, n)
  BY CutExists
<1>2. e = SubSeq(s, n + 1, Len(s))
  BY <1>1, EvictIs
<1>3. /\ e \in Seq(Ages) /\ Len(e) = Len(s) - n /\ Len(s) \in Nat
      /\ \A i \in 1..Len(s) - n : e[i] = s[i + n]
  BY <1>2, RestIs
<1>4. \A i \in 1..Len(s) : s[i] \in Ages
  OBVIOUS
<1> HIDE DEF e
<1>5. Falling(e)
  <2>1. SUFFICES ASSUME NEW i \in 1..Len(e), NEW j \in 1..Len(e), i <= j
                 PROVE  e[j] <= e[i]
    BY DEF Falling
  <2>2. i + n \in 1..Len(s) /\ j + n \in 1..Len(s) /\ i + n <= j + n
    BY <1>3, <2>1
  <2>3. e[i] = s[i + n] /\ e[j] = s[j + n]
    BY <1>3, <2>1
  <2>4. QED
    BY <2>2, <2>3 DEF Falling
<1>6. \A i \in 1..Len(e) : e[i] \in 0..Window - 1
  <2>1. SUFFICES ASSUME NEW i \in 1..Len(e)
                 PROVE  e[i] \in 0..Window - 1
    OBVIOUS
  <2>2. n < Len(s) /\ i + n \in 1..Len(s) /\ n + 1 \in 1..Len(s) /\ n + 1 <= i + n
    BY <1>3, <2>1
  <2>3. s[n + 1] < Window /\ s[i + n] <= s[n + 1] /\ s[i + n] \in Ages /\ s[n + 1] \in Ages
    BY <1>1, <1>4, <2>2 DEF CutAt, Falling
  <2>4. e[i] = s[i + n]
    BY <1>3, <2>1
  <2>5. QED
    BY <2>3, <2>4 DEF Ages
<1>7. e \in Seq(0..Window - 1)
  BY <1>3, <1>6
<1>8. ASSUME Len(s) > 0, s[1] < Window PROVE e = s
  <2>1. 1 \in 1..Len(s) /\ s[1] \in Ages
    BY <1>3, <1>4, <1>8
  <2>2. CutAt(s, 0)
    BY <1>3, <1>8, <2>1 DEF CutAt
  <2>3. n = 0
    BY <1>1, <2>2, CutIsUnique
  <2>4. QED
    BY <1>2, <1>3, <2>3
<1>9. ASSUME Len(s) > 0, s[1] >= Window PROVE Len(e) < Len(s)
  <2>1. s[1] \in Ages
    BY <1>3, <1>4, <1>9
  <2>2. n # 0
    BY <1>1, <1>9, <2>1 DEF CutAt, Ages
  <2>3. QED
    BY <1>3, <2>2
<1>10. QED
  BY <1>3, <1>5, <1>7, <1>8, <1>9 DEF e

LEMMA EvictAgain ==
    ASSUME Window \in Nat \ {0}, NEW s \in Seq(Ages), Falling(s)
    PROVE  Limit!Evict(Limit!Evict(s)) = Limit!Evict(s)
<1> DEFINE e == Limit!Evict(s)
<1>1. e \in Seq(Ages) /\ e \in Seq(0..Window - 1) /\ Falling(e)
  BY EvictKeeps
<1> HIDE DEF e
<1>2. Len(e) \in Nat
  BY <1>1
<1>3. CASE Len(e) > 0
  <2>1. e[1] < Window
    BY <1>1, <1>3
  <2>2. QED
    BY <1>1, <1>3, <2>1, EvictKeeps DEF e
<1>4. CASE Len(e) = 0
  <2>1. e = <<>>
    BY <1>1, <1>4
  <2>2. CutAt(e, 0)
    BY <1>4 DEF CutAt
  <2>3. Limit!Evict(e) = SubSeq(e, 0 + 1, Len(e))
    BY <1>1, <2>2, EvictIs
  <2>4. QED
    BY <1>4, <2>1, <2>3 DEF e
<1>5. QED
  BY <1>2, <1>3, <1>4

LEMMA EvictAppends ==
    ASSUME Window \in Nat \ {0}, NEW s \in Seq(Ages), Falling(s)
    PROVE  /\ Append(s, 0) \in Seq(Ages) /\ Falling(Append(s, 0))
           /\ Limit!Evict(Append(s, 0)) = Append(Limit!Evict(s), 0)
<1> DEFINE t == Append(s, 0)
           e == Limit!Evict(s)
<1>1. PICK n \in 0..Len(s) : CutAt(s, n)
  BY CutExists
<1>2. e = SubSeq(s, n + 1, Len(s))
  BY <1>1, EvictIs
<1>3. /\ e \in Seq(Ages) /\ Len(e) = Len(s) - n /\ Len(s) \in Nat
      /\ \A i \in 1..Len(s) - n : e[i] = s[i + n]
  BY <1>2, RestIs
<1>4. 0 \in Ages /\ \A i \in 1..Len(s) : s[i] \in Ages
  BY DEF Ages
<1>5. t \in Seq(Ages)
  BY <1>4
<1>6. /\ Len(t) = Len(s) + 1
      /\ \A i \in 1..Len(s) : t[i] = s[i]
      /\ t[Len(s) + 1] = 0
  BY <1>4
<1> HIDE DEF t, e
<1>7. Falling(t)
  <2>1. SUFFICES ASSUME NEW i \in 1..Len(t), NEW j \in 1..Len(t), i <= j
                 PROVE  t[j] <= t[i]
    BY DEF Falling
  <2>2. CASE j <= Len(s)
    BY <1>3, <1>6, <2>1, <2>2 DEF Falling
  <2>3. CASE j = Len(s) + 1
    <3>1. t[j] = 0 /\ t[i] \in Ages
      BY <1>5, <1>6, <2>1, <2>3
    <3>2. QED
      BY <3>1 DEF Ages
  <2>4. QED
    BY <1>3, <1>6, <2>2, <2>3
<1>8. CutAt(t, n)
  <2>1. n \in 0..Len(t) /\ \A i \in 1..n : t[i] >= Window
    BY <1>1, <1>3, <1>6 DEF CutAt
  <2>2. CASE n < Len(s)
    <3>1. n + 1 \in 1..Len(s) /\ t[n + 1] = s[n + 1] /\ s[n + 1] < Window
      BY <1>1, <1>3, <1>6, <2>2 DEF CutAt
    <3>2. QED
      BY <2>1, <3>1 DEF CutAt
  <2>3. CASE n = Len(s)
    <3>1. t[n + 1] = 0
      BY <1>6, <2>3
    <3>2. QED
      BY <2>1, <3>1 DEF CutAt
  <2>4. QED
    BY <1>3, <2>2, <2>3
<1>9. Limit!Evict(t) = SubSeq(t, n + 1, Len(t))
  BY <1>5, <1>8, EvictIs
<1>10. SubSeq(t, n + 1, Len(t)) = Append(e, 0)
  <2> DEFINE u == SubSeq(t, n + 1, Len(t))
             v == Append(e, 0)
  <2>1. n \in 0..Len(t)
    BY <1>8 DEF CutAt
  <2>2. u \in Seq(Ages) /\ Len(u) = Len(t) - n /\ \A i \in 1..Len(t) - n : u[i] = t[i + n]
    BY <1>5, <2>1, RestIs
  <2>3. v \in Seq(Ages) /\ Len(v) = Len(e) + 1 /\ v[Len(e) + 1] = 0
        /\ \A i \in 1..Len(e) : v[i] = e[i]
    BY <1>3, <1>4
  <2> HIDE DEF u, v
  <2>4. Len(u) = Len(v)
    BY <1>3, <1>6, <2>2, <2>3
  <2>5. ASSUME NEW i \in 1..Len(u) PROVE u[i] = v[i]
    <3>1. CASE i <= Len(e)
      <4>1. i + n \in 1..Len(s) /\ i \in 1..Len(s) - n /\ i \in 1..Len(t) - n
        BY <1>3, <1>6, <3>1
      <4>2. u[i] = t[i + n] /\ t[i + n] = s[i + n] /\ v[i] = e[i] /\ e[i] = s[i + n]
        BY <1>3, <1>6, <2>2, <2>3, <3>1, <4>1
      <4>3. QED
        BY <4>2
    <3>2. CASE i = Len(e) + 1
      <4>1. i + n = Len(s) + 1 /\ i \in 1..Len(t) - n
        BY <1>3, <1>6, <3>2
      <4>2. u[i] = 0
        BY <1>6, <2>2, <4>1
      <4>3. QED
        BY <2>3, <3>2, <4>2
    <3>3. i <= Len(e) \/ i = Len(e) + 1
      BY <1>3, <2>3, <2>4
    <3>4. QED
      BY <3>1, <3>2, <3>3
  <2>6. u = v
    BY <2>2, <2>3, <2>4, <2>5
  <2>7. QED
    BY <2>6 DEF u, v
<1>11. QED
  BY <1>5, <1>7, <1>9, <1>10 DEF t, e

LEMMA OlderIs ==
    ASSUME Window \in Nat \ {0}, NEW s \in Seq(Ages)
    PROVE  /\ Limit!Older(s) \in Seq(Ages) /\ Len(Limit!Older(s)) = Len(s) /\ Len(s) \in Nat
           /\ \A i \in 1..Len(s) :
                 Limit!Older(s)[i] = IF s[i] < Window THEN s[i] + 1 ELSE Window
           /\ Falling(s) => Falling(Limit!Older(s))
<1> DEFINE o == Limit!Older(s)
<1>1. Len(s) \in Nat /\ DOMAIN s = 1..Len(s) /\ \A i \in 1..Len(s) : s[i] \in Ages
  OBVIOUS
<1>2. o = [i \in 1..Len(s) |-> Limit!Smaller(s[i] + 1, Window)]
  BY <1>1 DEF Limit!Older
<1>3. \A i \in 1..Len(s) :
         /\ Limit!Smaller(s[i] + 1, Window) \in Ages
         /\ Limit!Smaller(s[i] + 1, Window) = IF s[i] < Window THEN s[i] + 1 ELSE Window
  BY <1>1 DEF Limit!Smaller, Ages
<1>4. o \in Seq(Ages) /\ Len(o) = Len(s)
  BY <1>1, <1>2, <1>3
<1>5. \A i \in 1..Len(s) : o[i] = IF s[i] < Window THEN s[i] + 1 ELSE Window
  BY <1>2, <1>3
<1> HIDE DEF o
<1>6. Falling(s) => Falling(o)
  <2>1. SUFFICES ASSUME Falling(s), NEW i \in 1..Len(o), NEW j \in 1..Len(o), i <= j
                 PROVE  o[j] <= o[i]
    BY DEF Falling
  <2>2. s[j] <= s[i] /\ s[i] \in Ages /\ s[j] \in Ages
    BY <1>1, <1>4, <2>1 DEF Falling
  <2>3. QED
    BY <1>4, <1>5, <2>1, <2>2 DEF Ages
<1>7. QED
  BY <1>1, <1>4, <1>5, <1>6 DEF o

(* What is evicted stays old. *)
LEMMA EvictOlder ==
    ASSUME Window \in Nat \ {0}, NEW s \in Seq(Ages)
    PROVE  Limit!Evict(Limit!Older(Limit!Evict(s))) = Limit!Evict(Limit!Older(s))
<1> DEFINE e == Limit!Evict(s)
           o == Limit!Older(s)
           p == Limit!Older(e)
<1>1. PICK n \in 0..Len(s) : CutAt(s, n)
  BY CutExists
<1>2. e = SubSeq(s, n + 1, Len(s))
  BY <1>1, EvictIs
<1>3. /\ e \in Seq(Ages) /\ Len(e) = Len(s) - n /\ Len(s) \in Nat
      /\ \A i \in 1..Len(s) - n : e[i] = s[i + n]
  BY <1>2, RestIs
<1>4. /\ o \in Seq(Ages) /\ Len(o) = Len(s)
      /\ \A i \in 1..Len(s) : o[i] = IF s[i] < Window THEN s[i] + 1 ELSE Window
  BY OlderIs
<1> HIDE DEF e
<1>5. /\ p \in Seq(Ages) /\ Len(p) = Len(e)
      /\ \A i \in 1..Len(e) : p[i] = IF e[i] < Window THEN e[i] + 1 ELSE Window
  BY <1>3, OlderIs
<1> HIDE DEF o, p
<1>6. \A i \in 1..Len(s) - n : i + n \in 1..Len(s) /\ p[i] = o[i + n]
  <2>1. SUFFICES ASSUME NEW i \in 1..Len(s) - n
                 PROVE  i + n \in 1..Len(s) /\ p[i] = o[i + n]
    OBVIOUS
  <2>2. i + n \in 1..Len(s) /\ i \in 1..Len(e)
    BY <1>3
  <2>3. QED
    BY <1>3, <1>4, <1>5, <2>2
<1>7. PICK m \in 0..Len(p) : CutAt(p, m)
  BY <1>5, CutExists
<1>8. CutAt(o, n + m)
  <2>1. n + m \in 0..Len(o)
    BY <1>3, <1>4, <1>5
  <2>2. ASSUME NEW i \in 1..n + m PROVE o[i] >= Window
    <3>1. CASE i <= n
      <4>1. i \in 1..n /\ i \in 1..Len(s) /\ s[i] \in Ages
        BY <1>3, <3>1
      <4>2. s[i] >= Window
        BY <1>1, <4>1 DEF CutAt
      <4>3. o[i] = Window
        BY <1>4, <4>1, <4>2 DEF Ages
      <4>4. QED
        BY <4>3
    <3>2. CASE i > n
      <4>1. i - n \in 1..m /\ i - n \in 1..Len(s) - n /\ (i - n) + n = i
        BY <1>3, <1>5, <3>2
      <4>2. p[i - n] >= Window
        BY <1>7, <4>1 DEF CutAt
      <4>3. QED
        BY <1>6, <4>1, <4>2
    <3>3. QED
      BY <3>1, <3>2
  <2>3. ASSUME n + m < Len(o) PROVE o[(n + m) + 1] < Window
    <3>1. m < Len(p) /\ m + 1 \in 1..Len(s) - n /\ (m + 1) + n = (n + m) + 1
      BY <1>3, <1>4, <1>5, <2>3
    <3>2. p[m + 1] < Window
      BY <1>7, <3>1 DEF CutAt
    <3>3. p[m + 1] = o[(n + m) + 1]
      BY <1>6, <3>1
    <3>4. QED
      BY <3>2, <3>3
  <2>4. QED
    BY <2>1, <2>2, <2>3 DEF CutAt
<1>9. Limit!Evict(p) = SubSeq(p, m + 1, Len(p)) /\ Limit!Evict(o) = SubSeq(o, (n + m) + 1, Len(o))
  BY <1>4, <1>5, <1>7, <1>8, EvictIs
<1> DEFINE u == SubSeq(p, m + 1, Len(p))
           v == SubSeq(o, (n + m) + 1, Len(o))
<1>10. n + m \in 0..Len(o)
  BY <1>3, <1>4, <1>5
<1>11. u \in Seq(Ages) /\ Len(u) = Len(p) - m /\ \A i \in 1..Len(p) - m : u[i] = p[i + m]
  BY <1>5, RestIs
<1>12. v \in Seq(Ages) /\ Len(v) = Len(o) - (n + m) /\ \A i \in 1..Len(o) - (n + m) : v[i] = o[i + (n + m)]
  BY <1>4, <1>10, RestIs
<1> HIDE DEF u, v
<1>13. Len(u) = Len(v)
  BY <1>3, <1>4, <1>5, <1>11, <1>12
<1>14. ASSUME NEW i \in 1..Len(u) PROVE u[i] = v[i]
  <2>1. i \in 1..Len(p) - m /\ i \in 1..Len(o) - (n + m) /\ i + m \in 1..Len(s) - n
        /\ (i + m) + n = i + (n + m)
    BY <1>3, <1>4, <1>5, <1>11
  <2>2. u[i] = p[i + m] /\ p[i + m] = o[(i + m) + n] /\ v[i] = o[i + (n + m)]
    BY <1>6, <1>11, <1>12, <2>1
  <2>3. QED
    BY <2>1, <2>2
<1>15. u = v
  <2>1. u \in Seq(Ages) /\ v \in Seq(Ages)
    BY <1>11, <1>12
  <2>2. QED
    BY <1>13, <1>14, <2>1
<1>16. QED
  BY <1>9, <1>15 DEF u, v, e, o, p

-----------------------------------------------------------------------------
(* The blocks, which double with every level of pressure. *)

BlockFrom(block, n) ==
    \A p \in 1..n : block[p] = IF p = 1 THEN BaseBlock ELSE 2 * block[p - 1]

LEMMA BlocksAreThere ==
    ASSUME BaseBlock \in Nat, MaxPressure \in Nat \ {0}
    PROVE  \E block \in [1..MaxPressure -> Nat] : BlockFrom(block, MaxPressure)
<1> DEFINE S == {n \in 1..MaxPressure : ~\E block \in [1..n -> Nat] : BlockFrom(block, n)}
<1>1. MaxPressure \in 1..MaxPressure
  OBVIOUS
<1>2. SUFFICES ASSUME MaxPressure \in S PROVE FALSE
  BY <1>1
<1>3. S \subseteq Nat
  OBVIOUS
<1>4. PICK m \in S : \A k \in S : ~(<<k, m>> \in OpToRel(<, Nat))
  <2> HIDE DEF S
  <2>1. QED
    BY <1>2, <1>3, NatLessThanWellFounded, WFMin, ZenonT(30)
<1>5. \A k \in S : ~(k < m)
  BY <1>3, <1>4 DEF OpToRel
<1>6. m \in 1..MaxPressure /\ ~\E block \in [1..m -> Nat] : BlockFrom(block, m)
  OBVIOUS
<1> HIDE DEF S
<1>7. CASE m = 1
  <2>1. [p \in 1..1 |-> BaseBlock] \in [1..1 -> Nat] /\ BlockFrom([p \in 1..1 |-> BaseBlock], 1)
    BY DEF BlockFrom
  <2>2. QED
    BY <1>6, <1>7, <2>1
<1>8. CASE m > 1
  <2>1. m - 1 \in 1..MaxPressure /\ m - 1 < m /\ m - 1 \in Nat
    BY <1>6, <1>8
  <2>2. m - 1 \notin S
    BY <1>5, <2>1
  <2>3. PICK block \in [1..m - 1 -> Nat] : BlockFrom(block, m - 1)
    BY <2>1, <2>2 DEF S
  <2> DEFINE more == [p \in 1..m |-> IF p = m THEN 2 * block[m - 1] ELSE block[p]]
  <2>4. block[m - 1] \in Nat /\ 2 * block[m - 1] \in Nat
    <3>1. block[m - 1] \in Nat
      BY <2>1
    <3>2. QED
      BY <3>1
  <2>5. more \in [1..m -> Nat]
    <3>1. \A p \in 1..m : p # m => p \in 1..m - 1
      BY <1>6
    <3>2. QED
      BY <2>4, <3>1
  <2>6. BlockFrom(more, m)
    <3>1. SUFFICES ASSUME NEW p \in 1..m
                   PROVE  more[p] = IF p = 1 THEN BaseBlock ELSE 2 * more[p - 1]
      BY DEF BlockFrom
    <3>2. CASE p = m
      <4>1. p # 1 /\ p - 1 \in 1..m /\ p - 1 # m /\ p - 1 = m - 1
        BY <1>6, <1>8, <3>2
      <4>2. QED
        BY <3>2, <4>1
    <3>3. CASE p # m
      <4>1. p \in 1..m - 1 /\ (p # 1 => p - 1 \in 1..m /\ p - 1 # m)
        BY <1>6, <3>3
      <4>2. block[p] = IF p = 1 THEN BaseBlock ELSE 2 * block[p - 1]
        BY <2>3, <4>1 DEF BlockFrom
      <4>3. QED
        BY <3>3, <4>1, <4>2
    <3>4. QED
      BY <3>2, <3>3
  <2> HIDE DEF more
  <2>7. QED
    BY <1>6, <2>5, <2>6
<1>9. QED
  BY <1>6, <1>7, <1>8

LEMMA BlocksAreNumbers ==
    ASSUME BaseBlock \in Nat, MaxPressure \in Nat \ {0}
    PROVE  \A p \in 1..MaxPressure : Limit!Block[p] \in Nat
<1> DEFINE S == {p \in 1..MaxPressure : Limit!Block[p] \notin Nat}
<1>1. PICK block \in [1..MaxPressure -> Nat] : BlockFrom(block, MaxPressure)
  BY BlocksAreThere
<1>2. block = [p \in 1..MaxPressure |-> IF p = 1 THEN BaseBlock ELSE 2 * block[p - 1]]
  BY <1>1 DEF BlockFrom
<1>3. Limit!Block = [p \in 1..MaxPressure |-> IF p = 1 THEN BaseBlock ELSE 2 * Limit!Block[p - 1]]
  BY <1>2 DEF Limit!Block
<1>4. SUFFICES ASSUME S # {} PROVE FALSE
  OBVIOUS
<1>5. S \subseteq Nat
  OBVIOUS
<1>6. PICK m \in S : \A k \in S : ~(<<k, m>> \in OpToRel(<, Nat))
  <2> HIDE DEF S
  <2>1. QED
    BY <1>4, <1>5, NatLessThanWellFounded, WFMin, ZenonT(30)
<1>7. \A k \in S : ~(k < m)
  BY <1>5, <1>6 DEF OpToRel
<1>8. m \in 1..MaxPressure /\ Limit!Block[m] \notin Nat
  OBVIOUS
<1>9. Limit!Block[m] = IF m = 1 THEN BaseBlock ELSE 2 * Limit!Block[m - 1]
  BY <1>3, <1>8
<1>10. CASE m = 1
  BY <1>8, <1>9, <1>10
<1>11. CASE m # 1
  <2>1. m - 1 \in 1..MaxPressure /\ m - 1 < m
    BY <1>8, <1>11
  <2>2. Limit!Block[m - 1] \in Nat
    BY <1>7, <2>1
  <2>3. 2 * Limit!Block[m - 1] \in Nat
    BY <2>2
  <2>4. QED
    BY <1>8, <1>9, <1>11, <2>3
<1>12. QED
  BY <1>10, <1>11

-----------------------------------------------------------------------------
(* The limiter and its caller. *)

(* Who waits has to wait for all pauses. *)
PausesAreKept ==
    senderAt[Caller] = "waiting" => blocked <= left[Caller] /\ penalty <= left[Caller]

(* Until a 429 comes there are no pauses, and the window has what was sent. *)
CalmIsCalm ==
    calm =>
        /\ blocked = 0 /\ penalty = 0 /\ pressure = 0
        /\ recent = Limit!Evict(stamps) /\ Len(recent) <= Rpm

(* Who waits in the calm waits until the oldest request leaves the window. *)
WaitsForRoom ==
    calm /\ senderAt[Caller] = "waiting" =>
        IF left[Caller] > 0 THEN Len(recent) = Rpm /\ recent[1] + left[Caller] = Window
        ELSE Len(recent) < Rpm

LimitIInv ==
    /\ Limit!TypeOK
    /\ Falling(stamps) /\ Falling(recent)
    /\ PausesAreKept /\ CalmIsCalm /\ WaitsForRoom

LEMMA LimitInitIInv ==
    ASSUME Limit!LimiterAssumption, Limit!Init
    PROVE  LimitIInv
<1>1. /\ Window \in Nat \ {0} /\ Rpm \in Nat \ {0} /\ MaxBlock \in Nat /\ MaxPressure \in Nat
      /\ stamps = <<>> /\ recent = <<>> /\ blocked = 0 /\ penalty = 0 /\ pressure = 0 /\ streak = 0
      /\ calm = TRUE /\ senderAt = [c \in {Caller} |-> "idle"] /\ left = [c \in {Caller} |-> 0]
  BY DEF Limit!LimiterAssumption, Limit!Init
<1>2. stamps \in Seq(Ages) /\ recent \in Seq(0..Window - 1) /\ Len(stamps) = 0 /\ Len(recent) = 0
  BY <1>1
<1>3. Limit!TypeOK
  BY <1>1, <1>2 DEF Limit!TypeOK, Ages
<1>4. Falling(stamps) /\ Falling(recent) /\ PausesAreKept /\ WaitsForRoom
  BY <1>1, <1>2 DEF Falling, PausesAreKept, WaitsForRoom
<1>5. Limit!Evict(stamps) = <<>>
  <2>1. CutAt(stamps, 0)
    BY <1>2 DEF CutAt
  <2>2. Limit!Evict(stamps) = SubSeq(stamps, 0 + 1, Len(stamps))
    BY <1>1, <1>2, <2>1, EvictIs
  <2>3. QED
    BY <1>1, <1>2, <2>2
<1>6. CalmIsCalm
  BY <1>1, <1>2, <1>5 DEF CalmIsCalm
<1>7. QED
  BY <1>3, <1>4, <1>6 DEF LimitIInv

(* The types, and what the assumptions say. *)
LEMMA LimitIs ==
    ASSUME Limit!LimiterAssumption, LimitIInv
    PROVE  /\ Window \in Nat \ {0} /\ Rpm \in Nat \ {0} /\ MaxBlock \in Nat
           /\ stamps \in Seq(Ages) /\ recent \in Seq(Ages) /\ recent \in Seq(0..Window - 1)
           /\ Len(recent) \in Nat /\ (Len(recent) > 0 => recent[1] \in 0..Window - 1)
           /\ blocked \in Nat /\ penalty \in Nat /\ penalty <= MaxBlock
           /\ senderAt[Caller] \in {"idle", "waiting", "sent"} /\ left[Caller] \in Nat
<1>1. Window \in Nat \ {0} /\ Rpm \in Nat \ {0} /\ MaxBlock \in Nat
  BY DEF Limit!LimiterAssumption
<1>2. /\ stamps \in Seq(Ages) /\ recent \in Seq(0..Window - 1) /\ blocked \in Nat
      /\ penalty \in 0..MaxBlock
      /\ senderAt \in [{Caller} -> {"idle", "waiting", "sent"}] /\ left \in [{Caller} -> Nat]
  BY DEF LimitIInv, Limit!TypeOK, Ages
<1>3. /\ recent \in Seq(Ages) /\ Len(recent) \in Nat
      /\ Len(recent) > 0 => recent[1] \in 0..Window - 1
  <2> DEFINE young == 0..Window - 1
  <2>0. recent \in Seq(young)
    BY <1>2
  <2> HIDE DEF young
  <2>1. Len(recent) \in Nat /\ \A i \in 1..Len(recent) : recent[i] \in young
    BY <2>0
  <2> USE DEF young
  <2>2. \A i \in 1..Len(recent) : recent[i] \in Ages
    BY <1>1, <2>1 DEF Ages
  <2>3. QED
    BY <1>2, <2>1, <2>2
<1>4. QED
  BY <1>1, <1>2, <1>3

LEMMA WaitIs ==
    ASSUME Limit!LimiterAssumption, LimitIInv
    PROVE  /\ Limit!Wait \in Nat /\ blocked <= Limit!Wait /\ penalty <= Limit!Wait
           /\ calm => Limit!Wait = IF Len(recent) < Rpm THEN 0 ELSE Window - recent[1]
<1> DEFINE e == Limit!Evict(stamps)
<1>1. /\ Window \in Nat \ {0} /\ Rpm \in Nat \ {0} /\ stamps \in Seq(Ages)
      /\ blocked \in Nat /\ penalty \in Nat
      /\ Len(recent) \in Nat /\ (Len(recent) > 0 => recent[1] \in 0..Window - 1)
  BY LimitIs
<1>2. e \in Seq(0..Window - 1)
  BY <1>1, EvictKeeps DEF LimitIInv
<1>3. Limit!Wait = IF Len(e) < Rpm THEN Limit!Larger(blocked, penalty)
                   ELSE Limit!Larger(Limit!Larger(blocked, penalty), Window - Head(e))
  BY DEF Limit!Wait
<1>4. calm => blocked = 0 /\ penalty = 0 /\ recent = e
  BY DEF LimitIInv, CalmIsCalm
<1> HIDE DEF e
<1>5. Len(e) \in Nat /\ (Len(e) >= Rpm => Head(e) = e[1] /\ e[1] \in 0..Window - 1)
  BY <1>1, <1>2
<1> DEFINE block == Limit!Larger(blocked, penalty)
<1>6. block \in Nat /\ blocked <= block /\ penalty <= block /\ (blocked = 0 /\ penalty = 0 => block = 0)
  BY <1>1 DEF Limit!Larger
<1> HIDE DEF block
<1>7. CASE Len(e) < Rpm
  <2>1. Limit!Wait = block
    BY <1>3, <1>7 DEF block
  <2>2. QED
    BY <1>4, <1>6, <1>7, <2>1
<1>8. CASE Len(e) >= Rpm
  <2>1. Limit!Wait = Limit!Larger(block, Window - e[1]) /\ Window - e[1] \in Nat
    BY <1>1, <1>3, <1>5, <1>8 DEF block
  <2>2. QED
    BY <1>1, <1>4, <1>5, <1>6, <1>8, <2>1 DEF Limit!Larger
<1>9. QED
  BY <1>1, <1>5, <1>7, <1>8

(* One request more. *)
LEMMA OneMore ==
    ASSUME Window \in Nat \ {0}, NEW s \in Seq(0..Window - 1), Falling(s)
    PROVE  /\ Append(s, 0) \in Seq(0..Window - 1) /\ Falling(Append(s, 0))
           /\ Len(Append(s, 0)) = Len(s) + 1
<1> DEFINE young == 0..Window - 1
<1>1. s \in Seq(young) /\ 0 \in young /\ young \subseteq Ages
  BY DEF Ages
<1> HIDE DEF young
<1>2. Append(s, 0) \in Seq(young) /\ Len(Append(s, 0)) = Len(s) + 1
  BY <1>1
<1>3. s \in Seq(Ages)
  BY <1>1
<1>4. Falling(Append(s, 0))
  BY <1>3, EvictAppends
<1>5. QED
  BY <1>2, <1>4 DEF young

LEMMA PassIInv ==
    ASSUME Limit!LimiterAssumption, LimitIInv, Limit!Pass(Caller)
    PROVE  LimitIInv'
<1> DEFINE e == Limit!Evict(stamps)
<1>1. /\ Limit!Wait = 0
      /\ stamps' = Append(e, 0) /\ recent' = Append(recent, 0)
      /\ senderAt' = [senderAt EXCEPT ![Caller] = "sent"] /\ left' = [left EXCEPT ![Caller] = 0]
      /\ UNCHANGED <<blocked, penalty, pressure, streak, calm>>
  BY DEF Limit!Pass, Limit!Send
<1>2. /\ Window \in Nat \ {0} /\ stamps \in Seq(Ages) /\ recent \in Seq(0..Window - 1)
      /\ Rpm \in Nat \ {0} /\ Len(recent) \in Nat
      /\ Len(recent) > 0 => recent[1] \in 0..Window - 1
  BY LimitIs
<1>3. e \in Seq(Ages) /\ Falling(e) /\ Limit!Evict(e) = e
  BY <1>2, EvictKeeps, EvictAgain DEF LimitIInv
<1> HIDE DEF e
<1>4. stamps' \in Seq(Ages) /\ Falling(stamps') /\ Limit!Evict(stamps') = Append(e, 0)
  BY <1>1, <1>2, <1>3, EvictAppends
<1>5. recent' \in Seq(0..Window - 1) /\ Falling(recent') /\ Len(recent') = Len(recent) + 1
  BY <1>1, <1>2, OneMore DEF LimitIInv
<1>6. senderAt'[Caller] = "sent"
  BY <1>1 DEF LimitIInv, Limit!TypeOK
<1>7. Limit!TypeOK'
  BY <1>1, <1>4, <1>5 DEF LimitIInv, Limit!TypeOK, Ages
<1>8. CalmIsCalm'
  <2>1. SUFFICES ASSUME calm
                 PROVE  /\ blocked = 0 /\ penalty = 0 /\ pressure = 0
                        /\ recent' = Limit!Evict(stamps') /\ Len(recent') <= Rpm
    BY <1>1 DEF CalmIsCalm
  <2>2. blocked = 0 /\ penalty = 0 /\ pressure = 0 /\ recent = e
    BY <2>1 DEF LimitIInv, CalmIsCalm, e
  <2>3. Len(recent) < Rpm
    BY <1>1, <1>2, <2>1, WaitIs
  <2>4. QED
    BY <1>1, <1>2, <1>4, <1>5, <2>2, <2>3
<1>9. PausesAreKept' /\ WaitsForRoom'
  BY <1>6 DEF PausesAreKept, WaitsForRoom
<1>10. QED
  BY <1>4, <1>5, <1>7, <1>8, <1>9 DEF LimitIInv

LEMMA SleepIInv ==
    ASSUME Limit!LimiterAssumption, LimitIInv, Limit!Sleep(Caller)
    PROVE  LimitIInv'
<1>1. /\ Limit!Wait > 0
      /\ stamps' = Limit!Evict(stamps)
      /\ senderAt' = [senderAt EXCEPT ![Caller] = "waiting"]
      /\ left' = [left EXCEPT ![Caller] = Limit!Wait]
      /\ UNCHANGED <<blocked, penalty, pressure, streak, calm, recent>>
  BY DEF Limit!Sleep
<1>2. /\ Window \in Nat \ {0} /\ stamps \in Seq(Ages) /\ recent \in Seq(0..Window - 1)
      /\ Rpm \in Nat \ {0} /\ Len(recent) \in Nat
      /\ Len(recent) > 0 => recent[1] \in 0..Window - 1
  BY LimitIs
<1>3. stamps' \in Seq(Ages) /\ Falling(stamps') /\ Limit!Evict(stamps') = stamps'
  BY <1>1, <1>2, EvictKeeps, EvictAgain DEF LimitIInv
<1>4. /\ Limit!Wait \in Nat /\ blocked <= Limit!Wait /\ penalty <= Limit!Wait
      /\ calm => Limit!Wait = IF Len(recent) < Rpm THEN 0 ELSE Window - recent[1]
  BY WaitIs
<1>5. left'[Caller] = Limit!Wait /\ senderAt'[Caller] = "waiting"
  BY <1>1 DEF LimitIInv, Limit!TypeOK
<1>6. Limit!TypeOK'
  BY <1>1, <1>3, <1>4 DEF LimitIInv, Limit!TypeOK, Ages
<1>7. PausesAreKept' /\ CalmIsCalm'
  BY <1>1, <1>3, <1>4, <1>5 DEF LimitIInv, PausesAreKept, CalmIsCalm
<1>8. WaitsForRoom'
  <2>1. SUFFICES ASSUME calm
                 PROVE  Len(recent) = Rpm /\ recent[1] + left'[Caller] = Window /\ left'[Caller] > 0
    BY <1>1 DEF WaitsForRoom
  <2>2. Len(recent) <= Rpm
    BY <2>1 DEF LimitIInv, CalmIsCalm
  <2>3. ~(Len(recent) < Rpm) /\ Limit!Wait = Window - recent[1]
    BY <1>1, <1>4, <2>1
  <2>4. QED
    BY <1>1, <1>2, <1>5, <2>2, <2>3
<1>9. QED
  BY <1>1, <1>3, <1>6, <1>7, <1>8 DEF LimitIInv

LEMMA WakeIInv ==
    ASSUME Limit!LimiterAssumption, LimitIInv, Limit!Wake(Caller)
    PROVE  LimitIInv'
<1>1. /\ senderAt[Caller] = "waiting" /\ left[Caller] = 0
      /\ stamps' = Append(stamps, 0) /\ recent' = Append(recent, 0)
      /\ senderAt' = [senderAt EXCEPT ![Caller] = "sent"] /\ left' = [left EXCEPT ![Caller] = 0]
      /\ UNCHANGED <<blocked, penalty, pressure, streak, calm>>
  BY DEF Limit!Wake, Limit!Send
<1>2. /\ Window \in Nat \ {0} /\ stamps \in Seq(Ages) /\ recent \in Seq(0..Window - 1)
      /\ Rpm \in Nat \ {0} /\ Len(recent) \in Nat
  BY LimitIs
<1>3. /\ stamps' \in Seq(Ages) /\ Falling(stamps')
      /\ Limit!Evict(stamps') = Append(Limit!Evict(stamps), 0)
  BY <1>1, <1>2, EvictAppends DEF LimitIInv
<1>4. recent' \in Seq(0..Window - 1) /\ Falling(recent') /\ Len(recent') = Len(recent) + 1
  BY <1>1, <1>2, OneMore DEF LimitIInv
<1>5. senderAt'[Caller] = "sent"
  BY <1>1 DEF LimitIInv, Limit!TypeOK
<1>6. Limit!TypeOK'
  BY <1>1, <1>3, <1>4 DEF LimitIInv, Limit!TypeOK, Ages
<1>7. calm => Len(recent) < Rpm
  BY <1>1 DEF LimitIInv, WaitsForRoom
<1>8. CalmIsCalm'
  BY <1>1, <1>2, <1>3, <1>4, <1>7 DEF LimitIInv, CalmIsCalm
<1>9. PausesAreKept' /\ WaitsForRoom'
  BY <1>5 DEF PausesAreKept, WaitsForRoom
<1>10. QED
  BY <1>3, <1>4, <1>6, <1>8, <1>9 DEF LimitIInv

LEMMA CancelIInv ==
    ASSUME Limit!LimiterAssumption, LimitIInv, Limit!Cancel(Caller)
    PROVE  LimitIInv'
<1>1. /\ senderAt' = [senderAt EXCEPT ![Caller] = "idle"] /\ left' = [left EXCEPT ![Caller] = 0]
      /\ UNCHANGED <<stamps, blocked, penalty, pressure, streak, calm, recent>>
  BY DEF Limit!Cancel
<1>2. senderAt'[Caller] = "idle"
  BY <1>1 DEF LimitIInv, Limit!TypeOK
<1>3. Limit!TypeOK'
  BY <1>1 DEF LimitIInv, Limit!TypeOK
<1>4. PausesAreKept' /\ WaitsForRoom' /\ CalmIsCalm'
  BY <1>1, <1>2 DEF LimitIInv, PausesAreKept, WaitsForRoom, CalmIsCalm
<1>5. QED
  BY <1>1, <1>3, <1>4 DEF LimitIInv

LEMMA AnswerIInv ==
    ASSUME Limit!LimiterAssumption, LimitIInv, Limit!Answer(Caller)
    PROVE  LimitIInv'
<1>1. /\ senderAt' = [senderAt EXCEPT ![Caller] = "idle"]
      /\ UNCHANGED <<stamps, blocked, calm, left, recent>>
      /\ Limit!TypeOK /\ MaxBlock \in Nat /\ MaxPressure \in Nat \ {0}
  BY DEF Limit!Answer, LimitIInv, Limit!LimiterAssumption
<1>2. senderAt'[Caller] = "idle"
  BY <1>1 DEF Limit!TypeOK
<1>3. /\ streak' \in 0..2 /\ pressure' \in 0..MaxPressure /\ penalty' \in 0..MaxBlock
      /\ pressure = 0 => pressure' = pressure /\ penalty' = penalty
  <2>1. streak \in 0..2 /\ pressure \in 0..MaxPressure /\ penalty \in 0..MaxBlock
    BY <1>1 DEF Limit!TypeOK
  <2>2. CASE UNCHANGED <<streak, pressure, penalty>>
    BY <2>1, <2>2
  <2>3. CASE streak' = Limit!Smaller(streak + 1, 2)
             /\ IF pressure > 0 /\ streak' = 2
                THEN pressure' = pressure - 1 /\ penalty' = penalty \div 2
                ELSE UNCHANGED <<pressure, penalty>>
    <3>1. streak' \in 0..2
      BY <2>1, <2>3 DEF Limit!Smaller
    <3>2. penalty \div 2 \in 0..MaxBlock
      BY <1>1, <2>1
    <3>3. QED
      BY <1>1, <2>1, <2>3, <3>1, <3>2
  <2>4. QED
    BY <2>2, <2>3 DEF Limit!Answer
<1>4. Limit!TypeOK'
  BY <1>1, <1>3 DEF Limit!TypeOK
<1>5. PausesAreKept' /\ WaitsForRoom' /\ CalmIsCalm'
  BY <1>1, <1>2, <1>3 DEF LimitIInv, PausesAreKept, WaitsForRoom, CalmIsCalm
<1>6. QED
  BY <1>1, <1>4, <1>5 DEF LimitIInv

LEMMA RejectIInv ==
    ASSUME Limit!LimiterAssumption, LimitIInv, Limit!Reject(Caller)
    PROVE  LimitIInv'
<1>1. /\ senderAt' = [senderAt EXCEPT ![Caller] = "idle"]
      /\ streak' = 0 /\ calm' = FALSE /\ stamps' = Append(stamps, 0)
      /\ UNCHANGED <<left, recent>>
      /\ Limit!TypeOK /\ MaxBlock \in Nat /\ MaxPressure \in Nat \ {0}
  BY DEF Limit!Reject, LimitIInv, Limit!LimiterAssumption
<1>2. senderAt'[Caller] = "idle"
  BY <1>1 DEF Limit!TypeOK
<1>3. stamps' \in Seq(Ages) /\ Falling(stamps')
  BY <1>1, LimitIs, EvictAppends DEF LimitIInv
<1>4. blocked' \in Nat /\ pressure' \in 0..MaxPressure /\ penalty' \in 0..MaxBlock
  <2>1. blocked \in Nat /\ pressure \in 0..MaxPressure /\ penalty \in 0..MaxBlock
        /\ RetryAfters \subseteq Nat
    BY <1>1 DEF Limit!TypeOK, Limit!LimiterAssumption
  <2>2. PICK after \in RetryAfters :
          IF after > 0
          THEN blocked' = Limit!Larger(blocked, after) /\ UNCHANGED <<pressure, penalty>>
          ELSE /\ pressure' = Limit!Smaller(pressure + 1, MaxPressure)
               /\ penalty' = Limit!Larger(penalty, Limit!Penalty(pressure'))
               /\ UNCHANGED blocked
    BY DEF Limit!Reject
  <2>3. CASE after > 0
    BY <2>1, <2>2, <2>3 DEF Limit!Larger
  <2>4. CASE ~(after > 0)
    <3>1. pressure' \in 1..MaxPressure
      BY <1>1, <2>1, <2>2, <2>4 DEF Limit!Smaller
    <3>2. Limit!Block[pressure'] \in Nat
      BY <3>1, BlocksAreNumbers DEF Limit!LimiterAssumption
    <3>3. Limit!Penalty(pressure') \in 0..MaxBlock
      BY <1>1, <3>2 DEF Limit!Penalty, Limit!Smaller
    <3>4. penalty' \in 0..MaxBlock
      BY <2>1, <2>2, <2>4, <3>3 DEF Limit!Larger
    <3>5. QED
      BY <1>1, <2>1, <2>2, <2>4, <3>1, <3>4
  <2>5. QED
    BY <2>3, <2>4
<1>5. Limit!TypeOK'
  <2>1. calm' \in BOOLEAN
    BY <1>1, Zenon
  <2>2. streak' \in 0..2
    BY <1>1, SMT
  <2>3. /\ senderAt' \in [{Caller} -> {"idle", "waiting", "sent"}]
        /\ left' \in [{Caller} -> Nat] /\ recent' \in Seq(0..Window - 1)
    BY <1>1 DEF Limit!TypeOK
  <2>4. QED
    BY <1>3, <1>4, <2>1, <2>2, <2>3 DEF Limit!TypeOK, Ages
<1>6. PausesAreKept' /\ WaitsForRoom' /\ CalmIsCalm'
  BY <1>1, <1>2 DEF PausesAreKept, WaitsForRoom, CalmIsCalm
<1>7. QED
  BY <1>1, <1>3, <1>5, <1>6 DEF LimitIInv

LEMMA LimitTickIInv ==
    ASSUME Limit!LimiterAssumption, LimitIInv, Limit!Tick
    PROVE  LimitIInv'
<1> DEFINE o == Limit!Older(recent)
<1>1. /\ stamps' = Limit!Older(stamps) /\ recent' = Limit!Evict(o)
      /\ blocked' = Limit!Minus1(blocked) /\ penalty' = Limit!Minus1(penalty)
      /\ left' = [c \in {Caller} |-> Limit!Minus1(left[c])]
      /\ UNCHANGED <<pressure, streak, calm, senderAt>>
      /\ Limit!TypeOK
  BY DEF Limit!Tick, LimitIInv
<1>2. /\ Window \in Nat \ {0} /\ Rpm \in Nat \ {0} /\ MaxBlock \in Nat
      /\ stamps \in Seq(Ages) /\ recent \in Seq(Ages)
      /\ Len(recent) \in Nat /\ (Len(recent) > 0 => recent[1] \in 0..Window - 1)
      /\ blocked \in Nat /\ penalty \in Nat /\ penalty <= MaxBlock /\ left[Caller] \in Nat
  BY LimitIs
<1>3. /\ o \in Seq(Ages) /\ Len(o) = Len(recent) /\ Falling(o)
      /\ Len(recent) > 0 => o[1] = recent[1] + 1
  <2>1. /\ o \in Seq(Ages) /\ Len(o) = Len(recent) /\ Falling(o)
        /\ \A i \in 1..Len(recent) : o[i] = IF recent[i] < Window THEN recent[i] + 1 ELSE Window
    BY <1>2, OlderIs DEF LimitIInv
  <2>2. ASSUME Len(recent) > 0 PROVE o[1] = recent[1] + 1
    <3>1. 1 \in 1..Len(recent) /\ recent[1] < Window
      BY <1>2, <2>2
    <3>2. QED
      BY <2>1, <3>1
  <2>3. QED
    BY <2>1, <2>2
<1>4. /\ recent' \in Seq(0..Window - 1) /\ Falling(recent') /\ Len(recent') <= Len(recent)
      /\ Len(recent) > 0 /\ o[1] < Window => recent' = o
      /\ Len(recent) > 0 /\ o[1] >= Window => Len(recent') < Len(recent)
      /\ Len(recent') \in Nat
  <2>1. /\ Limit!Evict(o) \in Seq(0..Window - 1) /\ Limit!Evict(o) \in Seq(Ages)
        /\ Falling(Limit!Evict(o)) /\ Len(Limit!Evict(o)) <= Len(o)
        /\ Len(o) > 0 /\ o[1] < Window => Limit!Evict(o) = o
        /\ Len(o) > 0 /\ o[1] >= Window => Len(Limit!Evict(o)) < Len(o)
    BY <1>2, <1>3, EvictKeeps
  <2>2. QED
    BY <1>1, <1>3, <2>1
<1>5. calm => recent' = Limit!Evict(stamps')
  <2>1. SUFFICES ASSUME calm
                 PROVE  recent' = Limit!Evict(stamps')
    OBVIOUS
  <2>2. recent = Limit!Evict(stamps)
    BY <2>1 DEF LimitIInv, CalmIsCalm
  <2>3. QED
    BY <1>1, <1>2, <2>2, EvictOlder
<1>6. stamps' \in Seq(Ages) /\ Falling(stamps')
  BY <1>1, <1>2, OlderIs DEF LimitIInv
<1>7. /\ blocked' = IF blocked > 0 THEN blocked - 1 ELSE 0
      /\ penalty' = IF penalty > 0 THEN penalty - 1 ELSE 0
      /\ left'[Caller] = IF left[Caller] > 0 THEN left[Caller] - 1 ELSE 0
  BY <1>1, <1>2 DEF Limit!Minus1, Limit!Larger
<1>8. Limit!TypeOK'
  <2>1. blocked' \in Nat /\ penalty' \in 0..MaxBlock
    BY <1>2, <1>7
  <2>2. left' \in [{Caller} -> Nat]
    BY <1>1, <1>2, <1>7
  <2>3. QED
    BY <1>1, <1>4, <1>6, <2>1, <2>2 DEF Limit!TypeOK, Ages
<1>9. PausesAreKept'
  BY <1>1, <1>2, <1>7 DEF LimitIInv, PausesAreKept
<1>10. CalmIsCalm'
  BY <1>1, <1>2, <1>4, <1>5, <1>7 DEF LimitIInv, CalmIsCalm
<1>11. WaitsForRoom'
  <2>1. SUFFICES ASSUME calm, senderAt[Caller] = "waiting"
                 PROVE  IF left'[Caller] > 0
                        THEN Len(recent') = Rpm /\ recent'[1] + left'[Caller] = Window
                        ELSE Len(recent') < Rpm
    BY <1>1 DEF WaitsForRoom
  <2>2. IF left[Caller] > 0 THEN Len(recent) = Rpm /\ recent[1] + left[Caller] = Window
        ELSE Len(recent) < Rpm
    BY <2>1 DEF LimitIInv, WaitsForRoom
  <2> HIDE DEF o
  <2>3. CASE left[Caller] > 1
    <3>1. Len(recent) = Rpm /\ Len(recent) > 0 /\ recent[1] + left[Caller] = Window
      BY <1>2, <2>2, <2>3
    <3>2. o[1] = recent[1] + 1 /\ o[1] < Window
      BY <1>2, <1>3, <2>3, <3>1
    <3>3. recent' = o
      BY <1>4, <3>1, <3>2
    <3>4. left'[Caller] = left[Caller] - 1 /\ left'[Caller] > 0
      BY <1>2, <1>7, <2>3
    <3>5. Len(recent') = Rpm /\ recent'[1] = recent[1] + 1
      BY <1>3, <3>1, <3>2, <3>3
    <3>6. QED
      BY <1>2, <2>3, <3>1, <3>4, <3>5
  <2>4. CASE left[Caller] = 1
    BY <1>2, <1>3, <1>4, <1>7, <2>2, <2>4
  <2>5. CASE left[Caller] = 0
    BY <1>2, <1>3, <1>4, <1>7, <2>2, <2>5
  <2>6. QED
    BY <1>2, <2>3, <2>4, <2>5
<1>12. QED
  BY <1>4, <1>6, <1>8, <1>9, <1>10, <1>11 DEF LimitIInv

LEMMA LimitNextIInv ==
    ASSUME Limit!LimiterAssumption, LimitIInv, [Limit!Next]_(Limit!vars)
    PROVE  LimitIInv'
<1>1. CASE UNCHANGED Limit!vars
  <2>1. UNCHANGED <<stamps, blocked, penalty, pressure, streak, calm, senderAt, left, recent>>
    BY <1>1 DEF Limit!vars
  <2>2. QED
    BY <2>1 DEF LimitIInv, Limit!TypeOK, Falling, PausesAreKept, CalmIsCalm, WaitsForRoom
<1>2. CASE Limit!Next
  BY <1>2, LimitTickIInv, PassIInv, SleepIInv, WakeIInv, CancelIInv, AnswerIInv, RejectIInv
  DEF Limit!Next, Limit!Acquire
<1>3. QED
  BY <1>1, <1>2

LEMMA LimitSafe ==
    ASSUME Limit!LimiterAssumption, LimitIInv
    PROVE  Limit!TypeOK /\ Limit!WindowIsKeptWhileCalm /\ Limit!NoNeedlessWait
<1>1. /\ Rpm \in Nat \ {0} /\ Window \in Nat /\ Len(recent) \in Nat /\ left[Caller] \in Nat
  BY LimitIs
<1>2. Limit!WindowIsKeptWhileCalm
  BY DEF LimitIInv, CalmIsCalm, Limit!WindowIsKeptWhileCalm, Limit!WindowIsKept
<1>3. Limit!NoNeedlessWait
  BY <1>1 DEF LimitIInv, WaitsForRoom, Limit!NoNeedlessWait
<1>4. QED
  BY <1>2, <1>3 DEF LimitIInv

(* Who sends does so after all pauses. *)
SendsInPeace ==
    (\E c \in {Caller} : senderAt[c] # "sent" /\ senderAt'[c] = "sent") =>
        blocked = 0 /\ penalty = 0

LEMMA SendsAfterPauses ==
    ASSUME Limit!LimiterAssumption, LimitIInv, Limit!Next
    PROVE  SendsInPeace
<1>1. SUFFICES ASSUME senderAt[Caller] # "sent", senderAt'[Caller] = "sent"
               PROVE  blocked = 0 /\ penalty = 0
  BY DEF SendsInPeace
<1>2. senderAt \in [{Caller} -> {"idle", "waiting", "sent"}]
  BY DEF LimitIInv, Limit!TypeOK
<1>3. blocked \in Nat /\ penalty \in Nat
  BY LimitIs
<1>4. CASE Limit!Pass(Caller)
  BY <1>3, <1>4, WaitIs DEF Limit!Pass
<1>5. CASE Limit!Wake(Caller)
  BY <1>3, <1>5 DEF LimitIInv, PausesAreKept, Limit!Wake
<1>6. CASE Limit!Tick
  BY <1>1, <1>6 DEF Limit!Tick
<1>7. CASE Limit!Sleep(Caller)
  BY <1>1, <1>2, <1>7 DEF Limit!Sleep
<1>8. CASE Limit!Cancel(Caller) \/ Limit!Answer(Caller) \/ Limit!Reject(Caller)
  BY <1>1, <1>2, <1>8 DEF Limit!Cancel, Limit!Answer, Limit!Reject
<1>9. QED
  BY <1>4, <1>5, <1>6, <1>7, <1>8 DEF Limit!Next, Limit!Acquire

(***************************************************************************)
(* For one caller, a window never holds more requests than the limit until *)
(* the server first answers 429, no request is sent while a pause or a     *)
(* penalty is running, the penalty has its cap, and nobody waits while the *)
(* window has room.                                                        *)
(***************************************************************************)
THEOREM TheWindowIsFair == HostSpec => WindowIsFair
<1>1. HostInit => LimitIInv
  BY HostAssumption, LimitInitIInv DEF HostInit
<1>2. LimitIInv /\ [HostNext]_hostVars => LimitIInv'
  BY HostAssumption, HostSteps, LimitNextIInv
<1>3. LimitIInv => Limit!TypeOK /\ Limit!WindowIsKeptWhileCalm /\ Limit!NoNeedlessWait
  BY HostAssumption, LimitSafe
<1>4. LimitIInv /\ [HostNext]_hostVars => [SendsInPeace]_(Limit!vars)
  BY HostAssumption, HostSteps, SendsAfterPauses
<1>5. QED
  BY <1>1, <1>2, <1>3, <1>4, PTL
  DEF HostSpec, WindowIsFair, Limit!PressureIsRespected, SendsInPeace
=============================================================================
