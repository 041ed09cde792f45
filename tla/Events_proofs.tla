------------------------------ MODULE Events_proofs ------------------------------
(***************************************************************************)
(* Proofs about the tasks of an event loop, for all values of the constants *)
(* that EventsAssumption admits.  Each part has an inductive invariant of   *)
(* its own, which EventsSteps carries to the whole.                        *)
(*                                                                         *)
(* The lock: OneHolder needs the agreement of deque and futures in TypeOK:  *)
(* the task that release grants the lock to must not be inside already.    *)
(* FreeHasNoQueue then follows because release frees the lock only when    *)
(* it has emptied the deque.                                               *)
(*                                                                         *)
(* The webhooks: an accepted event is in the queue, in the hand of one loop, *)
(* or has a task of its own, and in no two of them (OnePlace).             *)
(*                                                                         *)
(* The resolutions: the slots that are taken are those of the calls that    *)
(* run (Slots), and a call finds its own event under its request because no *)
(* other call has that request (OwnRequests).                              *)
(*                                                                         *)
(* The hooks: a steady hook that was not heard is the one that the emitter  *)
(* waits for, or its name is ahead (HeardOrAhead), since no two registered  *)
(* hooks have one name.  The names ahead are ranked, as those of the index  *)
(* are, and no steady hook that was heard is less urgent than they.        *)
(*                                                                         *)
(* The devices: a steady node was told, or its device is ahead of the       *)
(* sender (ToldOrAhead); it is its device's only node (Registry).          *)
(***************************************************************************)
EXTENDS Events, QueueLemmas, FiniteSetTheorems, WellFoundedInduction

-----------------------------------------------------------------------------
(* The lock of tasks.                                                      *)

IInv == TypeOK /\ OneHolder /\ FreeHasNoQueue

LEMMA InitIInv == Init => IInv
<1> SUFFICES ASSUME Init
             PROVE  IInv
  OBVIOUS
<1>1. waiters \in Seq(Tasks) /\ IsInjective(waiters) /\ \A e : ~Contains(waiters, e)
  BY EmptyQueue DEF Init
<1>2. TypeOK
  BY <1>1 DEF Init, TypeOK, QueueSound, Places, FutureStates
<1>3. QED
  BY <1>2 DEF Init, IInv, OneHolder, Holds, FreeHasNoQueue

LEMMA AcquireFastIInv ==
    ASSUME IInv, NEW t \in Tasks, AcquireFast(t)
    PROVE  IInv'
<1> USE DEF IInv, AcquireFast
<1>1. TypeOK'
  BY DEF TypeOK, QueueSound, Places
<1>2. OneHolder'
  BY DEF TypeOK, OneHolder, Holds
<1>3. QED
  BY <1>1, <1>2 DEF FreeHasNoQueue

LEMMA EnqueueIInv ==
    ASSUME IInv, NEW t \in Tasks, Enqueue(t)
    PROVE  IInv'
<1> USE DEF IInv
<1>1. fut[t] = "none" /\ ~Contains(waiters, t)
  BY DEF Enqueue, TypeOK, QueueSound
<1>2. /\ waiters' \in Seq(Tasks)
      /\ IsInjective(waiters')
      /\ \A e : Contains(waiters', e) <=> Contains(waiters, e) \/ e = t
  BY <1>1, AppendQueue DEF Enqueue, TypeOK, QueueSound
<1>3. TypeOK'
  BY <1>2 DEF Enqueue, TypeOK, QueueSound, Places, FutureStates
<1>4. OneHolder'
  BY DEF Enqueue, TypeOK, OneHolder, Holds
<1>5. QED
  BY <1>3, <1>4 DEF Enqueue, FreeHasNoQueue

LEMMA ResumeIInv ==
    ASSUME IInv, NEW t \in Tasks, Resume(t)
    PROVE  IInv'
<1> USE DEF IInv, Resume
<1>1. TypeOK'
  BY DEF TypeOK, QueueSound, Places, FutureStates
<1>2. OneHolder'
  BY DEF TypeOK, OneHolder, Holds
<1>3. QED
  BY <1>1, <1>2 DEF FreeHasNoQueue

LEMMA ResumeCancelledIInv ==
    ASSUME IInv, NEW t \in Tasks, ResumeCancelled(t)
    PROVE  IInv'
<1> USE DEF IInv
<1>1. /\ waiters' \in Seq(Tasks)
      /\ IsInjective(waiters')
      /\ \A e : Contains(waiters', e) <=> Contains(waiters, e) /\ e # t
  <2>1. CASE \E i \in DOMAIN waiters : waiters[i] = t /\ waiters' = RemoveAt(waiters, i)
    <3>1. PICK i \in 1 .. Len(waiters) : waiters[i] = t /\ waiters' = RemoveAt(waiters, i)
      BY <2>1 DEF TypeOK
    <3>2. QED
      BY <3>1, RemoveAtQueue DEF TypeOK, QueueSound
  <2>2. CASE ~Contains(waiters, t) /\ UNCHANGED waiters
    BY <2>2 DEF TypeOK, QueueSound
  <2>3. QED
    BY <2>1, <2>2 DEF ResumeCancelled
<1>2. TypeOK'
  BY <1>1 DEF ResumeCancelled, TypeOK, QueueSound, Places, FutureStates
<1>3. OneHolder'
  BY DEF ResumeCancelled, TypeOK, OneHolder, Holds
<1>4. FreeHasNoQueue'
  <2>1. ASSUME ~held'
        PROVE  waiters' = <<>>
    <3>1. waiters = <<>> /\ \A e : ~Contains(waiters', e)
      BY <1>1, <2>1, EmptyQueue DEF ResumeCancelled, FreeHasNoQueue
    <3>2. ~Contains(waiters, t) /\ DOMAIN waiters = {}
      BY <3>1, EmptyQueue, EmptySeq
    <3>3. QED
      BY <3>1, <3>2 DEF ResumeCancelled
  <2>2. QED
    BY <2>1 DEF FreeHasNoQueue
<1>5. QED
  BY <1>2, <1>3, <1>4

LEMMA ReleaseIInv ==
    ASSUME IInv, NEW t \in Tasks, Release(t)
    PROVE  IInv'
<1> USE DEF IInv
<1>1. fut[t] = "none" /\ \A u \in Tasks : Holds(u) => u = t
  BY DEF Release, TypeOK, QueueSound, OneHolder, Holds
<1>2. CASE Live = {} /\ held' = FALSE /\ waiters' = <<>> /\ UNCHANGED fut
  <2>1. waiters' \in Seq(Tasks) /\ IsInjective(waiters') /\ \A e : ~Contains(waiters', e)
    BY <1>2, EmptyQueue
  <2>2. \A u \in Tasks : fut[u] # "pending"
    BY <1>2 DEF TypeOK, QueueSound, Live, Contains
  <2>3. TypeOK'
    BY <1>1, <1>2, <2>1, <2>2 DEF Release, TypeOK, QueueSound, Places
  <2>4. OneHolder'
    BY <1>1, <1>2 DEF Release, TypeOK, OneHolder, Holds
  <2>5. QED
    BY <1>2, <2>3, <2>4 DEF FreeHasNoQueue
<1>3. CASE \E i \in Live :
              /\ \A j \in Live : i <= j
              /\ waiters' = SubSeq(waiters, i + 1, Len(waiters))
              /\ fut' = [fut EXCEPT ![waiters[i]] = "granted"]
              /\ UNCHANGED held
  <2>1. PICK i \in Live :
              /\ \A j \in Live : i <= j
              /\ waiters' = SubSeq(waiters, i + 1, Len(waiters))
              /\ fut' = [fut EXCEPT ![waiters[i]] = "granted"]
              /\ UNCHANGED held
    BY <1>3
  <2>2. /\ i \in 1 .. Len(waiters)
        /\ waiters[i] \in Tasks
        /\ fut[waiters[i]] = "pending"
    BY DEF Live, TypeOK
  <2>3. PICK w \in Tasks : w = waiters[i]
    BY <2>2
  <2>4. w # t /\ pc[w] = "waiting"
    BY <1>1, <2>2, <2>3 DEF TypeOK, QueueSound
  <2>5. /\ waiters' \in Seq(Tasks)
        /\ IsInjective(waiters')
        /\ \A e : Contains(waiters', e) <=> \E j \in i + 1 .. Len(waiters) : waiters[j] = e
    BY <2>1, <2>2, SuffixQueue DEF TypeOK, QueueSound
  <2>6. ASSUME NEW u \in Tasks, Contains(waiters', u)
        PROVE  u # w /\ Contains(waiters, u)
    <3>1. PICK j \in i + 1 .. Len(waiters) : waiters[j] = u
      BY <2>5, <2>6
    <3>2. j \in DOMAIN waiters /\ i \in DOMAIN waiters /\ i # j
      BY <2>2 DEF TypeOK
    <3>3. QED
      BY <2>2, <2>3, <3>1, <3>2 DEF TypeOK, QueueSound, IsInjective, Contains
  <2>7. ASSUME NEW u \in Tasks, fut[u] = "pending", u # w
        PROVE  Contains(waiters', u)
    <3>1. PICK j \in 1 .. Len(waiters) : waiters[j] = u
      BY <2>7 DEF TypeOK, QueueSound, Contains
    <3>2. j \in Live
      BY <2>7, <3>1 DEF Live, TypeOK
    <3>3. i <= j /\ i # j
      BY <2>1, <2>3, <2>7, <3>1, <3>2
    <3>4. j \in i + 1 .. Len(waiters)
      BY <2>2, <3>1, <3>3
    <3>5. QED
      BY <2>5, <3>1, <3>4
  <2>8. TypeOK'
    <3>1. fut' = [fut EXCEPT ![w] = "granted"] /\ pc' = [pc EXCEPT ![t] = "out"]
      BY <2>1, <2>3 DEF Release
    <3>2. QueueSound'
      BY <1>1, <2>4, <2>5, <2>6, <2>7, <3>1 DEF TypeOK, QueueSound, Places, FutureStates
    <3>3. QED
      BY <2>1, <2>5, <3>1, <3>2 DEF Release, TypeOK, Places, FutureStates
  <2>9. OneHolder'
    BY <1>1, <2>1, <2>3, <2>4 DEF Release, TypeOK, OneHolder, Holds
  <2>10. held'
    BY <2>1 DEF Release
  <2>11. QED
    BY <2>8, <2>9, <2>10 DEF FreeHasNoQueue
<1>4. QED
  BY <1>2, <1>3 DEF Release

LEMMA CancelIInv ==
    ASSUME IInv, NEW t \in Tasks, Cancel(t)
    PROVE  IInv'
<1> USE DEF IInv, Cancel
<1>1. TypeOK'
  BY DEF TypeOK, QueueSound, FutureStates
<1>2. OneHolder'
  BY DEF TypeOK, OneHolder, Holds
<1>3. QED
  BY <1>1, <1>2 DEF FreeHasNoQueue

(***************************************************************************)
(* The inductive invariant, whatever the tasks and the cancellations.      *)
(***************************************************************************)
THEOREM Invariance == Spec => []IInv
<1>1. Init => IInv
  BY InitIInv
<1>2. IInv /\ [Next]_vars => IInv'
  <2> SUFFICES ASSUME IInv, [Next]_vars
               PROVE  IInv'
    OBVIOUS
  <2>1. ASSUME NEW t \in Tasks, AcquireFast(t) PROVE IInv'
    BY <2>1, AcquireFastIInv
  <2>2. ASSUME NEW t \in Tasks, Enqueue(t) PROVE IInv'
    BY <2>2, EnqueueIInv
  <2>3. ASSUME NEW t \in Tasks, Resume(t) PROVE IInv'
    BY <2>3, ResumeIInv
  <2>4. ASSUME NEW t \in Tasks, ResumeCancelled(t) PROVE IInv'
    BY <2>4, ResumeCancelledIInv
  <2>5. ASSUME NEW t \in Tasks, Release(t) PROVE IInv'
    BY <2>5, ReleaseIInv
  <2>6. ASSUME NEW t \in Tasks, Cancel(t) PROVE IInv'
    BY <2>6, CancelIInv
  <2>7. CASE UNCHANGED vars
    BY <2>7 DEF vars, IInv, TypeOK, QueueSound, OneHolder, Holds, FreeHasNoQueue
  <2>8. QED
    BY <2>1, <2>2, <2>3, <2>4, <2>5, <2>6, <2>7 DEF Next
<1>3. QED
  BY <1>1, <1>2, PTL DEF Spec

(***************************************************************************)
(* Mutual exclusion: at most one task owns the lock, and only while it is  *)
(* marked held, however waits, grants and cancellations interleave.        *)
(***************************************************************************)
THEOREM MutualExclusion == Spec => []OneHolder
  BY Invariance, PTL DEF IInv

(* The deque and the futures agree in every reachable state. *)
THEOREM TypeCorrect == Spec => []TypeOK
  BY Invariance, PTL DEF IInv

(* A free lock has an empty deque: the fast path overtakes nobody. *)
THEOREM NoOvertaking == Spec => []FreeHasNoQueue
  BY Invariance, PTL DEF IInv

-----------------------------------------------------------------------------
(* The refinement of FairLock. *)

(* Only a task that was granted the lock is marked for cancellation. *)
MarkedIsGranted == \A t \in mustCancel : fut[t] = "granted"

LEMMA MarkedStep ==
    ASSUME IInv, MarkedIsGranted, [Next]_vars
    PROVE  MarkedIsGranted'
<1> USE DEF IInv, TypeOK, QueueSound, MarkedIsGranted, FutureStates
<1>1. CASE UNCHANGED vars
  BY <1>1 DEF vars
<1>2. ASSUME NEW t \in Tasks, AcquireFast(t) \/ Enqueue(t) PROVE MarkedIsGranted'
  BY <1>2 DEF AcquireFast, Enqueue
<1>3. ASSUME NEW t \in Tasks, Resume(t) \/ ResumeCancelled(t) \/ Cancel(t) PROVE MarkedIsGranted'
  BY <1>3 DEF Resume, ResumeCancelled, Cancel
<1>4. ASSUME NEW t \in Tasks, Release(t) PROVE MarkedIsGranted'
  <2>1. CASE UNCHANGED fut
    BY <1>4, <2>1 DEF Release
  <2>2. CASE \E i \in Live : fut' = [fut EXCEPT ![waiters[i]] = "granted"]
    BY <1>4, <2>2 DEF Release
  <2>3. QED
    BY <1>4, <2>1, <2>2 DEF Release
<1>5. QED
  BY <1>1, <1>2, <1>3, <1>4 DEF Next

LEMMA OwnerNow ==
    ASSUME OneHolder
    PROVE  /\ \A t \in Owners : held /\ Owners = {t} /\ Owner = t
           /\ Owners = {} => Owner = IF held THEN Vanished ELSE Nobody
<1>1. ASSUME NEW t \in Owners PROVE held /\ Owners = {t}
  BY <1>1 DEF OneHolder, Owners
<1>2. ASSUME NEW t \in Owners PROVE Owner = t
  <2>1. Owner \in Owners
    BY <1>1, <1>2 DEF Owner
  <2>2. QED
    BY <1>1, <1>2, <2>1
<1>3. QED
  BY <1>1, <1>2 DEF Owner

LEMMA OwnerNext ==
    ASSUME OneHolder'
    PROVE  /\ \A t \in Owners' : held' /\ Owners' = {t} /\ Owner' = t
           /\ Owners' = {} => Owner' = IF held' THEN Vanished ELSE Nobody
<1>1. ASSUME NEW t \in Owners' PROVE held' /\ Owners' = {t}
  BY <1>1 DEF OneHolder, Owners
<1>2. ASSUME NEW t \in Owners' PROVE Owner' = t
  <2>1. Owner' \in Owners'
    BY <1>1, <1>2 DEF Owner
  <2>2. QED
    BY <1>1, <1>2, <2>1
<1>3. QED
  BY <1>1, <1>2 DEF Owner

\* The order of the deque, in the words of QueueLemmas.
LEMMA QueueOrder ==
    /\ waiters \in Seq(Tasks) =>
          \A t, u : QueuedBefore(t, u) <=> ComesBefore(waiters, t, u)
    /\ waiters' \in Seq(Tasks) =>
          \A t, u : QueuedBefore(t, u)' <=> ComesBefore(waiters', t, u)
  BY DEF QueuedBefore, ComesBefore

\* A step after which the tasks that still wait do so in the same order.
LEMMA SameAhead ==
    ASSUME IInv, IInv', NEW gone, Waiting' = Waiting \ gone,
           \A t, u \in Waiting' : QueuedBefore(t, u)' <=> QueuedBefore(t, u)
    PROVE  Ahead' = [t \in Tasks |-> IF t \in gone THEN {} ELSE Ahead[t] \ gone]
<1>1. Waiting \subseteq Tasks
  BY DEF Waiting
<1>2. ASSUME NEW t \in Tasks
      PROVE  Ahead'[t] = IF t \in gone THEN {} ELSE Ahead[t] \ gone
  BY <1>1 DEF Ahead
<1>3. QED
  BY <1>2 DEF Ahead

LEMMA Steady ==
    ASSUME IInv, IInv', Waiting' = Waiting, Owners' = Owners, held' = held,
           \A t, u \in Waiting : QueuedBefore(t, u)' <=> QueuedBefore(t, u)
    PROVE  UNCHANGED Fair!vars
<1>1. Ahead' = Ahead
  <2>1. Ahead' = [t \in Tasks |-> IF t \in {} THEN {} ELSE Ahead[t] \ {}]
    BY SameAhead
  <2>2. QED
    BY <2>1 DEF Ahead
<1>2. Owner' = Owner
  BY DEF Owner
<1>3. QED
  BY <1>1, <1>2 DEF Fair!vars

LEMMA AcquireFastIsArrive ==
    ASSUME IInv, IInv', MarkedIsGranted, NEW t \in Tasks, AcquireFast(t)
    PROVE  Fair!Next
<1>1. pc[t] = "out" /\ ~held /\ fut[t] = "none" /\ t \notin mustCancel
  BY DEF AcquireFast, IInv, TypeOK, QueueSound, MarkedIsGranted
<1>2. Owner = Nobody /\ t # Nobody
  BY <1>1, TasksAssumption DEF Owner, TasksAssumption
<1>3. Owner' = t
  <2>1. t \in Owners'
    BY <1>1 DEF Owners, Holds, AcquireFast, IInv, TypeOK
  <2>2. QED
    BY <2>1, OwnerNext DEF IInv
<1>4. Waiting' = Waiting /\ Ahead' = Ahead
  BY DEF AcquireFast, Waiting, Ahead, QueuedBefore
<1>5. t \notin Waiting
  BY <1>1 DEF Waiting
<1>6. QED
  BY <1>2, <1>3, <1>4, <1>5 DEF Fair!Next, Fair!Arrive

LEMMA EnqueueIsArrive ==
    ASSUME IInv, IInv', MarkedIsGranted, NEW t \in Tasks, Enqueue(t)
    PROVE  Fair!Next
<1>1. /\ pc[t] = "out" /\ held /\ held' = held /\ fut[t] = "none" /\ t \notin mustCancel
      /\ waiters \in Seq(Tasks) /\ ~Contains(waiters, t)
      /\ waiters' = Append(waiters, t) /\ waiters' \in Seq(Tasks)
      /\ \A u \in Tasks : /\ fut'[u] = IF u = t THEN "pending" ELSE fut[u]
                          /\ pc'[u] = IF u = t THEN "waiting" ELSE pc[u]
      /\ mustCancel' = mustCancel
  BY DEF Enqueue, IInv, TypeOK, QueueSound, MarkedIsGranted
<1>2. Owners' = Owners /\ t \notin Owners
  BY <1>1 DEF Owners, Holds
<1>3. Owner' = Owner
  BY <1>1, <1>2 DEF Owner
<1>4. Owner # Nobody /\ Owner # t
  <2>1. CASE Owners = {}
    BY <1>1, <2>1, OwnerNow, TasksAssumption DEF IInv, TasksAssumption, Nobody, Vanished
  <2>2. CASE Owners # {}
    BY <1>2, <2>2, OwnerNow, TasksAssumption DEF IInv, TasksAssumption, Owners
  <2>3. QED
    BY <2>1, <2>2
<1>5. t \notin Waiting /\ Waiting' = Waiting \union {t}
  BY <1>1 DEF Waiting
<1>6. \A u \in Waiting : Contains(waiters, u) /\ u # t
  BY <1>1 DEF IInv, TypeOK, QueueSound, Waiting
<1>7. \A u, v : QueuedBefore(u, v)' <=> QueuedBefore(u, v) \/ (Contains(waiters, u) /\ v = t)
  BY <1>1, QueueOrder, AppendOrder
<1>8. \A u : ~QueuedBefore(t, u) /\ ~QueuedBefore(u, t)
  BY <1>1 DEF QueuedBefore, Contains
<1>9. Ahead' = [Ahead EXCEPT ![t] = Waiting]
  <2>1. ASSUME NEW u \in Tasks
        PROVE  Ahead'[u] = IF u = t THEN Waiting ELSE Ahead[u]
    <3>1. CASE u = t
      <4>1. Ahead'[t] = {v \in Waiting' : t \in Waiting' /\ QueuedBefore(v, t)'}
        BY DEF Ahead
      <4>2. \A v \in Waiting : QueuedBefore(v, t)'
        BY <1>6, <1>7
      <4>3. ~QueuedBefore(t, t)'
        BY <1>1, <1>7, <1>8
      <4>4. QED
        BY <1>5, <3>1, <4>1, <4>2, <4>3
    <3>2. CASE u # t
      BY <1>5, <1>7, <1>8, <3>2 DEF Ahead
    <3>3. QED
      BY <3>1, <3>2
  <2>2. QED
    BY <2>1 DEF Ahead
<1>10. QED
  BY <1>3, <1>4, <1>5, <1>9 DEF Fair!Next, Fair!Arrive

LEMMA ResumeIsSteady ==
    ASSUME IInv, IInv', NEW t \in Tasks, Resume(t)
    PROVE  UNCHANGED Fair!vars
<1>1. Waiting' = Waiting /\ Owners' = Owners
  BY DEF Resume, Waiting, Owners, Holds, IInv, TypeOK
<1>2. \A u, v : QueuedBefore(u, v)' <=> QueuedBefore(u, v)
  BY DEF Resume, QueuedBefore
<1>3. QED
  BY <1>1, <1>2, Steady DEF Resume

LEMMA ResumeCancelledIsSteady ==
    ASSUME IInv, IInv', MarkedIsGranted, NEW t \in Tasks, ResumeCancelled(t)
    PROVE  UNCHANGED Fair!vars
<1>1. fut[t] \in {"cancelled", "granted"} /\ t \notin Owners
  BY DEF ResumeCancelled, MarkedIsGranted, Owners, Holds, IInv, TypeOK
<1>2. Waiting' = Waiting /\ Owners' = Owners /\ t \notin Waiting
  BY <1>1 DEF ResumeCancelled, Waiting, Owners, Holds, IInv, TypeOK
<1>3. \A u, v \in Waiting : QueuedBefore(u, v)' <=> QueuedBefore(u, v)
  <2>1. CASE UNCHANGED waiters
    BY <2>1 DEF QueuedBefore
  <2>2. CASE \E i \in DOMAIN waiters : waiters[i] = t /\ waiters' = RemoveAt(waiters, i)
    <3>1. PICK i \in 1 .. Len(waiters) : waiters[i] = t /\ waiters' = RemoveAt(waiters, i)
      BY <2>2 DEF IInv, TypeOK
    <3>2. \A u, v : u # t /\ v # t => (ComesBefore(waiters', u, v) <=> ComesBefore(waiters, u, v))
      BY <3>1, RemoveOrder DEF IInv, TypeOK
    <3>3. QED
      BY <1>2, <3>2, QueueOrder DEF IInv, TypeOK
  <2>3. QED
    BY <2>1, <2>2 DEF ResumeCancelled
<1>4. QED
  BY <1>2, <1>3, Steady DEF ResumeCancelled

LEMMA CancelIsGiveUpOrVanish ==
    ASSUME IInv, IInv', MarkedIsGranted, NEW t \in Tasks, Cancel(t)
    PROVE  [Fair!Next]_(Fair!vars)
<1>1. held' = held /\ \A u, v : QueuedBefore(u, v)' <=> QueuedBefore(u, v)
  BY DEF Cancel, QueuedBefore
<1>2. CASE fut[t] = "pending" /\ fut' = [fut EXCEPT ![t] = "cancelled"] /\ UNCHANGED mustCancel
  <2>1. \A u \in Tasks : fut'[u] = IF u = t THEN "cancelled" ELSE fut[u]
    BY <1>2 DEF IInv, TypeOK
  <2>2. t \in Waiting /\ Waiting' = Waiting \ {t}
    BY <1>2, <2>1 DEF Waiting
  <2>3. Owners' = Owners
    BY <1>2, <2>1 DEF Cancel, Owners, Holds
  <2>4. Owner' = Owner
    BY <1>1, <2>3 DEF Owner
  <2>5. Ahead' = [u \in Tasks |-> IF u = t THEN {} ELSE Ahead[u] \ {t}]
    <3>1. Ahead' = [u \in Tasks |-> IF u \in {t} THEN {} ELSE Ahead[u] \ {t}]
      BY <1>1, <2>2, SameAhead
    <3>2. QED
      BY <3>1
  <2>6. QED
    BY <2>2, <2>4, <2>5 DEF Fair!Next, Fair!GiveUp, Fair!Leave
<1>3. CASE fut[t] = "granted" /\ mustCancel' = mustCancel \union {t} /\ UNCHANGED fut
  <2>1. Waiting' = Waiting
    BY <1>3 DEF Waiting
  <2>2. CASE t \in mustCancel
    <3>1. Owners' = Owners
      BY <1>3, <2>2 DEF Cancel, Owners, Holds
    <3>2. QED
      BY <1>1, <2>1, <3>1, Steady
  <2>3. CASE t \notin mustCancel
    <3>1. t \in Owners
      BY <1>3, <2>3 DEF Owners, Holds
    <3>2. Owner = t /\ Owners = {t} /\ held
      BY <3>1, OwnerNow DEF IInv
    <3>3. Owners' = {}
      BY <1>3, <3>2 DEF Cancel, Owners, Holds
    <3>4. Owner' = Vanished
      BY <1>1, <3>2, <3>3, OwnerNext DEF IInv
    <3>5. Ahead' = Ahead
      BY <1>1, <2>1 DEF Ahead
    <3>6. QED
      BY <2>1, <3>2, <3>4, <3>5 DEF Fair!Next, Fair!Vanish
  <2>4. QED
    BY <2>2, <2>3
<1>4. QED
  BY <1>2, <1>3 DEF Cancel

LEMMA ReleaseIsHandOver ==
    ASSUME IInv, IInv', MarkedIsGranted, NEW t \in Tasks, Release(t)
    PROVE  Fair!Next
<1>1. /\ pc[t] = "inside" /\ held /\ fut[t] = "none" /\ t \notin mustCancel
      /\ mustCancel' = mustCancel
      /\ \A u \in Tasks : pc'[u] = IF u = t THEN "out" ELSE pc[u]
  BY DEF Release, IInv, TypeOK, QueueSound, MarkedIsGranted
<1>2. Owner = t /\ Owners = {t}
  <2>1. t \in Owners
    BY <1>1 DEF Owners, Holds
  <2>2. QED
    BY <2>1, OwnerNow DEF IInv
<1>3. \A u \in Waiting : \E j \in 1 .. Len(waiters) : waiters[j] = u /\ j \in Live
  <2>1. \A u \in Waiting : Contains(waiters, u)
    BY DEF Waiting, IInv, TypeOK, QueueSound
  <2>2. QED
    BY <2>1 DEF Contains, Live, Waiting, IInv, TypeOK
<1>4. CASE Live = {} /\ held' = FALSE /\ waiters' = <<>> /\ UNCHANGED fut
  <2>1. Waiting = {} /\ Waiting' = {}
    BY <1>3, <1>4 DEF Waiting
  <2>2. Ahead' = Ahead
    BY <2>1 DEF Ahead
  <2>3. Owner' = Nobody
    BY <1>4 DEF Owner
  <2>4. QED
    BY <1>2, <2>1, <2>2, <2>3 DEF Fair!Next, Fair!HandOver
<1>5. CASE \E i \in Live :
              /\ \A j \in Live : i <= j
              /\ waiters' = SubSeq(waiters, i + 1, Len(waiters))
              /\ fut' = [fut EXCEPT ![waiters[i]] = "granted"]
              /\ UNCHANGED held
  <2>1. PICK i \in Live :
              /\ \A j \in Live : i <= j
              /\ waiters' = SubSeq(waiters, i + 1, Len(waiters))
              /\ fut' = [fut EXCEPT ![waiters[i]] = "granted"]
              /\ UNCHANGED held
    BY <1>5
  <2>2. /\ i \in 1 .. Len(waiters) /\ waiters[i] \in Tasks /\ fut[waiters[i]] = "pending"
        /\ waiters \in Seq(Tasks) /\ IsInjective(waiters)
    BY DEF Live, IInv, TypeOK, QueueSound
  <2>3. PICK w \in Tasks : w = waiters[i]
    BY <2>2
  <2>4. /\ \A u \in Tasks : fut'[u] = IF u = w THEN "granted" ELSE fut[u]
        /\ w # t /\ w \notin mustCancel /\ w \in Waiting
    BY <1>1, <2>1, <2>2, <2>3 DEF IInv, TypeOK, MarkedIsGranted, Waiting
  <2>5. Waiting' = Waiting \ {w}
    BY <2>4 DEF Waiting
  <2>6. \A u \in Waiting' : Contains(waiters', u)
    BY DEF Waiting, IInv, TypeOK, QueueSound
  <2>7. \A u, v \in Waiting' : QueuedBefore(u, v)' <=> QueuedBefore(u, v)
    <3>1. \A u, v \in Waiting' : ComesBefore(waiters', u, v) <=> ComesBefore(waiters, u, v)
      BY <2>1, <2>2, <2>6, SuffixOrder
    <3>2. QED
      BY <2>2, <3>1, QueueOrder DEF IInv, TypeOK
  <2>8. Ahead' = [u \in Tasks |-> IF u = w THEN {} ELSE Ahead[u] \ {w}]
    <3>1. Ahead' = [u \in Tasks |-> IF u \in {w} THEN {} ELSE Ahead[u] \ {w}]
      BY <2>5, <2>7, SameAhead
    <3>2. QED
      BY <3>1
  <2>9. Ahead[w] = {}
    <3>1. ASSUME NEW u \in Waiting, QueuedBefore(u, w)
          PROVE  FALSE
      <4>1. PICK j, k \in 1 .. Len(waiters) : j < k /\ waiters[j] = u /\ waiters[k] = w
        BY <2>2, <3>1 DEF QueuedBefore
      <4>2. k = i
        BY <2>2, <2>3, <4>1 DEF IsInjective
      <4>3. j \in Live
        BY <2>2, <4>1 DEF Live, Waiting
      <4>4. QED
        BY <2>1, <2>2, <4>1, <4>2, <4>3
    <3>2. QED
      BY <3>1 DEF Ahead
  <2>10. Owner' = w
    <3>1. w \in Owners'
      BY <1>1, <2>4 DEF Owners, Holds
    <3>2. QED
      BY <3>1, OwnerNext DEF IInv
  <2>11. QED
    BY <1>2, <2>4, <2>5, <2>8, <2>9, <2>10 DEF Fair!Next, Fair!HandOver, Fair!Leave
<1>6. QED
  BY <1>4, <1>5 DEF Release

(***************************************************************************)
(* The lock is fair, for every set of tasks and every pattern of           *)
(* cancellations: each step is one of FairLock's or changes nothing in it. *)
(* The lock is only ever handed to the task that has waited longest of     *)
(* those that still wait, and nobody who comes later is in between.        *)
(***************************************************************************)
THEOREM LockIsFair == Spec => IsFair
<1>1. Init => MarkedIsGranted /\ Fair!Init
  <2>1. ASSUME Init PROVE MarkedIsGranted /\ Owner = Nobody /\ Waiting = {}
    BY <2>1 DEF Init, MarkedIsGranted, Owner, Waiting
  <2>2. ASSUME Init PROVE Ahead = [t \in Tasks |-> {}]
    BY <2>1, <2>2 DEF Ahead
  <2>3. QED
    BY <2>1, <2>2 DEF Fair!Init
<1>2. IInv /\ MarkedIsGranted /\ [Next]_vars => MarkedIsGranted'
  BY MarkedStep
<1>3. IInv /\ IInv' /\ MarkedIsGranted /\ [Next]_vars => [Fair!Next]_(Fair!vars)
  <2> SUFFICES ASSUME IInv, IInv', MarkedIsGranted, [Next]_vars
               PROVE  [Fair!Next]_(Fair!vars)
    OBVIOUS
  <2>1. ASSUME NEW t \in Tasks, AcquireFast(t) PROVE Fair!Next
    BY <2>1, AcquireFastIsArrive
  <2>2. ASSUME NEW t \in Tasks, Enqueue(t) PROVE Fair!Next
    BY <2>2, EnqueueIsArrive
  <2>3. ASSUME NEW t \in Tasks, Resume(t) PROVE UNCHANGED Fair!vars
    BY <2>3, ResumeIsSteady
  <2>4. ASSUME NEW t \in Tasks, ResumeCancelled(t) PROVE UNCHANGED Fair!vars
    BY <2>4, ResumeCancelledIsSteady
  <2>5. ASSUME NEW t \in Tasks, Release(t) PROVE Fair!Next
    BY <2>5, ReleaseIsHandOver
  <2>6. ASSUME NEW t \in Tasks, Cancel(t) PROVE [Fair!Next]_(Fair!vars)
    BY <2>6, CancelIsGiveUpOrVanish
  <2>7. CASE UNCHANGED vars
    <3>1. Waiting' = Waiting /\ Owners' = Owners /\ held' = held
      BY <2>7 DEF vars, Waiting, Owners, Holds
    <3>2. \A u, v : QueuedBefore(u, v)' <=> QueuedBefore(u, v)
      BY <2>7 DEF vars, QueuedBefore
    <3>3. UNCHANGED Fair!vars
      BY <3>1, <3>2, Steady
    <3>4. QED
      BY <3>3
  <2>8. QED
    BY <2>1, <2>2, <2>3, <2>4, <2>5, <2>6, <2>7 DEF Next
<1>4. QED
  BY <1>1, <1>2, <1>3, Invariance, PTL DEF Spec, IsFair, Fair!Spec

-----------------------------------------------------------------------------
(* The reception of webhooks.                                              *)

InHand(d) == \E l \in Loops : got[l] = d

Sequences ==
    /\ queue \in Seq(Web!Deliveries) /\ IsInjective(queue)
    /\ wired \in Seq(Handlers)
    /\ todo \in [Web!Deliveries -> Seq(Handlers)]

(* An event is in one place at most, and in one exactly if it was accepted. *)
OnePlace ==
    /\ \A l, m \in Loops : got[l] = got[m] /\ got[l] # None => l = m
    /\ \A d \in Web!Deliveries :
          /\ Contains(queue, d) => ~InHand(d) /\ taskAt[d] = "none"
          /\ InHand(d) => taskAt[d] = "none"
          /\ answer[d] = "queued" <=> Contains(queue, d) \/ InHand(d) \/ taskAt[d] # "none"
          /\ print[d] = None => answer[d] = None

Windows ==
    \A f \in Fingerprints :
        window[f] = {} \/ (f \in seen /\ \E d \in Web!Deliveries : window[f] = {d})

Tries ==
    \A d \in Web!Deliveries :
        /\ taskAt[d] = "delayed" => retries[d] < MaxRetries
        /\ status[d] = "failed" => taskAt[d] = "over" /\ failing[d] /\ retries[d] = MaxRetries

WebIInv == Web!TypeOK /\ Sequences /\ OnePlace /\ Windows /\ Tries

(* Facts about the constants. *)
LEMMA WebIs ==
    ASSUME Web!WebhookAssumption
    PROVE  /\ MaxDeliveries \in Nat /\ MaxQueue \in Nat \ {0} /\ MaxRetries \in Nat
           /\ IsFiniteSet(Handlers) /\ Web!Deliveries = 1..MaxDeliveries
           /\ None \notin Fingerprints /\ None \notin Loops /\ None \notin Web!Deliveries
           /\ None # "queued" /\ None # "failed"
<1>1. IsFiniteSet(Handlers)
  BY Zenon DEF Web!WebhookAssumption, Web!IsFiniteSet, IsFiniteSet
<1>2. QED
  BY <1>1 DEF Web!WebhookAssumption, Web!Deliveries

(* What Range says of a sequence. *)
LEMMA WebRange ==
    ASSUME NEW S, NEW s \in Seq(S)
    PROVE  /\ Web!Range(s) \subseteq S
           /\ \A e : e \in Web!Range(s) <=> Contains(s, e)
  BY DEF Web!Range, Contains

LEMMA WebInitIInv ==
    ASSUME Web!WebhookAssumption, Web!Init
    PROVE  WebIInv
<1>1. queue \in Seq(Web!Deliveries) /\ IsInjective(queue) /\ \A e : ~Contains(queue, e)
  BY EmptyQueue DEF Web!Init
<1>2. wired \in Seq(Handlers)
  <2>1. /\ Cardinality(Handlers) \in Nat
        /\ \E g \in [1..Cardinality(Handlers) -> Handlers] : IsInjective(g)
    BY WebIs, FS_CardinalityType
    DEF ExistsBijection, Bijection, Injection, IsInjective
  <2>2. Web!SetToSeq(Handlers) =
            CHOOSE g \in [1..Cardinality(Handlers) -> Handlers] : IsInjective(g)
    BY Zenon DEF Web!SetToSeq, Web!Cardinality, Cardinality, Web!IsInjective, IsInjective
  <2>3. wired \in [1..Cardinality(Handlers) -> Handlers]
    BY <2>1, <2>2 DEF Web!Init
  <2>4. QED
    BY <2>1, <2>3
<1>3. todo \in [Web!Deliveries -> Seq(Handlers)]
  BY EmptySeq DEF Web!Init
<1>4. Sequences
  BY <1>1, <1>2, <1>3 DEF Sequences
<1>5. Web!TypeOK
  <2>1. Len(queue) <= MaxQueue /\ Web!Range(queue) \subseteq Web!Deliveries
    <3>1. Len(queue) = 0
      BY DEF Web!Init
    <3>2. Len(queue) <= MaxQueue
      BY <3>1, WebIs
    <3>3. Web!Range(queue) \subseteq Web!Deliveries
      BY <1>1, WebRange
    <3>4. QED
      BY <3>2, <3>3
  <2>2. Web!Range(wired) \subseteq Handlers /\ \A d \in Web!Deliveries : Web!Range(todo[d]) \subseteq Handlers
    BY <1>2, <1>3, WebRange
  <2>3. retries \in [Web!Deliveries -> 0..MaxRetries]
    BY WebIs DEF Web!Init
  <2>4. QED
    BY <2>1, <2>2, <2>3 DEF Web!Init, Web!TypeOK
<1>6. OnePlace
  BY <1>1, WebIs DEF Web!Init, OnePlace, InHand
<1>7. Windows /\ Tries
  BY WebIs DEF Web!Init, Windows, Tries
<1>8. QED
  BY <1>4, <1>5, <1>6, <1>7 DEF WebIInv

LEMMA ReceiveIInv ==
    ASSUME Web!WebhookAssumption, WebIInv,
           NEW d \in Web!Deliveries, NEW f \in Fingerprints, Web!Receive(d, f)
    PROVE  WebIInv'
<1> USE DEF WebIInv
<1>1. /\ print[d] = None /\ print' = [print EXCEPT ![d] = f] /\ seen' = seen \union {f}
      /\ UNCHANGED <<running, loops, stopped, processor, got, wired, taskAt, todo, failing,
                     retries, status, switches>>
  BY DEF Web!Receive, Web!service, Web!tasks
<1>2. answer[d] = None /\ f # None
  BY <1>1, WebIs DEF OnePlace
<1>3. CASE \E a \in {"duplicate", "rejected"} :
              answer' = [answer EXCEPT ![d] = a] /\ UNCHANGED <<queue, window>>
  <2>1. Web!TypeOK' /\ Sequences'
    BY <1>1, <1>3 DEF Web!TypeOK, Sequences
  <2>2. OnePlace'
    BY <1>1, <1>2, <1>3, WebIs DEF OnePlace, InHand, Web!TypeOK
  <2>3. Windows' /\ Tries'
    BY <1>1, <1>3 DEF Windows, Tries
  <2>4. QED
    BY <2>1, <2>2, <2>3
<1>4. CASE /\ f \notin seen /\ Len(queue) < MaxQueue
           /\ answer' = [answer EXCEPT ![d] = "queued"]
           /\ queue' = Append(queue, d)
           /\ window' = [window EXCEPT ![f] = @ \union {d}]
  <2>1. ~Contains(queue, d) /\ ~InHand(d) /\ taskAt[d] = "none"
    BY <1>2, WebIs DEF OnePlace
  <2>2. /\ queue' \in Seq(Web!Deliveries) /\ IsInjective(queue')
        /\ \A e : Contains(queue', e) <=> Contains(queue, e) \/ e = d
    BY <1>4, <2>1, AppendQueue DEF Sequences
  <2>3. Len(queue') <= MaxQueue
    BY <1>4, WebIs DEF Sequences
  <2>4. window[f] = {}
    BY <1>4 DEF Windows
  <2>5. window' \in [Fingerprints -> SUBSET Web!Deliveries]
    BY <1>4 DEF Web!TypeOK
  <2>6. Web!TypeOK'
    BY <1>1, <1>4, <2>2, <2>3, <2>5, WebRange DEF Web!TypeOK
  <2>7. Sequences'
    BY <1>1, <2>2 DEF Sequences
  <2>8. OnePlace'
    BY <1>1, <1>2, <1>4, <2>1, <2>2, WebIs DEF OnePlace, InHand, Web!TypeOK
  <2>9. Windows'
    <3>1. window'[f] = {d} /\ f \in seen'
      BY <1>1, <1>4, <2>4 DEF Web!TypeOK
    <3>2. \A g \in Fingerprints \ {f} : window'[g] = window[g] /\ (g \in seen => g \in seen')
      BY <1>1, <1>4 DEF Web!TypeOK
    <3>3. QED
      BY <3>1, <3>2 DEF Windows
  <2>10. Tries'
    BY <1>1 DEF Tries
  <2>11. QED
    BY <2>6, <2>7, <2>8, <2>9, <2>10
<1>5. QED
  BY <1>3, <1>4 DEF Web!Receive

LEMMA WebExpireIInv ==
    ASSUME WebIInv, NEW f \in Fingerprints, Web!Expire(f)
    PROVE  WebIInv'
<1> USE DEF WebIInv
<1>1. /\ seen' = seen \ {f} /\ window' = [window EXCEPT ![f] = {}]
      /\ UNCHANGED <<print, answer, queue, running, loops, stopped, processor, got, wired,
                     taskAt, todo, failing, retries, status>>
  BY DEF Web!Expire, Web!service, Web!tasks
<1>2. Web!TypeOK' /\ Sequences'
  BY <1>1 DEF Web!TypeOK, Sequences
<1>3. OnePlace' /\ Tries'
  BY <1>1 DEF OnePlace, InHand, Tries
<1>4. Windows'
  BY <1>1 DEF Windows, Web!TypeOK
<1>5. QED
  BY <1>2, <1>3, <1>4

(* The loops come and go, and handlers are switched. *)
LEMMA ServiceIInv ==
    ASSUME Web!WebhookAssumption, WebIInv,
           \/ \E l \in Loops : Web!Start(l) \/ Web!LoopEnds(l)
           \/ Web!Stop
           \/ \E h \in Handlers : Web!On(h) \/ Web!Off(h)
    PROVE  WebIInv'
<1> USE DEF WebIInv
<1>1. UNCHANGED <<print, answer, seen, queue, got, taskAt, todo, failing, retries, status, window>>
  BY DEF Web!Start, Web!LoopEnds, Web!Stop, Web!On, Web!Off, Web!reception, Web!service, Web!tasks
<1>2. OnePlace' /\ Windows' /\ Tries'
  BY <1>1 DEF OnePlace, InHand, Windows, Tries
<1>3. wired' \in Seq(Handlers)
  <2>1. CASE \E h \in Handlers : Web!On(h)
    BY <2>1 DEF Web!On, Sequences
  <2>2. CASE \E h \in Handlers : Web!Off(h)
    <3>1. PICK i \in 1..Len(wired) : wired' = Web!RemoveAt(wired, i)
      BY <2>2 DEF Web!Off, Sequences
    <3>2. wired' = RemoveAt(wired, i)
      BY <3>1 DEF Web!RemoveAt, RemoveAt
    <3>3. QED
      BY <3>2, RemoveAtProperties DEF Sequences
  <2>3. CASE UNCHANGED wired
    BY <2>3 DEF Sequences
  <2>4. QED
    BY <2>1, <2>2, <2>3 DEF Web!Start, Web!LoopEnds, Web!Stop
<1>4. Sequences'
  BY <1>1, <1>3 DEF Sequences
<1>5. /\ running' \in BOOLEAN /\ stopped' \subseteq loops' /\ loops' \subseteq Loops
      /\ processor' \in Loops \union {None}
  BY DEF Web!Start, Web!LoopEnds, Web!Stop, Web!On, Web!Off, Web!service, Web!TypeOK
<1>6. Web!TypeOK'
  BY <1>1, <1>3, <1>5, WebRange DEF Web!TypeOK
<1>7. QED
  BY <1>2, <1>4, <1>6

LEMMA GetIInv ==
    ASSUME Web!WebhookAssumption, WebIInv, NEW l \in Loops, Web!Get(l)
    PROVE  WebIInv'
<1> USE DEF WebIInv
<1> DEFINE d == Head(queue)
<1>1. /\ got[l] = None /\ queue # <<>>
      /\ got' = [got EXCEPT ![l] = d] /\ queue' = Tail(queue)
      /\ UNCHANGED <<print, answer, seen, running, loops, stopped, processor, wired, taskAt, todo,
                     failing, retries, status, window>>
  BY DEF Web!Get, Web!reception, Web!tasks
<1>2. /\ d \in Web!Deliveries /\ Contains(queue, d)
      /\ queue' \in Seq(Web!Deliveries) /\ IsInjective(queue')
      /\ \A e : Contains(queue', e) <=> Contains(queue, e) /\ e # d
  BY <1>1, TailQueue DEF Sequences
<1>3. Len(queue') <= MaxQueue
  BY <1>1, WebIs, HeadTailProperties DEF Sequences, Web!TypeOK
<1>4. ~InHand(d) /\ taskAt[d] = "none" /\ d # None
  BY <1>2, WebIs DEF OnePlace
<1> HIDE DEF d
<1>5. Web!TypeOK'
  BY <1>1, <1>2, <1>3, WebRange DEF Web!TypeOK
<1>6. Sequences'
  BY <1>1, <1>2 DEF Sequences
<1>7. \A e \in Web!Deliveries : InHand(e)' <=> InHand(e) \/ e = d
  BY <1>1, <1>4, WebIs DEF InHand, Web!TypeOK
<1>8. OnePlace'
  <2>1. \A k, m \in Loops : got'[k] = got'[m] /\ got'[k] # None => k = m
    BY <1>1, <1>4 DEF OnePlace, InHand, Web!TypeOK
  <2>2. QED
    BY <1>1, <1>2, <1>4, <1>7, <2>1 DEF OnePlace
<1>9. Windows' /\ Tries'
  BY <1>1 DEF Windows, Tries
<1>10. QED
  BY <1>5, <1>6, <1>8, <1>9

LEMMA HandIInv ==
    ASSUME Web!WebhookAssumption, WebIInv, NEW l \in Loops, Web!Hand(l)
    PROVE  WebIInv'
<1> USE DEF WebIInv
<1> DEFINE d == got[l]
<1>1. /\ d # None
      /\ taskAt' = [taskAt EXCEPT ![d] = "created"] /\ got' = [got EXCEPT ![l] = None]
      /\ loops' = (IF running THEN loops ELSE loops \ {l}) /\ stopped' = stopped \ {l}
      /\ UNCHANGED <<print, answer, seen, queue, running, processor, wired, todo, failing, retries,
                     status, window>>
  BY DEF Web!Hand, Web!reception
<1>2. d \in Web!Deliveries /\ InHand(d) /\ taskAt[d] = "none" /\ ~Contains(queue, d)
  BY <1>1 DEF OnePlace, InHand, Web!TypeOK
<1>3. Web!TypeOK' /\ Sequences'
  BY <1>1, <1>2 DEF Web!TypeOK, Sequences
<1>4. \A e \in Web!Deliveries : InHand(e)' <=> InHand(e) /\ e # d
  BY <1>1, <1>2, WebIs DEF InHand, OnePlace, Web!TypeOK
<1>5. OnePlace'
  BY <1>1, <1>2, <1>4 DEF OnePlace, Web!TypeOK
<1>6. Windows' /\ Tries'
  BY <1>1, <1>2 DEF Windows, Tries, Web!TypeOK
<1>7. QED
  BY <1>3, <1>5, <1>6

(* A step of the task of an event.  The task has begun and remains. *)
LEMMA TaskIInv ==
    ASSUME Web!WebhookAssumption, WebIInv, NEW d \in Web!Deliveries,
           Web!Try(d) \/ Web!Call(d) \/ Web!Settle(d)
    PROVE  WebIInv'
<1> USE DEF WebIInv
<1>1. UNCHANGED <<print, answer, seen, queue, running, loops, stopped, processor, got, wired, window>>
  BY DEF Web!Try, Web!Call, Web!Settle, Web!reception, Web!service
<1>2. /\ taskAt \in [Web!Deliveries -> {"none", "created", "handling", "delayed", "over"}]
      /\ failing \in [Web!Deliveries -> BOOLEAN] /\ retries \in [Web!Deliveries -> 0..MaxRetries]
      /\ status \in [Web!Deliveries -> {None, "completed", "failed"}]
      /\ todo \in [Web!Deliveries -> Seq(Handlers)] /\ wired \in Seq(Handlers)
      /\ MaxRetries \in Nat /\ None # "failed"
  BY WebIs DEF Web!TypeOK, Sequences
<1>3. /\ taskAt' \in [Web!Deliveries -> {"none", "created", "handling", "delayed", "over"}]
      /\ failing' \in [Web!Deliveries -> BOOLEAN] /\ retries' \in [Web!Deliveries -> 0..MaxRetries]
      /\ status' \in [Web!Deliveries -> {None, "completed", "failed"}]
      /\ todo' \in [Web!Deliveries -> Seq(Handlers)]
      /\ \A e \in Web!Deliveries : taskAt'[e] = "none" <=> taskAt[e] = "none"
      /\ Tries'
  <2>1. CASE Web!Try(d)
    <3>1. /\ taskAt[d] \in {"created", "delayed"} /\ status[d] # "failed"
          /\ taskAt' = [taskAt EXCEPT ![d] = "handling"]
          /\ todo' = [todo EXCEPT ![d] = wired]
          /\ failing' = [failing EXCEPT ![d] = FALSE]
          /\ status' = status
      BY <2>1 DEF Web!Try, Web!Enter, Tries
    <3>2. PICK n \in 0..MaxRetries : retries' = [retries EXCEPT ![d] = n]
      <4>1. CASE taskAt[d] = "created"
        BY <1>2, <2>1, <4>1 DEF Web!Try, Web!Enter
      <4>2. CASE taskAt[d] = "delayed"
        <5>1. retries[d] + 1 \in 0..MaxRetries
          BY <1>2, <4>2 DEF Tries
        <5>2. QED
          BY <2>1, <4>2, <5>1 DEF Web!Try, Web!Enter
      <4>3. QED
        BY <3>1, <4>1, <4>2
    <3>3. QED
      BY <1>2, <3>1, <3>2 DEF Tries
  <2>2. CASE Web!Call(d)
    <3>1. PICK raised \in BOOLEAN :
             /\ taskAt[d] = "handling" /\ status[d] # "failed"
             /\ todo[d] # <<>> /\ todo' = [todo EXCEPT ![d] = Tail(todo[d])]
             /\ failing' = [failing EXCEPT ![d] = raised]
             /\ UNCHANGED <<taskAt, retries, status>>
      BY <2>2 DEF Web!Call, Tries
    <3>2. Tail(todo[d]) \in Seq(Handlers)
      BY <1>2, <3>1, HeadTailProperties
    <3>3. QED
      BY <1>2, <3>1, <3>2 DEF Tries
  <2>3. CASE Web!Settle(d)
    <3>1. taskAt[d] = "handling" /\ status[d] # "failed" /\ UNCHANGED <<todo, failing, retries>>
      BY <2>3 DEF Web!Settle, Tries
    <3>2. CASE failing[d] /\ retries[d] < MaxRetries
      BY <1>2, <2>3, <3>1, <3>2 DEF Web!Settle, Tries
    <3>3. CASE ~(failing[d] /\ retries[d] < MaxRetries)
      <4>1. /\ taskAt' = [taskAt EXCEPT ![d] = "over"]
            /\ status' = [status EXCEPT ![d] = IF failing[d] THEN "failed" ELSE "completed"]
        BY <2>3, <3>3 DEF Web!Settle
      <4>2. failing[d] => retries[d] = MaxRetries
        BY <1>2, <3>3
      <4>3. QED
        BY <1>2, <3>1, <4>1, <4>2 DEF Tries
    <3>4. QED
      BY <3>2, <3>3
  <2>4. QED
    BY <2>1, <2>2, <2>3
<1>4. Web!TypeOK'
  BY <1>1, <1>3, WebRange DEF Web!TypeOK
<1>5. Sequences' /\ Windows'
  BY <1>1, <1>3 DEF Sequences, Windows
<1>6. OnePlace'
  BY <1>1, <1>3 DEF OnePlace, InHand
<1>7. QED
  BY <1>3, <1>4, <1>5, <1>6

LEMMA WebNextIInv ==
    ASSUME Web!WebhookAssumption, WebIInv, [Web!Next]_(Web!vars)
    PROVE  WebIInv'
<1>1. CASE UNCHANGED Web!vars
  <2>1. UNCHANGED webhooks
    BY <1>1 DEF Web!vars, Web!reception, Web!service, Web!tasks, webhooks
  <2>2. QED
    BY <2>1 DEF webhooks, WebIInv, Web!TypeOK, Sequences, OnePlace, InHand, Windows, Tries
<1>2. CASE Web!Next
  BY <1>2, ReceiveIInv, WebExpireIInv, ServiceIInv, GetIInv, HandIInv, TaskIInv
  DEF Web!Next, Web!Sender, Web!Owner, Web!Loop, Web!Task
<1>3. QED
  BY <1>1, <1>2

(* A set of at most one. *)
LEMMA AtMostOne ==
    ASSUME NEW S, \A x, y \in S : x = y
    PROVE  Cardinality(S) = IF S = {} THEN 0 ELSE 1
<1>1. CASE S = {}
  BY <1>1, FS_EmptySet
<1>2. CASE S # {}
  <2>1. PICK x \in S : S = {x}
    BY <1>2
  <2>2. QED
    BY <1>2, <2>1, FS_Singleton
<1>3. QED
  BY <1>1, <1>2

LEMMA WebSafe ==
    ASSUME Web!WebhookAssumption, WebIInv
    PROVE  WebhooksAreKept
<1>1. \A S : Web!Cardinality(S) = Cardinality(S)
  BY Zenon DEF Web!Cardinality, Cardinality
<1>2. ASSUME NEW d \in Web!Deliveries
      PROVE  Web!Places(d) = IF answer[d] = "queued" THEN 1 ELSE 0
  <2> DEFINE Q == {i \in DOMAIN queue : queue[i] = d}
             L == {l \in Loops : got[l] = d}
  <2>1. Cardinality(Q) = IF Contains(queue, d) THEN 1 ELSE 0
    <3>1. \A i, j \in Q : i = j
      BY DEF WebIInv, Sequences, IsInjective
    <3>2. Q = {} <=> ~Contains(queue, d)
      BY DEF WebIInv, Sequences, Contains
    <3> HIDE DEF Q
    <3>3. QED
      BY <3>1, <3>2, AtMostOne
  <2>2. Cardinality(L) = IF InHand(d) THEN 1 ELSE 0
    <3>1. \A l, m \in L : l = m
      BY WebIs DEF WebIInv, OnePlace
    <3>2. L = {} <=> ~InHand(d)
      BY DEF InHand
    <3> HIDE DEF L
    <3>3. QED
      BY <3>1, <3>2, AtMostOne
  <2>3. Web!Places(d) = Cardinality(Q) + Cardinality(L) + (IF taskAt[d] = "none" THEN 0 ELSE 1)
    BY <1>1 DEF Web!Places
  <2> HIDE DEF Q, L
  <2>4. QED
    BY <2>1, <2>2, <2>3 DEF WebIInv, OnePlace
<1>3. Web!QueuedIsHandled
  BY <1>2 DEF Web!QueuedIsHandled
<1>4. ASSUME NEW f \in Fingerprints
      PROVE  Web!Cardinality(window[f]) <= 1
  <2>1. \A x, y \in window[f] : x = y
    BY DEF WebIInv, Windows
  <2>2. QED
    BY <1>1, <2>1, AtMostOne
<1>5. Web!OncePerWindow
  BY <1>4 DEF Web!OncePerWindow
<1>6. Web!FailedAfterAllTries
  BY DEF WebIInv, Tries, Web!FailedAfterAllTries
<1>7. QED
  BY <1>3, <1>5, <1>6 DEF WebIInv, WebhooksAreKept

-----------------------------------------------------------------------------
(* The resolutions.                                                        *)

Outcomes == {"pending", "running", "failed", "timed_out", "cancelled", "completed"}

Slots == IsFiniteSet(Resolve!Running) /\ free + Cardinality(Resolve!Running) = MaxConcurrent

(* A call has the request of its name, and while it runs its event.         *)
OwnRequests ==
    /\ \A c \in Calls : request[c] = c
    /\ \A r \in Requests : events[r] = IF r \in Resolve!Running THEN r ELSE None
    /\ \A c \in Resolve!Running : outcome[c] = "running"
    /\ results \in [Requests -> Outcomes \union {None}]

(* Who was promised an end has its event set, and is over or before its last *)
(* look at it.                                                             *)
PromisesStand ==
    \A c \in promised :
        c \in cancelled /\ callAt[c] \in {"prompt", "llm", "over"} /\ outcome[c] # "completed"

OnRecord == \A c \in Calls : callAt[c] = "over" => results[c] = outcome[c]

ResolveIInv == Resolve!TypeOK /\ Slots /\ OwnRequests /\ PromisesStand /\ OnRecord

(* Facts about the constants. *)
LEMMA ResolveIs ==
    ASSUME Resolve!ResolverAssumption
    PROVE  MaxConcurrent \in Nat \ {0} /\ None \notin Calls /\ Calls \subseteq Requests
  BY DEF Resolve!ResolverAssumption

LEMMA ResolveInitIInv ==
    ASSUME Resolve!ResolverAssumption, Resolve!Init
    PROVE  ResolveIInv
<1>1. Resolve!Running = {}
  BY DEF Resolve!Init, Resolve!Running
<1>2. Slots
  BY <1>1, ResolveIs, FS_EmptySet DEF Slots, Resolve!Init
<1>3. Resolve!TypeOK
  BY ResolveIs DEF Resolve!Init, Resolve!TypeOK
<1>4. QED
  BY <1>1, <1>2, <1>3, ResolveIs
  DEF ResolveIInv, OwnRequests, PromisesStand, OnRecord, Resolve!Init, Outcomes

(* A call that runs ends, and gives its slot back. *)
LEMMA FinishIInv ==
    ASSUME Resolve!ResolverAssumption, ResolveIInv, NEW c \in Resolve!Running, NEW how \in Outcomes,
           how = "completed" => c \notin promised,
           Resolve!Finish(c, how), UNCHANGED <<request, cancelled, promised>>
    PROVE  ResolveIInv'
<1> USE DEF ResolveIInv
<1>1. c \in Calls /\ request[c] = c /\ c \in Requests
  BY ResolveIs DEF Resolve!Running, OwnRequests
<1>2. /\ callAt' = [callAt EXCEPT ![c] = "over"]
      /\ outcome' = [outcome EXCEPT ![c] = how]
      /\ results' = [results EXCEPT ![c] = how]
      /\ events' = [events EXCEPT ![c] = None]
      /\ free' = free + 1
  BY <1>1 DEF Resolve!Finish, Resolve!Close, Resolve!Move
<1>3. Resolve!Running' = Resolve!Running \ {c}
  BY <1>1, <1>2 DEF Resolve!Running, Resolve!TypeOK
<1>4. /\ IsFiniteSet(Resolve!Running')
      /\ Cardinality(Resolve!Running') = Cardinality(Resolve!Running) - 1
      /\ Cardinality(Resolve!Running) \in Nat /\ Cardinality(Resolve!Running') \in Nat
  BY <1>3, FS_RemoveElement, FS_CardinalityType DEF Slots
<1>5. Slots'
  BY <1>2, <1>4 DEF Slots, Resolve!TypeOK
<1>6. free' \in 0..MaxConcurrent
  BY <1>2, <1>4, <1>5, ResolveIs DEF Slots, Resolve!TypeOK
<1>7. Resolve!TypeOK'
  BY <1>1, <1>2, <1>6 DEF Resolve!TypeOK, Outcomes
<1>8. OwnRequests'
  BY <1>1, <1>2, <1>3 DEF OwnRequests, Resolve!TypeOK
<1>9. PromisesStand'
  BY <1>1, <1>2 DEF PromisesStand, Resolve!TypeOK
<1>10. OnRecord'
  BY <1>1, <1>2, ResolveIs DEF OnRecord, OwnRequests, Resolve!TypeOK
<1>11. QED
  BY <1>5, <1>7, <1>8, <1>9, <1>10

LEMMA BeginIInv ==
    ASSUME Resolve!ResolverAssumption, ResolveIInv, NEW c \in Calls, Resolve!Begin(c)
    PROVE  ResolveIInv'
<1> USE DEF ResolveIInv
<1>1. callAt[c] = "new" /\ c \notin Resolve!Running /\ c \notin promised /\ request[c] = c /\ c \in Requests
  BY ResolveIs DEF Resolve!Begin, Resolve!Running, OwnRequests, PromisesStand
<1>2. UNCHANGED <<request, cancelled, promised>>
  BY DEF Resolve!Begin
<1>3. CASE /\ free > 0
           /\ callAt' = [callAt EXCEPT ![c] = "prompt"]
           /\ free' = free - 1
           /\ outcome' = [outcome EXCEPT ![c] = "running"]
           /\ events' = [events EXCEPT ![c] = c]
           /\ UNCHANGED results
  <2>1. Resolve!Running' = Resolve!Running \union {c}
    BY <1>3 DEF Resolve!Running, Resolve!TypeOK
  <2>2. /\ IsFiniteSet(Resolve!Running')
        /\ Cardinality(Resolve!Running') = Cardinality(Resolve!Running) + 1
        /\ Cardinality(Resolve!Running) \in Nat
    BY <1>1, <2>1, FS_AddElement, FS_CardinalityType DEF Slots
  <2>3. Slots'
    BY <1>3, <2>2 DEF Slots, Resolve!TypeOK
  <2>4. Resolve!TypeOK'
    BY <1>1, <1>2, <1>3, ResolveIs DEF Resolve!TypeOK
  <2>5. OwnRequests'
    BY <1>1, <1>2, <1>3, <2>1 DEF OwnRequests, Resolve!TypeOK
  <2>6. PromisesStand' /\ OnRecord'
    BY <1>1, <1>2, <1>3 DEF PromisesStand, OnRecord, Resolve!TypeOK
  <2>7. QED
    BY <2>3, <2>4, <2>5, <2>6
<1>4. CASE /\ callAt' = [callAt EXCEPT ![c] = "over"]
           /\ outcome' = [outcome EXCEPT ![c] = "failed"]
           /\ results' = [results EXCEPT ![c] = "failed"]
           /\ events' = [events EXCEPT ![c] = None]
           /\ UNCHANGED free
  <2>1. Resolve!Running' = Resolve!Running
    BY <1>1, <1>4 DEF Resolve!Running, Resolve!TypeOK
  <2>2. Slots' /\ Resolve!TypeOK'
    BY <1>2, <1>4, <2>1 DEF Slots, Resolve!TypeOK
  <2>3. OwnRequests'
    BY <1>1, <1>2, <1>4, <2>1 DEF OwnRequests, Resolve!TypeOK, Outcomes
  <2>4. PromisesStand' /\ OnRecord'
    BY <1>1, <1>2, <1>4, ResolveIs DEF PromisesStand, OnRecord, OwnRequests, Resolve!TypeOK
  <2>5. QED
    BY <2>2, <2>3, <2>4
<1>5. QED
  BY <1>1, <1>3, <1>4 DEF Resolve!Begin, Resolve!Close, Resolve!Move

LEMMA AwaitIInv ==
    ASSUME Resolve!ResolverAssumption, ResolveIInv, NEW c \in Calls, Resolve!Await(c)
    PROVE  ResolveIInv'
<1>1. /\ callAt[c] \in {"prompt", "llm"} /\ c \in Resolve!Running
      /\ UNCHANGED <<request, cancelled, promised>>
  BY DEF Resolve!Await, Resolve!Running
<1>2. CASE \E how \in {"failed", "timed_out", "cancelled"} : Resolve!Finish(c, how)
  BY <1>1, <1>2, FinishIInv DEF Outcomes
<1>3. CASE /\ ~Resolve!IsCancelled(c)
           /\ Resolve!Move(c, IF callAt[c] = "prompt" THEN "llm" ELSE "comment")
           /\ UNCHANGED <<free, events, outcome, results>>
  <2> USE DEF ResolveIInv
  <2>1. callAt' = [callAt EXCEPT ![c] = IF callAt[c] = "prompt" THEN "llm" ELSE "comment"]
    BY <1>3 DEF Resolve!Move
  <2>2. Resolve!Running' = Resolve!Running
    BY <1>1, <2>1 DEF Resolve!Running, Resolve!TypeOK
  <2>3. Slots' /\ Resolve!TypeOK' /\ OwnRequests' /\ OnRecord'
    BY <1>1, <1>3, <2>1, <2>2 DEF Slots, Resolve!TypeOK, OwnRequests, OnRecord
  <2>4. c \notin promised
    BY <1>1, <1>3, ResolveIs DEF Resolve!IsCancelled, OwnRequests, PromisesStand
  <2>5. PromisesStand'
    BY <1>1, <1>3, <2>1, <2>4 DEF PromisesStand, Resolve!TypeOK
  <2>6. QED
    BY <2>3, <2>5
<1>4. QED
  BY <1>1, <1>2, <1>3 DEF Resolve!Await

LEMMA CommentIInv ==
    ASSUME Resolve!ResolverAssumption, ResolveIInv, NEW c \in Calls,
           Resolve!Comment(c) \/ Resolve!Abort(c)
    PROVE  ResolveIInv'
<1>1. CASE Resolve!Comment(c)
  <2>1. c \in Resolve!Running /\ c \notin promised
    BY <1>1 DEF Resolve!Comment, Resolve!Running, ResolveIInv, PromisesStand
  <2>2. QED
    BY <1>1, <2>1, FinishIInv DEF Resolve!Comment, Outcomes
<1>2. CASE Resolve!Abort(c)
  <2>1. c \in Resolve!Running /\ outcome[c] \in Outcomes
    BY <1>2 DEF Resolve!Abort, Resolve!Running, ResolveIInv, Resolve!TypeOK, Outcomes
  <2>2. outcome[c] = "completed" => c \notin promised
    BY DEF ResolveIInv, PromisesStand
  <2>3. QED
    BY <1>2, <2>1, <2>2, FinishIInv DEF Resolve!Abort
<1>3. QED
  BY <1>1, <1>2

LEMMA ResolveCancelIInv ==
    ASSUME Resolve!ResolverAssumption, ResolveIInv, NEW r \in Requests, Resolve!Cancel(r)
    PROVE  ResolveIInv'
<1> USE DEF ResolveIInv
<1>1. events[r] = r /\ r \in Calls
  BY DEF Resolve!Cancel, OwnRequests, Resolve!Running
<1>2. /\ cancelled' = cancelled \union {r}
      /\ promised' = promised \union {c \in Calls : request[c] = r /\ callAt[c] \in {"prompt", "llm"}}
      /\ UNCHANGED <<request, free, events, callAt, outcome, results>>
  BY <1>1 DEF Resolve!Cancel
<1>3. \A c \in Calls : callAt[c] \in {"prompt", "llm"} => outcome[c] = "running"
  BY DEF OwnRequests, Resolve!Running
<1>4. PromisesStand'
  BY <1>1, <1>2, <1>3 DEF OwnRequests, PromisesStand
<1>5. Resolve!Running' = Resolve!Running
  BY <1>2 DEF Resolve!Running
<1>6. QED
  BY <1>1, <1>2, <1>4, <1>5 DEF Resolve!TypeOK, Slots, OwnRequests, OnRecord

LEMMA ResolveNextIInv ==
    ASSUME Resolve!ResolverAssumption, ResolveIInv, [Resolve!Next]_(Resolve!vars)
    PROVE  ResolveIInv'
<1>1. CASE UNCHANGED Resolve!vars
  <2>1. UNCHANGED <<request, free, events, cancelled, callAt, outcome, results, promised>>
    BY <1>1 DEF Resolve!vars
  <2>2. QED
    BY <2>1 DEF ResolveIInv, Resolve!TypeOK, Resolve!Running, Slots, OwnRequests, PromisesStand,
                OnRecord
<1>2. CASE Resolve!Next
  BY <1>2, BeginIInv, AwaitIInv, CommentIInv, ResolveCancelIInv DEF Resolve!Next, Resolve!Resolve
<1>3. QED
  BY <1>1, <1>2

LEMMA ResolveSafe ==
    ASSUME Resolve!ResolverAssumption, ResolveIInv
    PROVE  ResolutionsAreKept
<1>1. Resolve!SlotsAreReturned
  BY DEF ResolveIInv, Slots, Resolve!SlotsAreReturned, Resolve!Cardinality, Cardinality
<1>2. Resolve!CancelIsHonoured
  BY DEF ResolveIInv, PromisesStand, Resolve!CancelIsHonoured
<1>3. Resolve!ResultsAreOnRecord
  BY DEF ResolveIInv, OwnRequests, OnRecord, Resolve!ResultsAreOnRecord
<1>4. QED
  BY <1>1, <1>2, <1>3 DEF ResolveIInv, ResolutionsAreKept

-----------------------------------------------------------------------------
(* The least of a set of numbers. *)
LEMMA Least ==
    ASSUME NEW S \in SUBSET Nat, S # {}
    PROVE  Min(S) \in S /\ \A i \in S : Min(S) <= i
<1>1. PICK n \in S : \A k \in S : ~(<<k, n>> \in OpToRel(<, Nat))
  BY NatLessThanWellFounded, WFMin, ZenonT(30)
<1>2. n \in Nat /\ \A k \in S : k \in Nat /\ ~(k < n)
  BY <1>1 DEF OpToRel
<1>3. \A k \in S : n <= k
  BY <1>2
<1>4. QED
  BY <1>3 DEF Min

-----------------------------------------------------------------------------
(* The hooks of a conversation.                                            *)

Name(o) == Defaults[o].name
Present == [o \in Objects |-> attributes[o].priority]
AllNames == {Name(o) : o \in Objects}
Answers == {"allow", "modify", "deny"}

Hooked == Hook!Range(hooks)

OneOfEachName(order) == \A i, j \in 1..Len(order) : Name(order[i]) = Name(order[j]) => i = j

(* Of these objects, those of a name that comes first are not less urgent.   *)
Ranked(names, S, ranks) ==
    \A i, j \in 1..Len(names) :
        i < j => \A o, p \in S :
                    Name(o) = names[i] /\ Name(p) = names[j] => ranks[o] <= ranks[p]

HookRegistry ==
    /\ hooks \in Seq(Objects) /\ OneOfEachName(hooks)
    /\ key = [o \in Objects |-> Name(o)]
    /\ sorted \in [Objects -> Nat]
    /\ index \in Seq(AllNames) /\ Ranked(index, Hooked, sorted)

Emission ==
    /\ ahead \in [Emitters -> Seq(AllNames)]
    /\ heard \in [Emitters -> Seq([hook : Objects, answer : Answers])]
    /\ verdict \in [Emitters -> [decision : Answers, denier : Objects \union {None},
                                 content : Objects \union {None}]]
    /\ \A e \in Emitters : /\ emitterAt[e] = "waiting" => current[e] \in Objects
                           /\ emitterAt[e] = "new" => heard[e] = <<>>

SteadyAreThere ==
    /\ steadyHooks \in [Emitters -> SUBSET Objects] /\ rank \in [Emitters -> [Objects -> Nat]]
    /\ \A e \in Emitters : steadyHooks[e] \subseteq Hooked \cap enabled

(* A steady hook has been heard, is being heard, or its name is ahead.      *)
HeardOrAhead ==
    \A e \in Emitters :
        /\ emitterAt[e] = "waiting" =>
              \A o \in steadyHooks[e] :
                  o \in Hook!Heard(e) \/ o = current[e] \/ Contains(ahead[e], Name(o))
        /\ emitterAt[e] = "over" => steadyHooks[e] \subseteq Hook!Heard(e)

(* The steady hooks that were heard, the one that is being heard and those   *)
(* whose names are ahead are in the order of the priorities at the index.   *)
InOrder(e) ==
    /\ \A i, j \in 1..Len(heard[e]) :
          i < j /\ heard[e][i].hook \in steadyHooks[e] /\ heard[e][j].hook \in steadyHooks[e]
              => rank[e][heard[e][i].hook] <= rank[e][heard[e][j].hook]
    /\ emitterAt[e] = "waiting" =>
          /\ Ranked(ahead[e], steadyHooks[e], rank[e])
          /\ \A i \in 1..Len(heard[e]), o \in steadyHooks[e] :
                heard[e][i].hook \in steadyHooks[e] /\ (o = current[e] \/ Contains(ahead[e], Name(o)))
                    => rank[e][heard[e][i].hook] <= rank[e][o]
          /\ \A o \in steadyHooks[e] :
                current[e] \in steadyHooks[e] /\ Contains(ahead[e], Name(o))
                    => rank[e][current[e]] <= rank[e][o]

HeardInOrder == \A e \in Emitters : InOrder(e)

(* The verdict is the sum of the answers. *)
Sums(v, answers) ==
    LET denials == {i \in 1..Len(answers) : answers[i].answer = "deny"}
    IN /\ v.decision = "deny" <=> denials # {}
       /\ denials = {} => v.denier = None
       /\ denials # {} =>
             \E i \in denials : v.denier = answers[i].hook /\ \A j \in denials : i <= j
       /\ v.decision = "modify" => v.content # None

VerdictIsSum == \A e \in Emitters : Sums(verdict[e], heard[e])

HookIInv ==
    /\ Hook!TypeOK /\ HookRegistry /\ Emission /\ SteadyAreThere
    /\ HeardOrAhead /\ HeardInOrder /\ VerdictIsSum

(* Facts about the constants, and about a hook that is not renamed. *)
LEMMA HooksAre ==
    ASSUME Hook!HooksAssumption
    PROVE  None \notin Objects /\ \A o \in Objects : Name(o) \in AllNames
  BY DEF Hook!HooksAssumption, AllNames

LEMMA AttributesAre ==
    ASSUME Hook!HooksAssumption, Hook!NamesStay, Hook!TypeOK
    PROVE  \A o \in Objects : attributes[o].name = Name(o) /\ attributes[o].priority \in Nat
  BY DEF Hook!HooksAssumption, Hook!NamesStay, Hook!TypeOK, Name

(* What Range says of a sequence. *)
LEMMA HookRange ==
    ASSUME NEW S, NEW s \in Seq(S)
    PROVE  /\ Hook!Range(s) \subseteq S
           /\ \A e : e \in Hook!Range(s) <=> Contains(s, e)
  BY DEF Hook!Range, Contains

LEMMA HookInitIInv ==
    ASSUME Hook!HooksAssumption, Hook!Init
    PROVE  HookIInv
<1>1. /\ hooks = <<>> /\ index = <<>> /\ enabled = Objects /\ stopping = FALSE
      /\ Len(hooks) = 0 /\ Len(index) = 0 /\ Hook!Range(hooks) = {}
  BY EmptyQueue, HookRange DEF Hook!Init
<1>0. sorted \in [Objects -> Nat]
  BY DEF Hook!Init, Hook!HooksAssumption
<1>2. Hook!TypeOK
  <2>1. /\ Hook!Range(hooks) \subseteq Objects /\ Len(index) <= Len(hooks)
        /\ enabled \subseteq Objects /\ stopping \in BOOLEAN
    <3>1. Hook!Range(hooks) \subseteq Objects /\ enabled \subseteq Objects /\ stopping \in BOOLEAN
      BY <1>1
    <3>2. \A m, n : m = 0 /\ n = 0 => m <= n
      OBVIOUS
    <3>3. QED
      BY <1>1, <3>1, <3>2, Zenon
  <2>2. /\ current \in [Emitters -> Objects \union {None}]
        /\ emitterAt \in [Emitters -> {"new", "waiting", "over"}]
    BY DEF Hook!Init
  <2>3. \A e \in Emitters : verdict[e].decision = "allow"
    BY DEF Hook!Init, Hook!Allow
  <2>4. \A o \in Objects : attributes[o] = Defaults[o]
    BY DEF Hook!Init
  <2>5. QED
    BY <2>1, <2>2, <2>3, <2>4 DEF Hook!TypeOK
<1>3. HookRegistry
  BY <1>0, <1>1, EmptySeq DEF Hook!Init, Name, HookRegistry, OneOfEachName, Ranked
<1>4. Emission
  BY EmptySeq DEF Hook!Init, Hook!Allow, Emission, Answers
<1>5. SteadyAreThere /\ HeardOrAhead
  BY <1>0 DEF Hook!Init, SteadyAreThere, HeardOrAhead
<1>6. HeardInOrder
  BY DEF Hook!Init, HeardInOrder, InOrder
<1>7. VerdictIsSum
  BY DEF Hook!Init, Hook!Allow, VerdictIsSum, Sums
<1>8. QED
  BY <1>2, <1>3, <1>4, <1>5, <1>6, <1>7 DEF HookIInv

(* What the index says of the hooks that it was built for. *)
LEMMA IndexedIs ==
    ASSUME Hook!HooksAssumption, Hook!NamesStay, Hook!TypeOK, NEW order \in Seq(Objects), OneOfEachName(order),
           NEW names \in Hook!Indexed(order)
    PROVE  /\ names \in Seq(AllNames) /\ Len(names) <= Len(order)
           /\ Ranked(names, Hook!Range(order), Present)
<1> DEFINE P == Hook!Subscribed(order)
           before(i, j) == \/ Present[order[i]] < Present[order[j]]
                           \/ Present[order[i]] = Present[order[j]] /\ i < j
<1>1. Hook!SetToSeqs(P) = SetToSeqs(P)
  BY Zenon DEF Hook!SetToSeqs, SetToSeqs, Hook!Cardinality, Cardinality
<1>2. PICK p \in SetToSeqs(P) :
          /\ names = Hook!Names(order, p)
          /\ \A a, b \in DOMAIN p : a < b => before(p[a], p[b])
  <2>1. \A i \in 1..Len(order) : attributes[order[i]].priority = Present[order[i]]
    BY DEF Present
  <2>2. \A q \in SetToSeqs(P) : \A a \in DOMAIN q : q[a] \in 1..Len(order)
    BY DEF SetToSeqs, Hook!Subscribed
  <2>3. QED
    BY <1>1, <2>1, <2>2 DEF Hook!Indexed
<1>3. P \subseteq 1..Len(order) /\ Len(order) \in Nat
  BY DEF Hook!Subscribed
<1>4. IsFiniteSet(1..Len(order)) /\ Cardinality(1..Len(order)) = Len(order)
  <2>1. \A k \in Nat : IsFiniteSet(1..k) /\ Cardinality(1..k) = k
    BY FS_Interval
  <2>2. QED
    BY <1>3, <2>1
<1> DEFINE n == Cardinality(P)
<1>5. n \in Nat /\ n <= Len(order)
  BY <1>3, <1>4, FS_Subset, FS_CardinalityType
<1>6. p \in [1..n -> P]
  BY <1>2 DEF SetToSeqs
<1> HIDE DEF P, n
<1>7. names = [a \in 1..n |-> Name(order[p[a]])]
  <2>1. DOMAIN p = 1..n /\ \A a \in 1..n : order[p[a]] \in Objects
    <3>1. \A i \in 1..Len(order) : order[i] \in Objects
      BY ElementOfSeq
    <3>2. QED
      BY <1>3, <1>6, <3>1
  <2>2. \A a \in 1..n : attributes[order[p[a]]].name = Name(order[p[a]])
    BY <2>1, AttributesAre
  <2>3. QED
    BY <1>2, <2>1, <2>2, Zenon DEF Hook!Names
<1>8. \A i \in 1..Len(order) : order[i] \in Objects /\ Name(order[i]) \in AllNames /\ Present[order[i]] \in Nat
  BY HooksAre, AttributesAre DEF Present
<1>9. names \in Seq(AllNames) /\ Len(names) = n
  <2>1. \A a \in 1..n : p[a] \in 1..Len(order)
    BY <1>3, <1>6
  <2>2. names \in [1..n -> AllNames]
    BY <1>7, <1>8, <2>1
  <2>3. QED
    BY <1>5, <2>2
<1>10. ASSUME NEW a \in 1..n, NEW b \in 1..n, a < b,
              NEW o \in Hook!Range(order), NEW q \in Hook!Range(order),
              Name(o) = names[a], Name(q) = names[b]
       PROVE  Present[o] <= Present[q]
  <2>1. PICK i, j \in 1..Len(order) : order[i] = o /\ order[j] = q
    BY HookRange DEF Contains
  <2>2. p[a] \in 1..Len(order) /\ p[b] \in 1..Len(order)
    BY <1>3, <1>6
  <2>3. i = p[a] /\ j = p[b]
    BY <1>7, <1>10, <2>1, <2>2 DEF OneOfEachName
  <2>4. before(i, j)
    BY <1>2, <1>6, <1>10, <2>3
  <2>5. QED
    BY <1>8, <2>1, <2>4
<1>11. QED
  BY <1>5, <1>9, <1>10 DEF Ranked

(* The registry changes under the emitters. *)
LEMMA OwnerStep ==
    ASSUME HookIInv, UNCHANGED <<ahead, current, emitterAt, verdict, heard, rank, key>>,
           hooks' \in Seq(Objects), OneOfEachName(hooks'), enabled' \subseteq Objects,
           \A o \in Objects : attributes'[o] \in Settings[o] \union {Defaults[o]},
           sorted' \in [Objects -> Nat], index' \in Seq(AllNames),
           Ranked(index', Hooked', sorted'), Len(index') <= Len(hooks'),
           stopping' \in BOOLEAN, steadyHooks' \in [Emitters -> SUBSET Objects],
           \A e \in Emitters : steadyHooks'[e] \subseteq steadyHooks[e] \cap Hooked' \cap enabled'
    PROVE  HookIInv'
<1> USE DEF HookIInv
<1>1. Hook!TypeOK'
  BY HookRange DEF Hook!TypeOK
<1>2. HookRegistry' /\ SteadyAreThere'
  BY DEF HookRegistry, SteadyAreThere
<1>3. Emission'
  BY DEF Emission
<1>4. \A e : Hook!Heard(e)' = Hook!Heard(e)
  BY DEF Hook!Heard
<1>5. HeardOrAhead'
  BY <1>4 DEF HeardOrAhead
<1>6. HeardInOrder'
  <2>1. SUFFICES ASSUME NEW e \in Emitters
                 PROVE  InOrder(e)'
    BY DEF HeardInOrder
  <2>2. InOrder(e)
    BY DEF HeardInOrder
  <2>3. \A o \in steadyHooks'[e] : o \in steadyHooks[e]
    OBVIOUS
  <2>4. Ranked(ahead[e], steadyHooks[e], rank[e]) => Ranked(ahead[e], steadyHooks'[e], rank[e])
    BY <2>3, Zenon DEF Ranked
  <2>5. QED
    BY <2>2, <2>3, <2>4, Zenon DEF InOrder
<1>7. VerdictIsSum'
  BY DEF VerdictIsSum
<1>8. QED
  BY <1>1, <1>2, <1>3, <1>5, <1>6, <1>7

LEMMA KeptHooks ==
    ASSUME HookIInv, NEW those, Hook!Keep(those)
    PROVE  /\ steadyHooks' \in [Emitters -> SUBSET Objects]
           /\ \A e \in Emitters : /\ steadyHooks'[e] = steadyHooks[e] \cap those
                                  /\ steadyHooks[e] \subseteq Hooked \cap enabled
  BY DEF HookIInv, SteadyAreThere, Hook!Keep

LEMMA RegisterIInv ==
    ASSUME Hook!HooksAssumption, Hook!NamesStay, HookIInv, NEW o \in Objects, Hook!Register(o)
    PROVE  HookIInv'
<1> USE DEF HookIInv
<1>1. hooks \in Seq(Objects) /\ OneOfEachName(hooks)
  BY DEF HookRegistry
<1> DEFINE same == Hook!Called(attributes[o].name)
<1>2. \A i \in 1..Len(hooks) : hooks[i] \in same <=> Name(hooks[i]) = Name(o)
  <2>1. attributes[o].name = Name(o)
    BY AttributesAre
  <2>2. \A i \in 1..Len(hooks) : hooks[i] \in Hook!Range(hooks) /\ key[hooks[i]] = Name(hooks[i])
    BY <1>1, HookRange DEF HookRegistry, Contains
  <2>3. QED
    BY <2>1, <2>2 DEF Hook!Called
<1>3. same = {} => \A i \in 1..Len(hooks) : Name(hooks[i]) # Name(o)
  BY <1>2
<1> HIDE DEF same
<1>4. hooks' \in Seq(Objects) /\ OneOfEachName(hooks')
  <2>1. CASE same = {} /\ hooks' = Append(hooks, o)
    <3>1. /\ hooks' \in Seq(Objects) /\ Len(hooks') = Len(hooks) + 1 /\ hooks'[Len(hooks) + 1] = o
          /\ \A i \in 1..Len(hooks) : hooks'[i] = hooks[i]
      BY <1>1, <2>1
    <3>2. \A i, j \in 1..Len(hooks') : Name(hooks'[i]) = Name(hooks'[j]) => i = j
      BY <1>1, <1>3, <2>1, <3>1 DEF OneOfEachName
    <3>3. QED
      BY <3>1, <3>2 DEF OneOfEachName
  <2>2. CASE hooks' = [i \in DOMAIN hooks |-> IF hooks[i] \in same THEN o ELSE hooks[i]]
    <3>1. /\ hooks' \in Seq(Objects) /\ Len(hooks') = Len(hooks)
          /\ \A i \in 1..Len(hooks) : Name(hooks'[i]) = Name(hooks[i])
      <4>1. DOMAIN hooks = 1..Len(hooks) /\ Len(hooks) \in Nat
        BY <1>1
      <4>2. \A i \in 1..Len(hooks) : hooks'[i] \in Objects /\ Name(hooks'[i]) = Name(hooks[i])
        BY <1>1, <1>2, <2>2, <4>1
      <4>3. hooks' \in Seq(Objects) /\ Len(hooks') = Len(hooks)
        BY <1>1, <2>2, <4>1
      <4>4. QED
        BY <4>2, <4>3
    <3>2. QED
      BY <1>1, <3>1 DEF OneOfEachName
  <2>3. QED
    BY <2>1, <2>2 DEF Hook!Register, same
<1>5. /\ index' \in Hook!Indexed(hooks') /\ sorted' = Present /\ Hook!Keep(Hooked')
      /\ UNCHANGED <<key, enabled, attributes, ahead, current, emitterAt, verdict, heard, rank, stopping>>
  <2>1. key' = key
    BY AttributesAre DEF Hook!Register, HookRegistry
  <2>2. QED
    BY <2>1 DEF Hook!Register, Hook!Rebuild, Hook!emission, Hooked, Present
<1>6. /\ index' \in Seq(AllNames) /\ Ranked(index', Hooked', sorted') /\ Len(index') <= Len(hooks')
      /\ sorted' \in [Objects -> Nat]
  BY <1>4, <1>5, IndexedIs, AttributesAre DEF Hooked, Present
<1>7. QED
  BY <1>4, <1>5, <1>6, KeptHooks, OwnerStep DEF Hook!TypeOK

LEMMA UnregisterHookIInv ==
    ASSUME Hook!HooksAssumption, Hook!NamesStay, HookIInv, NEW o \in Objects, Hook!Unregister(o)
    PROVE  HookIInv'
<1> USE DEF HookIInv
<1>1. hooks \in Seq(Objects) /\ OneOfEachName(hooks) /\ DOMAIN hooks = 1..Len(hooks)
  BY DEF HookRegistry
<1>2. PICK i \in 1..Len(hooks) : hooks' = Hook!RemoveAt(hooks, i)
  BY <1>1 DEF Hook!Unregister
<1>3. hooks' = RemoveAt(hooks, i)
  BY <1>2 DEF Hook!RemoveAt, RemoveAt
<1>4. /\ hooks' \in Seq(Objects) /\ Len(hooks') = Len(hooks) - 1 /\ Len(hooks) \in Nat
      /\ \A j \in 1..Len(hooks) - 1 : hooks'[j] = IF j < i THEN hooks[j] ELSE hooks[j + 1]
  <2>1. Len(hooks) \in Nat
    BY <1>1
  <2>2. QED
    BY <1>1, <1>3, <2>1, RemoveAtProperties
<1>5. OneOfEachName(hooks')
  <2>1. SUFFICES ASSUME NEW j \in 1..Len(hooks'), NEW k \in 1..Len(hooks'),
                        Name(hooks'[j]) = Name(hooks'[k])
                 PROVE  j = k
    BY DEF OneOfEachName
  <2>2. (IF j < i THEN j ELSE j + 1) = (IF k < i THEN k ELSE k + 1)
    BY <1>1, <1>4, <2>1 DEF OneOfEachName
  <2>3. QED
    BY <1>4, <2>2
<1>6. /\ index' \in Hook!Indexed(hooks') /\ sorted' = Present /\ Hook!Keep(Hooked')
      /\ UNCHANGED <<key, enabled, attributes, ahead, current, emitterAt, verdict, heard, rank, stopping>>
  BY DEF Hook!Unregister, Hook!Rebuild, Hook!emission, Hooked, Present
<1>7. /\ index' \in Seq(AllNames) /\ Ranked(index', Hooked', sorted') /\ Len(index') <= Len(hooks')
      /\ sorted' \in [Objects -> Nat]
  BY <1>4, <1>5, <1>6, IndexedIs, AttributesAre DEF Hooked, Present
<1>8. QED
  BY <1>4, <1>5, <1>6, <1>7, KeptHooks, OwnerStep DEF Hook!TypeOK

(* A hook is configured, or the manager shuts down. *)
LEMMA ManagerIInv ==
    ASSUME HookIInv, (\E o \in Objects : Hook!Configure(o)) \/ Hook!Shutdown \/ Hook!Clear
    PROVE  HookIInv'
<1> USE DEF HookIInv
<1>1. UNCHANGED <<ahead, current, emitterAt, verdict, heard, rank, key, sorted>>
  BY DEF Hook!Configure, Hook!Shutdown, Hook!Clear, Hook!registry, Hook!emission, Hook!watch
<1>2. CASE \E o \in Objects : Hook!Configure(o)
  <2>1. /\ UNCHANGED <<hooks, index, stopping>> /\ Hook!Keep(enabled') /\ enabled' \subseteq Objects
    BY <1>2 DEF Hook!Configure, Hook!TypeOK
  <2>2. Hooked' = Hooked
    BY <2>1 DEF Hooked
  <2>3. \A o \in Objects : attributes'[o] \in Settings[o] \union {Defaults[o]}
    <3>1. PICK o \in Objects : \E s \in Settings[o] \union {attributes[o]} :
                                attributes' = [attributes EXCEPT ![o] = s]
      BY <1>2 DEF Hook!Configure
    <3>2. QED
      BY <3>1 DEF Hook!TypeOK
  <2>4. QED
    BY <1>1, <2>1, <2>2, <2>3, KeptHooks, OwnerStep DEF HookRegistry, Hook!TypeOK
<1>3. CASE Hook!Shutdown
  <2>1. UNCHANGED <<hooks, enabled, attributes, index, steadyHooks>> /\ stopping' \in BOOLEAN
    BY <1>3 DEF Hook!Shutdown, Hook!registry, Hook!watch
  <2>2. Hooked' = Hooked
    BY <2>1 DEF Hooked
  <2>3. QED
    BY <1>1, <2>1, <2>2, OwnerStep DEF HookRegistry, SteadyAreThere, Hook!TypeOK
<1>4. CASE Hook!Clear
  <2>1. /\ hooks' = <<>> /\ index' = <<>> /\ Hook!Keep({}) /\ stopping' = FALSE
        /\ UNCHANGED <<enabled, attributes>>
    BY <1>4 DEF Hook!Clear
  <2>2. /\ hooks' \in Seq(Objects) /\ index' \in Seq(AllNames) /\ Len(hooks') = 0 /\ Len(index') = 0
    BY <2>1
  <2>3. OneOfEachName(hooks') /\ Ranked(index', Hooked', sorted')
    BY <2>2 DEF OneOfEachName, Ranked
  <2>4. /\ steadyHooks' \in [Emitters -> SUBSET Objects]
        /\ \A e \in Emitters : steadyHooks'[e] \subseteq steadyHooks[e] \cap Hooked' \cap enabled'
    BY <2>1, KeptHooks
  <2>5. enabled' \subseteq Objects /\ Len(index') <= Len(hooks') /\ stopping' \in BOOLEAN
    <3>1. enabled' \subseteq Objects /\ stopping' \in BOOLEAN
      BY <2>1 DEF Hook!TypeOK
    <3>2. \A m, n : m = 0 /\ n = 0 => m <= n
      OBVIOUS
    <3>3. QED
      BY <2>2, <3>1, <3>2, Zenon
  <2>6. QED
    BY <1>1, <2>1, <2>2, <2>3, <2>4, <2>5, OwnerStep DEF HookRegistry, Hook!TypeOK
<1>5. QED
  BY <1>2, <1>3, <1>4

(* From one await of an emitter to the next: the first name ahead whose hook *)
(* is there and enabled is called, and no steady hook is passed by.         *)
LEMMA AdvanceIs ==
    ASSUME HookIInv, NEW e \in Emitters, NEW names \in Seq(AllNames), Hook!Advance(e, names),
           NEW S \in SUBSET (Hooked \cap enabled), NEW R, Ranked(names, S, R)
    PROVE  /\ ahead' \in [Emitters -> Seq(AllNames)]
           /\ current' \in [Emitters -> Objects \union {None}]
           /\ emitterAt' \in [Emitters -> {"new", "waiting", "over"}]
           /\ \A f \in Emitters \ {e} : /\ ahead'[f] = ahead[f] /\ current'[f] = current[f]
                                        /\ emitterAt'[f] = emitterAt[f]
           /\ \/ /\ emitterAt'[e] = "waiting" /\ current'[e] \in Objects
                 /\ Contains(names, Name(current'[e]))
                 /\ \A n : Contains(ahead'[e], n) => Contains(names, n)
                 /\ \A p \in S : Contains(names, Name(p))
                                  => p = current'[e] \/ Contains(ahead'[e], Name(p))
                 /\ Ranked(ahead'[e], S, R)
                 /\ \A p \in S : current'[e] \in S /\ Contains(ahead'[e], Name(p))
                                  => R[current'[e]] <= R[p]
              \/ emitterAt'[e] = "over" /\ \A p \in S : ~Contains(names, Name(p))
<1> USE DEF HookIInv
<1>1. /\ ahead \in [Emitters -> Seq(AllNames)]
      /\ current \in [Emitters -> Objects \union {None}]
      /\ emitterAt \in [Emitters -> {"new", "waiting", "over"}]
  BY DEF Emission, Hook!TypeOK
<1>2. hooks \in Seq(Objects) /\ OneOfEachName(hooks) /\ Hooked \subseteq Objects
  BY HookRange DEF HookRegistry, Hooked
<1>3. \A o, p \in Hooked : Name(o) = Name(p) => o = p
  BY <1>2, HookRange DEF OneOfEachName, Hooked, Contains
<1>4. \A n, o : o \in Hook!Called(n) <=> o \in Hooked /\ Name(o) = n
  BY <1>2 DEF Hook!Called, Hooked, HookRegistry
<1> DEFINE N == Len(names)
           next == Hook!Min(Hook!Callable(names))
<1>5. N \in Nat /\ DOMAIN names = 1..N
  OBVIOUS
<1>6. \A i \in 1..N, p \in S : names[i] = Name(p) => i \in Hook!Callable(names)
  BY <1>2, <1>4, <1>5 DEF Hook!Callable
<1>7. CASE Hook!Callable(names) = {}
  <2>1. \A p \in S : ~Contains(names, Name(p))
    BY <1>6, <1>7 DEF Contains
  <2>2. /\ ahead' = [ahead EXCEPT ![e] = <<>>]
        /\ current' = [current EXCEPT ![e] = None]
        /\ emitterAt' = [emitterAt EXCEPT ![e] = "over"]
    BY <1>7 DEF Hook!Advance
  <2>3. <<>> \in Seq(AllNames)
    OBVIOUS
  <2>4. QED
    BY <1>1, <2>1, <2>2, <2>3
<1>8. CASE Hook!Callable(names) # {}
  <2>1. /\ ahead' = [ahead EXCEPT ![e] = SubSeq(names, next + 1, N)]
        /\ emitterAt' = [emitterAt EXCEPT ![e] = "waiting"]
        /\ \E o \in Hook!Called(names[next]) : current' = [current EXCEPT ![e] = o]
    BY <1>8 DEF Hook!Advance
  <2>2. PICK o \in Hooked : Name(o) = names[next] /\ current' = [current EXCEPT ![e] = o]
    BY <1>4, <2>1
  <2>3. Hook!Callable(names) \in SUBSET Nat /\ Hook!Callable(names) \subseteq 1..N
    BY <1>5 DEF Hook!Callable
  <2>4. Hook!Min(Hook!Callable(names)) = Min(Hook!Callable(names))
    BY Zenon DEF Hook!Min, Min
  <2>5. next \in Hook!Callable(names) /\ \A i \in Hook!Callable(names) : next <= i
    BY <1>8, <2>3, <2>4, Least
  <2> HIDE DEF next, N
  <2>6. next \in 1..N
    BY <2>3, <2>5
  <2> DEFINE r == SubSeq(names, next + 1, N)
  <2>7. r \in Seq(AllNames) /\ Len(r) = N - next /\ \A i \in 1..Len(r) : r[i] = names[next + i]
    BY <1>5, <2>6, SubSeqProperties DEF N
  <2> HIDE DEF r
  <2>8. \A n : Contains(r, n) <=> \E i \in 1..N : next < i /\ names[i] = n
    <3>1. ASSUME NEW n, Contains(r, n)
          PROVE  \E i \in 1..N : next < i /\ names[i] = n
      <4>1. PICK i \in 1..Len(r) : r[i] = n
        BY <3>1 DEF Contains
      <4>2. next + i \in 1..N /\ next < next + i /\ names[next + i] = n
        BY <1>5, <2>6, <2>7, <4>1
      <4>3. QED
        BY <4>2
    <3>2. ASSUME NEW n, NEW i \in 1..N, next < i, names[i] = n
          PROVE  Contains(r, n)
      <4>1. i - next \in 1..Len(r) /\ next + (i - next) = i
        BY <1>5, <2>6, <2>7, <3>2
      <4>2. r[i - next] = n
        BY <2>7, <3>2, <4>1
      <4>3. QED
        BY <4>1, <4>2 DEF Contains
    <3>3. QED
      BY <3>1, <3>2
  <2>9. ahead'[e] = r /\ current'[e] = o /\ emitterAt'[e] = "waiting" /\ o \in Objects
    BY <1>1, <1>2, <2>1, <2>2 DEF r
  <2>10. Contains(names, Name(o)) /\ \A n : Contains(r, n) => Contains(names, n)
    BY <2>2, <2>6, <2>8 DEF Contains, N
  <2>11. ASSUME NEW p \in S, Contains(names, Name(p))
         PROVE  p = o \/ Contains(r, Name(p))
    <3>1. PICK i \in 1..N : names[i] = Name(p)
      BY <2>11 DEF Contains, N
    <3>2. next <= i
      BY <1>6, <2>5, <3>1
    <3>3. CASE i = next
      BY <1>3, <2>2, <3>1, <3>3
    <3>4. CASE i # next
      BY <1>5, <2>6, <2>8, <3>1, <3>2, <3>4
    <3>5. QED
      BY <3>3, <3>4
  <2>12. Ranked(r, S, R)
    <3>1. ASSUME NEW i \in 1..Len(r), NEW j \in 1..Len(r), i < j, NEW q \in S, NEW p \in S,
                 Name(q) = r[i], Name(p) = r[j]
          PROVE  R[q] <= R[p]
      <4>1. /\ next + i \in 1..N /\ next + j \in 1..N /\ next + i < next + j
            /\ names[next + i] = r[i] /\ names[next + j] = r[j]
        BY <1>5, <2>6, <2>7, <3>1
      <4>2. QED
        BY <3>1, <4>1 DEF Ranked, N
    <3>2. QED
      BY <3>1 DEF Ranked
  <2>13. ASSUME NEW p \in S, o \in S, Contains(r, Name(p))
         PROVE  R[o] <= R[p]
    <3>1. PICK i \in 1..N : next < i /\ names[i] = Name(p)
      BY <2>8, <2>13
    <3>2. QED
      BY <2>2, <2>6, <2>13, <3>1 DEF Ranked, N
  <2>14. /\ ahead' \in [Emitters -> Seq(AllNames)]
         /\ current' \in [Emitters -> Objects \union {None}]
         /\ emitterAt' \in [Emitters -> {"new", "waiting", "over"}]
         /\ \A f \in Emitters \ {e} : /\ ahead'[f] = ahead[f] /\ current'[f] = current[f]
                                      /\ emitterAt'[f] = emitterAt[f]
    BY <1>1, <1>2, <2>1, <2>2, <2>7 DEF r
  <2>15. QED
    BY <2>9, <2>10, <2>11, <2>12, <2>13, <2>14
<1>9. QED
  BY <1>7, <1>8

(* An emitter goes on with these names before it: what it has heard, and    *)
(* the verdict, are as they were or have one answer more.                   *)
LEMMA GoesOn ==
    ASSUME HookIInv, NEW e \in Emitters, NEW names \in Seq(AllNames), Hook!Advance(e, names),
           UNCHANGED <<hooks, key, enabled, attributes, index, sorted, stopping>>,
           steadyHooks' \in [Emitters -> SUBSET Objects], rank' \in [Emitters -> [Objects -> Nat]],
           heard' \in [Emitters -> Seq([hook : Objects, answer : Answers])],
           verdict' \in [Emitters -> [decision : Answers, denier : Objects \union {None},
                                     content : Objects \union {None}]],
           \A f \in Emitters \ {e} : /\ steadyHooks'[f] = steadyHooks[f] /\ heard'[f] = heard[f]
                                     /\ rank'[f] = rank[f] /\ verdict'[f] = verdict[f],
           steadyHooks'[e] \subseteq Hooked \cap enabled,
           Ranked(names, steadyHooks'[e], rank'[e]),
           \A o \in steadyHooks'[e] : o \in Hook!Heard(e)' \/ Contains(names, Name(o)),
           \A i, j \in 1..Len(heard'[e]) :
              i < j /\ heard'[e][i].hook \in steadyHooks'[e] /\ heard'[e][j].hook \in steadyHooks'[e]
                  => rank'[e][heard'[e][i].hook] <= rank'[e][heard'[e][j].hook],
           \A i \in 1..Len(heard'[e]), o \in steadyHooks'[e] :
              heard'[e][i].hook \in steadyHooks'[e] /\ Contains(names, Name(o))
                  => rank'[e][heard'[e][i].hook] <= rank'[e][o],
           Sums(verdict'[e], heard'[e])
    PROVE  HookIInv'
<1> USE DEF HookIInv
<1> DEFINE S == steadyHooks'[e]
           R == rank'[e]
<1>1. S \in SUBSET (Hooked \cap enabled) /\ Ranked(names, S, R)
  OBVIOUS
<1>2. /\ ahead' \in [Emitters -> Seq(AllNames)]
      /\ current' \in [Emitters -> Objects \union {None}]
      /\ emitterAt' \in [Emitters -> {"new", "waiting", "over"}]
      /\ \A f \in Emitters \ {e} : /\ ahead'[f] = ahead[f] /\ current'[f] = current[f]
                                   /\ emitterAt'[f] = emitterAt[f]
  BY <1>1, AdvanceIs
<1>3. \/ /\ emitterAt'[e] = "waiting" /\ current'[e] \in Objects
         /\ Contains(names, Name(current'[e]))
         /\ \A n : Contains(ahead'[e], n) => Contains(names, n)
         /\ \A p \in S : Contains(names, Name(p))
                          => p = current'[e] \/ Contains(ahead'[e], Name(p))
         /\ Ranked(ahead'[e], S, R)
         /\ \A p \in S : current'[e] \in S /\ Contains(ahead'[e], Name(p))
                          => R[current'[e]] <= R[p]
      \/ emitterAt'[e] = "over" /\ \A p \in S : ~Contains(names, Name(p))
  BY <1>1, AdvanceIs
<1>4. \A f \in Emitters : verdict'[f].decision \in Answers
  OBVIOUS
<1>5. Hook!TypeOK'
  BY <1>2, <1>4 DEF Hook!TypeOK, Answers
<1>6. HookRegistry' /\ Hooked' = Hooked
  BY DEF HookRegistry, Hooked
<1>7. SteadyAreThere'
  BY <1>6 DEF SteadyAreThere
<1>8. Emission'
  BY <1>2, <1>3 DEF Emission
<1>9. \A f \in Emitters \ {e} : Hook!Heard(f)' = Hook!Heard(f)
  BY DEF Hook!Heard
<1>10. HeardOrAhead'
  <2>1. SUFFICES ASSUME NEW f \in Emitters
                 PROVE  (/\ emitterAt[f] = "waiting" =>
                               \A o \in steadyHooks[f] : \/ o \in Hook!Heard(f) \/ o = current[f]
                                                        \/ Contains(ahead[f], Name(o))
                         /\ emitterAt[f] = "over" => steadyHooks[f] \subseteq Hook!Heard(f))'
    BY DEF HeardOrAhead
  <2>2. CASE f = e
    BY <1>3, <2>2
  <2>3. CASE f # e
    <3>1. /\ ahead'[f] = ahead[f] /\ current'[f] = current[f] /\ emitterAt'[f] = emitterAt[f]
          /\ Hook!Heard(f)' = Hook!Heard(f) /\ steadyHooks'[f] = steadyHooks[f]
      BY <1>2, <1>9, <2>3
    <3>2. QED
      BY <3>1 DEF HeardOrAhead
  <2>4. QED
    BY <2>2, <2>3
<1>11. HeardInOrder'
  <2>1. SUFFICES ASSUME NEW f \in Emitters
                 PROVE  InOrder(f)'
    BY DEF HeardInOrder
  <2>2. CASE f = e
    BY <1>3, <2>2 DEF InOrder
  <2>3. CASE f # e
    <3>1. /\ ahead'[f] = ahead[f] /\ current'[f] = current[f] /\ emitterAt'[f] = emitterAt[f]
          /\ heard'[f] = heard[f] /\ steadyHooks'[f] = steadyHooks[f] /\ rank'[f] = rank[f]
      BY <1>2, <2>3
    <3>2. InOrder(f)
      BY DEF HeardInOrder
    <3>3. QED
      BY <3>1, <3>2, Zenon DEF InOrder
  <2>4. QED
    BY <2>2, <2>3
<1>12. VerdictIsSum'
  <2>1. \A f \in Emitters : Sums(verdict[f], heard[f])
    BY DEF VerdictIsSum
  <2>2. \A f \in Emitters : Sums(verdict'[f], heard'[f])
    BY <2>1, Zenon
  <2>3. QED
    BY <2>2 DEF VerdictIsSum, Sums
<1>13. QED
  BY <1>5, <1>6, <1>7, <1>8, <1>10, <1>11, <1>12

(* execute_hooks begins: nothing is heard yet, and all steady hooks are ahead. *)
LEMMA EmitIInv ==
    ASSUME Hook!HooksAssumption, HookIInv, NEW e \in Emitters, Hook!Emit(e)
    PROVE  HookIInv'
<1> USE DEF HookIInv
<1> DEFINE S == {o \in Hooked \cap enabled :
                    attributes[o].subscribes /\ key[o] \in Hook!Range(index)}
<1>1. /\ emitterAt[e] = "new" /\ Hook!Advance(e, index) /\ steadyHooks' = [steadyHooks EXCEPT ![e] = S]
      /\ rank' = [rank EXCEPT ![e] = sorted]
      /\ UNCHANGED <<hooks, key, enabled, attributes, index, sorted, verdict, heard, stopping>>
  BY DEF Hook!Emit, Hook!registry, Hooked
<1>2. /\ index \in Seq(AllNames) /\ Ranked(index, Hooked, sorted) /\ Hooked \subseteq Objects
      /\ heard[e] = <<>> /\ Len(heard[e]) = 0
  BY <1>1, HookRange DEF HookRegistry, Hooked, Emission
<1>3. S \subseteq Hooked \cap enabled /\ Ranked(index, S, sorted) /\ S \subseteq Objects
  BY <1>2 DEF Ranked
<1>4. \A o \in S : Contains(index, Name(o))
  BY <1>2, HookRange DEF HookRegistry
<1> HIDE DEF S
<1>5. /\ steadyHooks' \in [Emitters -> SUBSET Objects] /\ steadyHooks'[e] = S
      /\ rank' \in [Emitters -> [Objects -> Nat]] /\ rank'[e] = sorted
      /\ \A f \in Emitters \ {e} : steadyHooks'[f] = steadyHooks[f] /\ rank'[f] = rank[f]
  BY <1>1, <1>3 DEF SteadyAreThere, HookRegistry
<1>6. Sums(verdict'[e], heard'[e])
  BY <1>1 DEF VerdictIsSum
<1>7. /\ heard' \in [Emitters -> Seq([hook : Objects, answer : Answers])]
      /\ verdict' \in [Emitters -> [decision : Answers, denier : Objects \union {None},
                                  content : Objects \union {None}]]
  BY <1>1 DEF Emission
<1>8. \A f \in Emitters : heard'[f] = heard[f] /\ verdict'[f] = verdict[f]
  BY <1>1
<1>9. \A o \in steadyHooks'[e] : o \in Hook!Heard(e)' \/ Contains(index, Name(o))
  BY <1>4, <1>5
<1>10. 1..Len(heard'[e]) = {}
  BY <1>2, <1>8
<1>11. QED
  BY <1>1, <1>2, <1>3, <1>5, <1>6, <1>7, <1>8, <1>9, <1>10, GoesOn

(* An answer more, and the verdict is still the sum. *)
LEMMA MergedSums ==
    ASSUME None \notin Objects,
           NEW v \in [decision : Answers, denier : Objects \union {None}, content : Objects \union {None}],
           NEW answers \in Seq([hook : Objects, answer : Answers]), Sums(v, answers),
           NEW o \in Objects, NEW a \in Answers
    PROVE  /\ Hook!Merged(v, o, a) \in [decision : Answers, denier : Objects \union {None},
                                       content : Objects \union {None}]
           /\ Sums(Hook!Merged(v, o, a), Append(answers, [hook |-> o, answer |-> a]))
<1> DEFINE n == Len(answers)
           entry == [hook |-> o, answer |-> a]
           more == Append(answers, entry)
           w == Hook!Merged(v, o, a)
           before == {i \in 1..n : answers[i].answer = "deny"}
           after == {i \in 1..Len(more) : more[i].answer = "deny"}
<1>1. n \in Nat /\ Len(more) = n + 1 /\ more[n + 1] = entry /\ \A i \in 1..n : more[i] = answers[i]
  OBVIOUS
<1>2. /\ v.decision = "deny" <=> before # {}
      /\ before = {} => v.denier = None
      /\ before # {} => \E i \in before : v.denier = answers[i].hook /\ \A j \in before : i <= j
      /\ v.decision = "modify" => v.content # None
  BY DEF Sums
<1>3. \A i \in before : answers[i].hook \in Objects
  <2>1. \A i \in 1..n : answers[i] \in [hook : Objects, answer : Answers]
    BY ElementOfSeq
  <2>2. QED
    BY <2>1
<1>4. /\ w.decision = IF a = "allow" \/ v.decision = "deny" THEN v.decision ELSE a
      /\ w.denier = IF a = "deny" /\ v.denier = None THEN o ELSE v.denier
      /\ w.content = IF a = "modify" THEN o ELSE v.content
      /\ w \in [decision : Answers, denier : Objects \union {None}, content : Objects \union {None}]
  BY DEF Hook!Merged, Answers
<1> HIDE DEF w
<1>5. a = "deny" => after = before \union {n + 1}
  BY <1>1
<1>6. a # "deny" => after = before
  BY <1>1
<1>7. \A i \in before : i \in 1..n /\ i <= n + 1 /\ more[i] = answers[i]
  BY <1>1
<1> HIDE DEF before, after, more, n
<1>8. a \in {"allow", "modify", "deny"}
  BY DEF Answers
<1>9. /\ w.decision = "deny" <=> after # {}
      /\ after = {} => w.denier = None
      /\ w.decision = "modify" => w.content # None
  BY <1>2, <1>4, <1>5, <1>6, <1>8
<1>10. ASSUME after # {}
       PROVE  \E i \in after : w.denier = more[i].hook /\ \A j \in after : i <= j
  <2>1. CASE before # {}
    <3>1. PICK i \in before : v.denier = answers[i].hook /\ \A j \in before : i <= j
      BY <1>2, <2>1
    <3>2. w.denier = more[i].hook
      BY <1>3, <1>4, <1>7, <3>1
    <3>3. i \in after /\ \A j \in after : i <= j
      BY <1>5, <1>6, <1>7, <3>1
    <3>4. QED
      BY <3>2, <3>3
  <2>2. CASE before = {}
    <3>1. a = "deny" /\ after = {n + 1} /\ v.denier = None
      BY <1>2, <1>5, <1>6, <1>10, <2>2
    <3>2. w.denier = o /\ more[n + 1].hook = o
      BY <1>1, <1>4, <3>1
    <3>3. n + 1 <= n + 1
      BY <1>1
    <3>4. QED
      BY <3>1, <3>2, <3>3
  <2>3. QED
    BY <2>1, <2>2
<1>11. Sums(w, more)
  BY <1>9, <1>10 DEF Sums, after
<1>12. QED
  BY <1>4, <1>11 DEF w, more

(* A hook answers, and the emitter goes on with the names ahead.            *)
LEMMA HearIInv ==
    ASSUME Hook!HooksAssumption, HookIInv, NEW e \in Emitters, NEW a \in Answers, Hook!Hear(e, a)
    PROVE  HookIInv'
<1> USE DEF HookIInv
<1> DEFINE c == current[e]
           entry == [hook |-> c, answer |-> a]
           h == heard[e]
           n == Len(h)
           S == steadyHooks[e]
           R == rank[e]
<1>1. /\ emitterAt[e] = "waiting" /\ Hook!Advance(e, ahead[e])
      /\ heard' = [heard EXCEPT ![e] = Append(h, entry)]
      /\ verdict' = [verdict EXCEPT ![e] = Hook!Merged(verdict[e], c, a)]
      /\ UNCHANGED <<hooks, key, enabled, attributes, index, sorted, steadyHooks, rank, stopping>>
  BY DEF Hook!Hear, Hook!registry, Hook!watch, Emission
<1>2. /\ c \in Objects /\ h \in Seq([hook : Objects, answer : Answers]) /\ n \in Nat
      /\ entry \in [hook : Objects, answer : Answers] /\ ahead[e] \in Seq(AllNames)
  <2>1. c \in Objects /\ h \in Seq([hook : Objects, answer : Answers]) /\ ahead[e] \in Seq(AllNames)
    BY <1>1 DEF Emission
  <2> HIDE DEF c, h
  <2>2. n \in Nat
    BY <2>1
  <2>3. entry \in [hook : Objects, answer : Answers]
    BY <2>1
  <2>4. QED
    BY <2>1, <2>2, <2>3
<1>3. /\ heard' \in [Emitters -> Seq([hook : Objects, answer : Answers])]
      /\ heard'[e] = Append(h, entry)
      /\ \A f \in Emitters \ {e} : heard'[f] = heard[f]
  <2>1. Append(h, entry) \in Seq([hook : Objects, answer : Answers])
    BY <1>2
  <2>2. QED
    BY <1>1, <2>1 DEF Emission
<1>4. Len(heard'[e]) = n + 1 /\ heard'[e][n + 1] = entry /\ \A i \in 1..n : heard'[e][i] = h[i]
  BY <1>2, <1>3
<1>5. /\ verdict[e] \in [decision : Answers, denier : Objects \union {None},
                         content : Objects \union {None}]
      /\ Sums(verdict[e], h)
  BY DEF Emission, VerdictIsSum
<1>6. /\ Hook!Merged(verdict[e], c, a) \in [decision : Answers, denier : Objects \union {None},
                                           content : Objects \union {None}]
      /\ Sums(Hook!Merged(verdict[e], c, a), Append(h, entry))
  BY <1>2, <1>5, MergedSums, HooksAre
<1>7. /\ verdict' \in [Emitters -> [decision : Answers, denier : Objects \union {None},
                                    content : Objects \union {None}]]
      /\ verdict'[e] = Hook!Merged(verdict[e], c, a)
      /\ \A f \in Emitters \ {e} : verdict'[f] = verdict[f]
  BY <1>1, <1>6 DEF Emission
<1>8. /\ steadyHooks' \in [Emitters -> SUBSET Objects] /\ S \subseteq Hooked \cap enabled
      /\ \A f \in Emitters : steadyHooks'[f] = steadyHooks[f] /\ rank'[f] = rank[f]
      /\ rank' \in [Emitters -> [Objects -> Nat]]
  BY <1>1 DEF SteadyAreThere
<1>9. /\ \A i, j \in 1..n : i < j /\ h[i].hook \in S /\ h[j].hook \in S
                              => R[h[i].hook] <= R[h[j].hook]
      /\ Ranked(ahead[e], S, R)
      /\ \A i \in 1..n, o \in S : h[i].hook \in S /\ (o = c \/ Contains(ahead[e], Name(o)))
                                  => R[h[i].hook] <= R[o]
      /\ \A o \in S : c \in S /\ Contains(ahead[e], Name(o)) => R[c] <= R[o]
  BY <1>1 DEF HeardInOrder, InOrder
<1>10. \A o \in S : o \in Hook!Heard(e) \/ o = c \/ Contains(ahead[e], Name(o))
  BY <1>1 DEF HeardOrAhead
<1>11. entry.hook = c
  OBVIOUS
<1>12. Hook!Heard(e) \union {c} \subseteq Hook!Heard(e)'
  <2>1. \A i \in 1..n : i \in DOMAIN heard'[e] /\ heard'[e][i] = h[i]
    BY <1>2, <1>3, <1>4
  <2>2. n + 1 \in DOMAIN heard'[e] /\ heard'[e][n + 1].hook = c
    BY <1>2, <1>3, <1>4
  <2>3. DOMAIN h = 1..n
    BY <1>2
  <2> HIDE DEF n, c, entry
  <2>4. QED
    BY <2>1, <2>2, <2>3 DEF Hook!Heard
<1> HIDE DEF c, entry, h, n, S, R
<1>13. ASSUME NEW i \in 1..(n + 1)
       PROVE  \/ i \in 1..n /\ heard'[e][i].hook = h[i].hook
              \/ i = n + 1 /\ heard'[e][i].hook = c
  <2>1. CASE i \in 1..n
    BY <1>4, <2>1
  <2>2. CASE i = n + 1
    BY <1>4, <1>11, <2>2
  <2>3. QED
    BY <1>2, <2>1, <2>2
<1>14. ASSUME NEW i \in 1..Len(heard'[e]), NEW j \in 1..Len(heard'[e]), i < j,
              heard'[e][i].hook \in S, heard'[e][j].hook \in S
       PROVE  R[heard'[e][i].hook] <= R[heard'[e][j].hook]
  <2>1. i \in 1..n /\ heard'[e][i].hook = h[i].hook
    BY <1>2, <1>4, <1>13, <1>14
  <2>2. CASE j \in 1..n /\ heard'[e][j].hook = h[j].hook
    BY <1>9, <1>14, <2>1, <2>2
  <2>3. CASE heard'[e][j].hook = c
    BY <1>9, <1>14, <2>1, <2>3
  <2>4. QED
    BY <1>4, <1>13, <2>2, <2>3
<1>15. ASSUME NEW i \in 1..Len(heard'[e]), NEW o \in S, heard'[e][i].hook \in S,
              Contains(ahead[e], Name(o))
       PROVE  R[heard'[e][i].hook] <= R[o]
  <2>1. CASE i \in 1..n /\ heard'[e][i].hook = h[i].hook
    BY <1>9, <1>15, <2>1
  <2>2. CASE heard'[e][i].hook = c
    BY <1>9, <1>15, <2>2
  <2>3. QED
    BY <1>4, <1>13, <2>1, <2>2
<1>16. \A o \in S : o \in Hook!Heard(e)' \/ Contains(ahead[e], Name(o))
  BY <1>10, <1>12
<1>17. steadyHooks'[e] = S /\ rank'[e] = R /\ Sums(verdict'[e], heard'[e])
  BY <1>3, <1>6, <1>7, <1>8 DEF S, R
<1>18. \A i, j \in 1..Len(heard'[e]) :
          i < j /\ heard'[e][i].hook \in steadyHooks'[e] /\ heard'[e][j].hook \in steadyHooks'[e]
              => rank'[e][heard'[e][i].hook] <= rank'[e][heard'[e][j].hook]
  BY <1>14, <1>17, Zenon
<1>19. \A i \in 1..Len(heard'[e]), o \in steadyHooks'[e] :
          heard'[e][i].hook \in steadyHooks'[e] /\ Contains(ahead[e], Name(o))
              => rank'[e][heard'[e][i].hook] <= rank'[e][o]
  BY <1>15, <1>17, Zenon
<1>20. /\ steadyHooks'[e] \subseteq Hooked \cap enabled /\ Ranked(ahead[e], steadyHooks'[e], rank'[e])
       /\ \A o \in steadyHooks'[e] : o \in Hook!Heard(e)' \/ Contains(ahead[e], Name(o))
  BY <1>8, <1>9, <1>16, <1>17
<1>21. QED
  BY <1>1, <1>2, <1>3, <1>7, <1>8, <1>17, <1>18, <1>19, <1>20, GoesOn

LEMMA HookNextIInv ==
    ASSUME Hook!HooksAssumption, Hook!NamesStay, HookIInv, [Hook!Next]_(Hook!vars)
    PROVE  HookIInv'
<1>1. ASSUME NEW o \in Objects, Hook!Register(o)
      PROVE  HookIInv'
  BY <1>1, RegisterIInv
<1>2. ASSUME NEW o \in Objects, Hook!Unregister(o)
      PROVE  HookIInv'
  BY <1>2, UnregisterHookIInv
<1>3. ASSUME (\E o \in Objects : Hook!Configure(o)) \/ Hook!Shutdown \/ Hook!Clear
      PROVE  HookIInv'
  BY <1>3, ManagerIInv
<1>4. ASSUME NEW e \in Emitters, Hook!Emit(e)
      PROVE  HookIInv'
  BY <1>4, EmitIInv
<1>5. ASSUME NEW e \in Emitters, Hook!Answer(e) \/ Hook!Fail(e)
      PROVE  HookIInv'
  <2>1. PICK a \in Answers : Hook!Hear(e, a)
    BY <1>5 DEF Hook!Answer, Hook!Fail, Answers
  <2>2. QED
    BY <2>1, HearIInv
<1>6. CASE UNCHANGED Hook!vars
  <2>1. UNCHANGED <<hooks, key, enabled, attributes, index, sorted, ahead, current, emitterAt, verdict,
                  heard, steadyHooks, rank, stopping>>
    BY <1>6 DEF Hook!vars, Hook!registry, Hook!emission, Hook!watch
  <2>2. Hooked' = Hooked /\ \A e : Hook!Heard(e)' = Hook!Heard(e)
    BY <2>1 DEF Hooked, Hook!Heard
  <2>3. Hook!TypeOK' /\ HookRegistry' /\ Emission' /\ SteadyAreThere'
    BY <2>1, <2>2 DEF HookIInv, Hook!TypeOK, HookRegistry, Emission, SteadyAreThere
  <2>4. HeardOrAhead' /\ HeardInOrder' /\ VerdictIsSum'
    BY <2>1, <2>2 DEF HookIInv, HeardOrAhead, HeardInOrder, InOrder, Ranked, VerdictIsSum
  <2>5. QED
    BY <2>3, <2>4 DEF HookIInv
<1>7. QED
  BY <1>1, <1>2, <1>3, <1>4, <1>5, <1>6 DEF Hook!Next, Hook!Owner, Hook!Execute

LEMMA HookSafe ==
    ASSUME HookIInv
    PROVE  HooksAreHeard
<1> USE DEF HookIInv
<1>1. \A e \in Emitters : heard[e] \in Seq([hook : Objects, answer : Answers])
  BY DEF Emission
<1>2. Hook!SteadyHooksAreHeard
  BY <1>1 DEF Hook!SteadyHooksAreHeard, HeardOrAhead, HeardInOrder, InOrder
<1>3. Hook!DenialStands
  <2>1. SUFFICES ASSUME NEW e \in Emitters
                 PROVE  LET denials == {i \in DOMAIN heard[e] : heard[e][i].answer = "deny"}
                        IN /\ verdict[e].decision = "deny" <=> denials # {}
                           /\ denials # {} => verdict[e].denier = heard[e][Hook!Min(denials)].hook
                           /\ verdict[e].decision = "modify" => verdict[e].content # None
    BY DEF Hook!DenialStands
  <2> DEFINE denials == {i \in DOMAIN heard[e] : heard[e][i].answer = "deny"}
  <2>2. DOMAIN heard[e] = 1..Len(heard[e]) /\ denials \in SUBSET Nat
    BY <1>1
  <2>3. /\ verdict[e].decision = "deny" <=> denials # {}
        /\ denials # {} =>
              \E i \in denials : verdict[e].denier = heard[e][i].hook /\ \A j \in denials : i <= j
        /\ verdict[e].decision = "modify" => verdict[e].content # None
    BY <2>2 DEF VerdictIsSum, Sums
  <2> HIDE DEF denials
  <2>4. ASSUME denials # {}
        PROVE  verdict[e].denier = heard[e][Hook!Min(denials)].hook
    <3>1. PICK i \in denials : verdict[e].denier = heard[e][i].hook /\ \A j \in denials : i <= j
      BY <2>3, <2>4
    <3>2. Min(denials) \in denials /\ \A j \in denials : Min(denials) <= j
      BY <2>2, <2>4, Least
    <3>3. i <= Min(denials) /\ Min(denials) <= i /\ i \in Nat /\ Min(denials) \in Nat
      BY <2>2, <3>1, <3>2
    <3>4. Hook!Min(denials) = Min(denials)
      BY Zenon DEF Hook!Min, Min
    <3>5. i = Hook!Min(denials)
      BY <3>3, <3>4
    <3>6. QED
      BY <3>1, <3>5
  <2>5. QED
    BY <2>3, <2>4 DEF denials
<1>4. QED
  BY <1>2, <1>3 DEF HooksAreHeard

-----------------------------------------------------------------------------
(* The registry of devices.                                                *)

There == Node!Range(nodes)

Registry ==
    /\ nodes \in Seq(Nodes) /\ IsInjective(nodes)
    /\ \A n \in There : device[n] \in Devices
    /\ \A m, n \in There : device[m] = device[n] => m = n

Sendings ==
    /\ rest \in [Senders -> Seq(Devices)]
    /\ told \in [Senders -> SUBSET Nodes]
    /\ \A t \in Senders :
          senderAt[t] = "sending" => sending[t] \in Nodes /\ device[sending[t]] \in Devices

(* Who has been steady is there, and connected. *)
SteadyIsThere ==
    /\ steadyNodes \in [Senders -> SUBSET Nodes]
    /\ \A t \in Senders : steadyNodes[t] \subseteq There \cap connected

(* A steady node has been told, or its device is before the iterator, also   *)
(* of an iterator that will raise.                                         *)
ToldOrAhead ==
    \A t \in Senders :
        /\ kind[t] = "all" /\ senderAt[t] = "sending" =>
              \A n \in steadyNodes[t] : n \in told[t] \/ Contains(rest[t], device[n])
        /\ kind[t] = "all" /\ senderAt[t] = "over" => steadyNodes[t] \subseteq told[t]

NodeIInv == Node!TypeOK /\ Registry /\ Sendings /\ SteadyIsThere /\ ToldOrAhead

(* Facts about the constants. *)
LEMMA NodesAre ==
    ASSUME Node!NodesAssumption
    PROVE  MaxNodes \in Nat \ {0} /\ None \notin Nodes /\ None \notin Devices
  BY DEF Node!NodesAssumption

(* What Range says of a sequence. *)
LEMMA NodeRange ==
    ASSUME NEW S, NEW s \in Seq(S)
    PROVE  /\ Node!Range(s) \subseteq S
           /\ \A e : e \in Node!Range(s) <=> Contains(s, e)
  BY DEF Node!Range, Contains

LEMMA NodeInitIInv ==
    ASSUME Node!NodesAssumption, Node!Init
    PROVE  NodeIInv
<1>1. nodes \in Seq(Nodes) /\ IsInjective(nodes) /\ There = {} /\ Len(nodes) = 0
  BY EmptyQueue, NodeRange DEF Node!Init, There
<1>2. rest \in [Senders -> Seq(Devices)] /\ \A t \in Senders : Node!Range(rest[t]) \subseteq Devices
  BY EmptySeq, NodeRange DEF Node!Init
<1>3. Len(nodes) <= MaxNodes
  BY <1>1 DEF Node!NodesAssumption
<1>4. Node!TypeOK
  BY <1>1, <1>2, <1>3 DEF Node!Init, Node!TypeOK, There
<1>5. QED
  BY <1>1, <1>2, <1>4 DEF NodeIInv, Registry, Sendings, SteadyIsThere, ToldOrAhead, Node!Init

(* What is kept of the dict. *)
LEMMA KeptIs ==
    ASSUME nodes \in Seq(Nodes), IsInjective(nodes), NEW those, NEW s \in Node!Kept(those)
    PROVE  /\ s \in Seq(Nodes) /\ IsInjective(s) /\ Len(s) <= Len(nodes)
           /\ \A e : Contains(s, e) <=> Contains(nodes, e) /\ e \in those
           /\ \A e : Contains(nodes, e) /\ e \notin those => Len(s) < Len(nodes)
<1> DEFINE P == {i \in DOMAIN nodes : nodes[i] \in those}
<1>1. Node!SetToSeqs(P) = SetToSeqs(P)
  BY Zenon DEF Node!SetToSeqs, SetToSeqs, Node!Cardinality, Cardinality
<1>2. PICK p \in SetToSeqs(P) : s = [a \in DOMAIN p |-> nodes[p[a]]]
  BY <1>1 DEF Node!Kept
<1>3. DOMAIN nodes = 1..Len(nodes) /\ Len(nodes) \in Nat
  OBVIOUS
<1>4. IsFiniteSet(1..Len(nodes)) /\ Cardinality(1..Len(nodes)) = Len(nodes)
  BY <1>3, FS_Interval
<1>5. /\ IsFiniteSet(P) /\ Cardinality(P) \in Nat /\ Cardinality(P) <= Len(nodes)
      /\ Cardinality(P) = Len(nodes) => P = 1..Len(nodes)
  BY <1>3, <1>4, FS_Subset, FS_CardinalityType
<1> DEFINE n == Cardinality(P)
<1>6. p \in [1..n -> P] /\ \A a, b \in 1..n : p[a] = p[b] => a = b
  BY <1>2 DEF SetToSeqs
<1>7. \A i \in P : \E a \in 1..n : p[a] = i
  <2>1. p \in Injection(1..n, P)
    BY <1>6 DEF Injection, IsInjective
  <2>2. IsFiniteSet(1..n) /\ Cardinality(1..n) = n
    BY <1>5, FS_Interval
  <2>3. p \in Surjection(1..n, P)
    BY <1>5, <2>1, <2>2, FS_Injection
  <2>4. QED
    BY <2>3 DEF Surjection
<1>8. \A i \in P : i \in 1..Len(nodes) /\ nodes[i] \in those /\ nodes[i] \in Nodes
  BY <1>3
<1>9. \A e : Contains(nodes, e) /\ e \in those => \E i \in P : nodes[i] = e
  BY <1>3 DEF Contains
<1>10. \A i, j \in P : nodes[i] = nodes[j] => i = j
  BY DEF IsInjective
<1>11. \A e : Contains(nodes, e) /\ e \notin those => P # 1..Len(nodes)
  BY DEF Contains
<1> HIDE DEF P, n
<1>12. s = [a \in 1..n |-> nodes[p[a]]] /\ n \in Nat
  BY <1>2, <1>5, <1>6 DEF n
<1>13. s \in Seq(Nodes) /\ Len(s) = n
  BY <1>6, <1>8, <1>12
<1>14. IsInjective(s)
  BY <1>6, <1>10, <1>12 DEF IsInjective
<1>15. \A e : Contains(s, e) <=> Contains(nodes, e) /\ e \in those
  <2>1. ASSUME NEW e, Contains(s, e)
        PROVE  Contains(nodes, e) /\ e \in those
    <3>1. PICK a \in 1..n : nodes[p[a]] = e
      BY <1>12, <1>13, <2>1 DEF Contains
    <3>2. QED
      BY <1>6, <1>8, <3>1 DEF Contains
  <2>2. ASSUME NEW e, Contains(nodes, e), e \in those
        PROVE  Contains(s, e)
    <3>1. PICK i \in P : nodes[i] = e
      BY <1>9, <2>2
    <3>2. PICK a \in 1..n : p[a] = i
      BY <1>7
    <3>3. QED
      BY <1>12, <1>13, <3>1, <3>2 DEF Contains
  <2>3. QED
    BY <2>1, <2>2
<1>16. QED
  BY <1>3, <1>5, <1>11, <1>13, <1>14, <1>15 DEF n

(* The registry changes under the senders. *)
LEMMA DeviceStep ==
    ASSUME NodeIInv, UNCHANGED <<kind, rest, sending, lost, senderAt, told>>,
           nodes' \in Seq(Nodes), IsInjective(nodes'), Len(nodes') <= MaxNodes,
           device' \in [Nodes -> Devices \union {None}], connected' \subseteq Nodes,
           \A n \in Nodes : device[n] \in Devices => device'[n] = device[n],
           \A n \in There' : device'[n] \in Devices,
           \A m, n \in There' : device'[m] = device'[n] => m = n,
           steadyNodes' \in [Senders -> SUBSET Nodes],
           \A t \in Senders : steadyNodes'[t] \subseteq steadyNodes[t] \cap There' \cap connected'
    PROVE  NodeIInv'
<1> USE DEF NodeIInv
<1>1. Registry' /\ SteadyIsThere'
  BY DEF Registry, SteadyIsThere
<1>2. Node!Range(nodes') \subseteq Nodes
  BY NodeRange
<1>3. Node!TypeOK'
  BY <1>2 DEF Node!TypeOK
<1>4. Sendings'
  BY DEF Sendings
<1>5. \A t \in Senders : \A n \in steadyNodes'[t] : n \in steadyNodes[t] /\ device'[n] = device[n]
  BY DEF SteadyIsThere, Registry
<1>6. ToldOrAhead'
  BY <1>5 DEF ToldOrAhead
<1>7. QED
  BY <1>1, <1>3, <1>4, <1>6

LEMMA KeepIs ==
    ASSUME NodeIInv, Node!Keep
    PROVE  /\ steadyNodes' \in [Senders -> SUBSET Nodes]
           /\ \A t \in Senders : steadyNodes'[t] = steadyNodes[t] \cap There' \cap connected'
  BY DEF NodeIInv, SteadyIsThere, Node!Keep, There

LEMMA UpdateIInv ==
    ASSUME Node!NodesAssumption, NodeIInv, NEW n \in Nodes, Node!Update(n)
    PROVE  NodeIInv'
<1> USE DEF NodeIInv
<1>1. PICK others \in Node!Kept(Nodes \ {n}) : nodes' = Append(others, n)
  BY DEF Node!Update, Node!Reorder
<1>2. Contains(nodes, n) /\ nodes \in Seq(Nodes) /\ IsInjective(nodes)
  BY NodeRange DEF Node!Update, Registry
<1>3. /\ others \in Seq(Nodes) /\ IsInjective(others) /\ Len(others) < Len(nodes)
      /\ \A e : Contains(others, e) <=> Contains(nodes, e) /\ e \in Nodes \ {n}
  BY <1>1, <1>2, KeptIs
<1>4. /\ nodes' \in Seq(Nodes) /\ IsInjective(nodes')
      /\ \A e : Contains(nodes', e) <=> Contains(others, e) \/ e = n
  BY <1>1, <1>3, AppendQueue
<1>5. Len(nodes') <= MaxNodes
  <2>1. Len(nodes') = Len(others) + 1 /\ Len(others) \in Nat /\ Len(nodes) \in Nat
    BY <1>1, <1>2, <1>3
  <2>2. Len(nodes) <= MaxNodes
    BY DEF Node!TypeOK
  <2>3. Len(nodes') <= Len(nodes)
    BY <1>3, <2>1
  <2>4. QED
    BY <2>1, <2>2, <2>3, NodesAre
<1>6. There' = There
  <2>1. \A e : e \in There' <=> Contains(nodes', e)
    BY <1>4, NodeRange DEF There
  <2>2. \A e : e \in There <=> Contains(nodes, e)
    BY <1>2, NodeRange DEF There
  <2>3. \A e : Contains(nodes, e) => e \in Nodes
    BY <1>2 DEF Contains
  <2>4. QED
    BY <1>2, <1>3, <1>4, <2>1, <2>2, <2>3
<1>7. QED
  BY <1>4, <1>5, <1>6, DeviceStep DEF Node!Update, Node!senders, Node!TypeOK, Registry, SteadyIsThere

LEMMA InsertIInv ==
    ASSUME Node!NodesAssumption, NodeIInv,
           NEW d \in Devices, NEW old \in SUBSET There, Node!Insert(d, old)
    PROVE  NodeIInv'
<1> USE DEF NodeIInv
<1> DEFINE n == CHOOSE m \in Nodes : device[m] = None
<1>1. n \in Nodes /\ device[n] = None
  BY DEF Node!Insert
<1> HIDE DEF n
<1>2. PICK fresh \in Node!Kept(connected \ old) :
          \E k \in {IF Len(fresh) < MaxNodes THEN 0 ELSE Len(fresh) - MaxNodes + 1} :
              nodes' = Append(SubSeq(fresh, k + 1, Len(fresh)), n)
  BY DEF Node!Insert, Node!Reorder, n
<1> DEFINE k == IF Len(fresh) < MaxNodes THEN 0 ELSE Len(fresh) - MaxNodes + 1
           rested == SubSeq(fresh, k + 1, Len(fresh))
<1>3. nodes \in Seq(Nodes) /\ IsInjective(nodes) /\ MaxNodes \in Nat \ {0}
  BY NodesAre DEF Registry
<1>4. /\ fresh \in Seq(Nodes) /\ IsInjective(fresh)
      /\ \A e : Contains(fresh, e) => Contains(nodes, e)
  BY <1>3, KeptIs
<1>5. Len(fresh) \in Nat /\ k \in 0..Len(fresh) /\ Len(fresh) - k < MaxNodes
  BY <1>3, <1>4
<1>6. rested \in Seq(Nodes) /\ Len(rested) = Len(fresh) - k
  BY <1>4, <1>5
<1>7. IsInjective(rested) /\ \A e : Contains(rested, e) => Contains(fresh, e)
  <2>1. CASE k = 0
    <3>1. rested = fresh
      BY <1>4, <2>1, SubSeqFull
    <3>2. QED
      BY <1>4, <3>1
  <2>2. CASE k \in 1..Len(fresh)
    <3> HIDE DEF k
    <3>1. /\ IsInjective(rested)
          /\ \A e : Contains(rested, e) <=> \E j \in k + 1 .. Len(fresh) : fresh[j] = e
      BY <1>4, <2>2, SuffixQueue
    <3>2. k + 1 .. Len(fresh) \subseteq 1..Len(fresh)
      BY <1>5, <2>2
    <3>3. QED
      BY <3>1, <3>2 DEF Contains
  <2>3. QED
    BY <1>5, <2>1, <2>2
<1>8. nodes' = Append(rested, n)
  BY <1>2
<1> HIDE DEF k, rested
<1>9. \A e : e \in There <=> Contains(nodes, e)
  BY <1>3, NodeRange DEF There
<1>10. n \notin There
  BY <1>1, NodesAre DEF Registry
<1>11. /\ nodes' \in Seq(Nodes) /\ IsInjective(nodes')
       /\ \A e : Contains(nodes', e) <=> Contains(rested, e) \/ e = n
  BY <1>1, <1>4, <1>6, <1>7, <1>8, <1>9, <1>10, AppendQueue
<1>12. Len(nodes') <= MaxNodes
  BY <1>3, <1>5, <1>6, <1>8
<1>13. There' \subseteq There \union {n}
  <2>1. \A e : e \in There' <=> Contains(nodes', e)
    BY <1>11, NodeRange DEF There
  <2>2. QED
    BY <1>4, <1>7, <1>9, <1>11, <2>1
<1>14. /\ device' = [device EXCEPT ![n] = d] /\ connected' = connected \union {n} /\ Node!Keep
       /\ Node!Registered(d) = {} /\ UNCHANGED <<kind, rest, sending, lost, senderAt, told>>
  BY DEF Node!Insert, Node!senders, n
<1>15. \A m \in There : device[m] # d
  BY <1>14 DEF Node!Registered, There
<1>16. device' \in [Nodes -> Devices \union {None}] /\ connected' \subseteq Nodes
  BY <1>1, <1>14 DEF Node!TypeOK
<1>17. \A m \in Nodes : m # n => device'[m] = device[m]
  BY <1>1, <1>14 DEF Node!TypeOK
<1>18. device'[n] = d
  BY <1>1, <1>14 DEF Node!TypeOK
<1>19. There \subseteq Nodes
  BY <1>3, NodeRange DEF There
<1>20. \A m \in There' : device'[m] \in Devices
  BY <1>13, <1>17, <1>18, <1>19 DEF Registry
<1>21. \A m, p \in There' : device'[m] = device'[p] => m = p
  BY <1>13, <1>15, <1>17, <1>18, <1>19 DEF Registry
<1>22. \A m \in Nodes : device[m] \in Devices => device'[m] = device[m]
  BY <1>1, <1>17, NodesAre
<1>23. QED
  BY <1>11, <1>12, <1>14, <1>16, <1>20, <1>21, <1>22, KeepIs, DeviceStep

LEMMA UnregisterIInv ==
    ASSUME NodeIInv, Node!NodesAssumption, NEW d \in Devices, Node!Unregister(d)
    PROVE  NodeIInv'
<1> USE DEF NodeIInv
<1>1. PICK others \in Node!Kept(Nodes \ Node!Registered(d)) : nodes' = others
  BY DEF Node!Unregister, Node!Reorder
<1>2. nodes \in Seq(Nodes) /\ IsInjective(nodes)
  BY DEF Registry
<1>3. /\ nodes' \in Seq(Nodes) /\ IsInjective(nodes') /\ Len(nodes') <= Len(nodes)
      /\ \A e : Contains(nodes', e) => Contains(nodes, e)
  BY <1>1, <1>2, KeptIs
<1>4. There' \subseteq There
  BY <1>2, <1>3, NodeRange DEF There
<1>5. Len(nodes') <= MaxNodes
  BY <1>2, <1>3, NodesAre DEF Node!TypeOK
<1>6. /\ connected' = connected \ Node!Registered(d) /\ Node!Keep
      /\ UNCHANGED <<device, kind, rest, sending, lost, senderAt, told>>
  BY DEF Node!Unregister, Node!senders
<1>7. QED
  BY <1>3, <1>4, <1>5, <1>6, KeepIs, DeviceStep DEF Registry, Node!TypeOK

LEMMA HeartbeatIInv ==
    ASSUME NodeIInv, \/ \E n \in Nodes : Node!Heartbeat(n)
                     \/ \E stale \in SUBSET Nodes : Node!CheckHeartbeats(stale)
    PROVE  NodeIInv'
<1> USE DEF NodeIInv
<1>1. /\ UNCHANGED <<nodes, device, kind, rest, sending, lost, senderAt, told>>
      /\ connected' \subseteq Nodes
  BY DEF Node!Heartbeat, Node!CheckHeartbeats, Node!senders, Node!TypeOK
<1>2. There' = There
  BY <1>1 DEF There
<1>3. /\ steadyNodes' \in [Senders -> SUBSET Nodes]
      /\ \A t \in Senders : steadyNodes'[t] \subseteq steadyNodes[t] \cap There' \cap connected'
  <2>1. CASE \E n \in Nodes : Node!Heartbeat(n)
    BY <1>2, <2>1 DEF Node!Heartbeat, SteadyIsThere
  <2>2. CASE \E stale \in SUBSET Nodes : Node!CheckHeartbeats(stale)
    BY <2>2, KeepIs DEF Node!CheckHeartbeats
  <2>3. QED
    BY <2>1, <2>2
<1>4. Len(nodes') <= MaxNodes
  BY <1>1 DEF Node!TypeOK
<1>5. QED
  BY <1>1, <1>2, <1>3, <1>4, DeviceStep DEF Registry, Node!TypeOK

(* A task goes on, or ends, in a registry that stays as it is or loses       *)
(* nodes.                                                                  *)
LEMMA TaskStep ==
    ASSUME NodeIInv, NEW t \in Senders, device' = device,
           nodes' \in Seq(Nodes), IsInjective(nodes'), Len(nodes') <= MaxNodes, There' \subseteq There,
           connected' \subseteq Nodes,
           NEW k \in {"one", "all"}, kind' = [kind EXCEPT ![t] = k],
           NEW r \in Seq(Devices), rest' = [rest EXCEPT ![t] = r],
           NEW gone \in SUBSET Devices, lost' = [lost EXCEPT ![t] = gone],
           NEW a \in {"sending", "over", "raised"}, senderAt' = [senderAt EXCEPT ![t] = a],
           NEW n \in Nodes \union {None}, sending' = [sending EXCEPT ![t] = n],
           a = "sending" => n \in Nodes /\ device[n] \in Devices,
           NEW all \in SUBSET Nodes, told' = [told EXCEPT ![t] = all],
           steadyNodes' \in [Senders -> SUBSET Nodes],
           \A u \in Senders : steadyNodes'[u] \subseteq There' \cap connected',
           \A u \in Senders \ {t} : steadyNodes'[u] \subseteq steadyNodes[u],
           k = "all" /\ a = "sending" =>
               \A m \in steadyNodes'[t] : m \in all \/ Contains(r, device[m]),
           k = "all" /\ a = "over" => steadyNodes'[t] \subseteq all
    PROVE  NodeIInv'
<1> USE DEF NodeIInv
<1>1. Registry' /\ SteadyIsThere'
  BY DEF Registry, SteadyIsThere
<1>2. Node!Range(nodes') \subseteq Nodes /\ Node!Range(r) \subseteq Devices
  BY NodeRange
<1>3. \A u \in Senders : Node!Range(rest'[u]) \subseteq Devices
  BY <1>2 DEF Node!TypeOK, Sendings
<1>4. Node!TypeOK'
  BY <1>2, <1>3 DEF Node!TypeOK
<1>5. Sendings'
  BY DEF Sendings, Node!TypeOK
<1>6. \A u \in Senders \ {t} :
          /\ kind'[u] = kind[u] /\ senderAt'[u] = senderAt[u] /\ told'[u] = told[u]
          /\ rest'[u] = rest[u]
  BY DEF Sendings, Node!TypeOK
<1>7. kind'[t] = k /\ senderAt'[t] = a /\ told'[t] = all /\ rest'[t] = r
  BY DEF Sendings, Node!TypeOK
<1>8. ToldOrAhead'
  BY <1>6, <1>7 DEF ToldOrAhead
<1>9. QED
  BY <1>1, <1>4, <1>5, <1>8

(* The loop of a broadcast: those that stay connected have been told, or     *)
(* their devices are ahead.                                                *)
LEMMA GoOnIInv ==
    ASSUME Node!NodesAssumption, NodeIInv, NEW t \in Senders,
           NEW ahead_ \in Seq(Devices), NEW gone \in SUBSET Devices, NEW up \in SUBSET connected,
           Node!GoOn(t, ahead_, gone, up), kind' = [kind EXCEPT ![t] = "all"],
           steadyNodes' \in [Senders -> SUBSET Nodes],
           \A u \in Senders : steadyNodes'[u] \subseteq There' \cap connected',
           \A u \in Senders \ {t} : steadyNodes'[u] \subseteq steadyNodes[u],
           \A m \in steadyNodes'[t] : m \in told[t] \/ Contains(ahead_, device[m])
    PROVE  NodeIInv'
<1> USE DEF NodeIInv
<1>1. /\ nodes \in Seq(Nodes) /\ IsInjective(nodes) /\ Len(nodes) <= MaxNodes /\ Len(nodes) \in Nat
      /\ connected \subseteq Nodes /\ told \in [Senders -> SUBSET Nodes]
      /\ rest \in [Senders -> Seq(Devices)] /\ MaxNodes \in Nat
  BY NodesAre DEF Registry, Node!TypeOK, Sendings
<1>2. device' = device /\ lost' = [lost EXCEPT ![t] = gone]
  BY DEF Node!GoOn
<1>3. There \subseteq Nodes /\ \A e : e \in There <=> Contains(nodes, e)
  BY <1>1, NodeRange DEF There
<1>4. rest[t] \in Seq(Devices) /\ told[t] \in SUBSET Nodes
  BY <1>1
<1>5. told = [told EXCEPT ![t] = told[t]] /\ rest = [rest EXCEPT ![t] = rest[t]]
  BY <1>1
<1>6. CASE /\ Node!Leave(t, "raised") /\ connected' = up /\ UNCHANGED <<nodes, rest>>
  <2>1. There' = There
    BY <1>6 DEF There
  <2>2. /\ senderAt' = [senderAt EXCEPT ![t] = "raised"] /\ sending' = [sending EXCEPT ![t] = None]
        /\ told' = told
    BY <1>6 DEF Node!Leave
  <2>3. QED
    BY <1>1, <1>2, <1>4, <1>5, <1>6, <2>1, <2>2, TaskStep
<1>7. CASE /\ Node!Open(ahead_, up) # {} /\ connected' = up /\ UNCHANGED nodes
           /\ rest' = [rest EXCEPT ![t] =
                          SubSeq(ahead_, Node!Min(Node!Open(ahead_, up)) + 1, Len(ahead_))]
           /\ \E n \in Node!Registered(ahead_[Node!Min(Node!Open(ahead_, up))]) : Node!Send(t, n)
  <2> DEFINE O == Node!Open(ahead_, up)
             i == Min(O)
             r == SubSeq(ahead_, i + 1, Len(ahead_))
  <2>1. O \subseteq 1..Len(ahead_) /\ Len(ahead_) \in Nat
    BY DEF Node!Open
  <2>2. i \in O /\ \A j \in O : i <= j
    BY <1>7, <2>1, Least
  <2>3. Node!Min(O) = i
    BY DEF Node!Min, Min
  <2>4. PICK n \in Node!Registered(ahead_[i]) : Node!Send(t, n)
    BY <1>7, <2>3
  <2>5. rest' = [rest EXCEPT ![t] = r]
    BY <1>7, <2>3
  <2>6. i \in 1..Len(ahead_) /\ i \in Nat
    BY <2>1, <2>2
  <2>7. \A m \in There \cap up, j \in 1..Len(ahead_) : ahead_[j] = device[m] => j \in O
    BY DEF Node!Open, Node!Registered, There
  <2> HIDE DEF O, i
  <2>8. r \in Seq(Devices) /\ \A j \in i + 1 .. Len(ahead_) : Contains(r, ahead_[j])
    <3>1. /\ r \in Seq(Devices) /\ Len(r) = Len(ahead_) - i
          /\ \A j \in 1..Len(ahead_) - i : r[j] = ahead_[i + j]
      BY <2>6
    <3> HIDE DEF r
    <3>2. ASSUME NEW j \in i + 1 .. Len(ahead_)
          PROVE  Contains(r, ahead_[j])
      <4>1. j - i \in 1..Len(ahead_) - i /\ i + (j - i) = j
        BY <2>1, <2>6
      <4>2. QED
        BY <3>1, <4>1 DEF Contains
    <3>3. QED
      BY <3>1, <3>2
  <2> HIDE DEF r
  <2>9. n \in There /\ device[n] = ahead_[i] /\ n \in Nodes /\ device[n] \in Devices
    BY <1>3, <2>4 DEF Node!Registered, There, Registry
  <2>10. There' = There
    BY <1>7 DEF There
  <2>11. ASSUME NEW m \in steadyNodes'[t]
         PROVE  m \in told[t] \union {n} \/ Contains(r, device[m])
    <3>1. m \in There \cap up
      BY <1>7, <2>10
    <3>2. CASE m \in told[t]
      BY <3>2
    <3>3. CASE Contains(ahead_, device[m])
      <4>1. PICK j \in 1..Len(ahead_) : ahead_[j] = device[m]
        BY <3>3 DEF Contains
      <4>2. i <= j
        BY <2>2, <2>7, <3>1, <4>1
      <4>3. CASE i = j
        BY <2>9, <3>1, <4>1, <4>3 DEF Registry
      <4>4. CASE i # j
        BY <2>6, <2>8, <4>1, <4>2, <4>4
      <4>5. QED
        BY <4>3, <4>4
    <3>4. QED
      BY <3>2, <3>3
  <2>12. /\ senderAt' = [senderAt EXCEPT ![t] = "sending"] /\ sending' = [sending EXCEPT ![t] = n]
         /\ told' = [told EXCEPT ![t] = told[t] \union {n}] /\ told[t] \union {n} \in SUBSET Nodes
    BY <1>4, <2>4, <2>9 DEF Node!Send
  <2>13. /\ nodes' \in Seq(Nodes) /\ IsInjective(nodes') /\ Len(nodes') <= MaxNodes
         /\ There' \subseteq There /\ connected' \subseteq Nodes
    BY <1>1, <1>7, <2>10
  <2> DEFINE all == told[t] \union {n}
  <2>14. /\ all \in SUBSET Nodes /\ told' = [told EXCEPT ![t] = all] /\ n \in Nodes \union {None}
         /\ \A m \in steadyNodes'[t] : m \in all \/ Contains(r, device[m])
    BY <2>9, <2>11, <2>12
  <2> HIDE DEF all
  <2>15. QED
    BY <1>2, <2>5, <2>8, <2>9, <2>12, <2>13, <2>14, TaskStep
<1>8. CASE /\ ahead_ = <<>> \/ Node!Open(ahead_, up) = {}
           /\ Node!Leave(t, "over") /\ Node!CleanUp(gone, up) /\ UNCHANGED rest
  <2> DEFINE dead == {n \in There : device[n] \in gone}
  <2>1. /\ nodes' \in Node!Kept(Nodes \ dead) /\ connected' = up \ dead
    BY <1>8 DEF Node!CleanUp, Node!Reorder, There
  <2> HIDE DEF dead
  <2>2. /\ nodes' \in Seq(Nodes) /\ IsInjective(nodes') /\ Len(nodes') <= Len(nodes)
        /\ \A e : Contains(nodes', e) => Contains(nodes, e)
    BY <1>1, <2>1, KeptIs
  <2>3. There' \subseteq There
    BY <1>3, <2>2, NodeRange DEF There
  <2>4. Len(nodes') <= MaxNodes
    BY <1>1, <2>2
  <2>5. steadyNodes'[t] \subseteq told[t]
    <3>1. SUFFICES ASSUME NEW m \in steadyNodes'[t], Contains(ahead_, device[m])
                   PROVE  FALSE
      OBVIOUS
    <3>2. PICK j \in 1..Len(ahead_) : ahead_[j] = device[m]
      BY <3>1 DEF Contains
    <3>3. m \in There \cap up
      BY <2>1, <2>3
    <3>4. j \in Node!Open(ahead_, up)
      BY <3>2, <3>3 DEF Node!Open, Node!Registered, There
    <3>5. Len(ahead_) = 0 \/ Node!Open(ahead_, up) = {}
      BY <1>8
    <3>6. QED
      BY <3>2, <3>4, <3>5
  <2>6. /\ senderAt' = [senderAt EXCEPT ![t] = "over"] /\ sending' = [sending EXCEPT ![t] = None]
        /\ told' = told
    BY <1>8 DEF Node!Leave
  <2>7. connected' \subseteq Nodes
    BY <1>1, <2>1
  <2>8. QED
    BY <1>2, <1>4, <1>5, <1>8, <2>2, <2>3, <2>4, <2>5, <2>6, <2>7, TaskStep
<1>9. QED
  BY <1>6, <1>7, <1>8 DEF Node!GoOn

LEMMA BroadcastIInv ==
    ASSUME Node!NodesAssumption, NodeIInv, NEW t \in Senders, Node!Broadcast(t)
    PROVE  NodeIInv'
<1> USE DEF NodeIInv
<1> DEFINE order == [i \in DOMAIN nodes |-> device[nodes[i]]]
<1>1. /\ nodes \in Seq(Nodes) /\ IsInjective(nodes) /\ connected \subseteq Nodes
      /\ \A e : e \in There <=> Contains(nodes, e)
  BY NodeRange DEF Registry, Node!TypeOK, There
<1>2. order \in Seq(Devices) /\ \A m \in There : Contains(order, device[m])
  <2>1. DOMAIN nodes = 1..Len(nodes) /\ Len(nodes) \in Nat
    BY <1>1
  <2>2. \A i \in 1..Len(nodes) : device[nodes[i]] \in Devices
    BY <1>1, <2>1 DEF Registry, Contains
  <2>3. order \in Seq(Devices) /\ Len(order) = Len(nodes) /\ \A i \in 1..Len(nodes) : order[i] = device[nodes[i]]
    BY <2>1, <2>2
  <2>4. QED
    BY <1>1, <2>3 DEF Contains
<1> HIDE DEF order
<1>3. /\ kind' = [kind EXCEPT ![t] = "all"] /\ Node!GoOn(t, order, {}, connected)
      /\ steadyNodes' = [steadyNodes EXCEPT ![t] = There \cap connected]
  BY DEF Node!Broadcast, There, order
<1>4. There' = There /\ connected' = connected
  <2>1. CASE UNCHANGED <<nodes, connected>>
    BY <2>1 DEF There
  <2>2. CASE Node!CleanUp({}, connected)
    <3>1. nodes' \in Node!Kept(Nodes \ {}) /\ connected' = connected
      <4>1. {n \in Node!Range(nodes) : device[n] \in {}} = {}
        OBVIOUS
      <4>2. QED
        BY <2>2, <4>1 DEF Node!CleanUp, Node!Reorder
    <3>2. nodes' \in Seq(Nodes) /\ \A e : Contains(nodes', e) <=> Contains(nodes, e) /\ e \in Nodes
      BY <1>1, <3>1, KeptIs
    <3>3. \A e : e \in There' <=> Contains(nodes', e)
      BY <3>2, NodeRange DEF There
    <3>4. \A e : Contains(nodes, e) => e \in Nodes
      BY <1>1 DEF Contains
    <3>5. QED
      BY <1>1, <3>1, <3>2, <3>3, <3>4
  <2>3. QED
    BY <1>3, <2>1, <2>2 DEF Node!GoOn
<1>5. There \subseteq Nodes
  BY <1>1, NodeRange DEF There
<1>6. /\ steadyNodes' \in [Senders -> SUBSET Nodes]
      /\ \A u \in Senders : steadyNodes'[u] \subseteq There' \cap connected'
      /\ \A u \in Senders \ {t} : steadyNodes'[u] \subseteq steadyNodes[u]
      /\ \A m \in steadyNodes'[t] : m \in There
  BY <1>3, <1>4, <1>5 DEF SteadyIsThere
<1>7. \A m \in steadyNodes'[t] : m \in told[t] \/ Contains(order, device[m])
  BY <1>2, <1>6
<1>8. QED
  BY <1>2, <1>3, <1>6, <1>7, GoOnIInv

LEMMA SentIInv ==
    ASSUME Node!NodesAssumption, NodeIInv, NEW t \in Senders, Node!Sent(t) \/ Node!Failed(t)
    PROVE  NodeIInv'
<1> USE DEF NodeIInv
<1>1. /\ senderAt[t] = "sending" /\ UNCHANGED kind
      /\ sending[t] \in Nodes /\ device[sending[t]] \in Devices
  BY DEF Node!Sent, Node!Failed, Sendings
<1>2. /\ rest[t] \in Seq(Devices) /\ lost[t] \in SUBSET Devices /\ told[t] \in SUBSET Nodes
      /\ rest = [rest EXCEPT ![t] = rest[t]] /\ lost = [lost EXCEPT ![t] = lost[t]]
      /\ told = [told EXCEPT ![t] = told[t]] /\ kind = [kind EXCEPT ![t] = kind[t]]
  BY DEF Sendings, Node!TypeOK
<1>3. CASE kind[t] = "all"
  <2>1. \E gone \in SUBSET Devices, up \in SUBSET connected :
            Node!GoOn(t, rest[t], gone, up) /\ Node!Keep
    <3>1. CASE Node!GoOn(t, rest[t], lost[t], connected) /\ Node!Keep
      BY <1>2, <3>1
    <3>2. CASE /\ Node!GoOn(t, rest[t], lost[t] \union {device[sending[t]]},
                             connected \ {sending[t]})
               /\ Node!Keep
      <4>1. /\ lost[t] \union {device[sending[t]]} \in SUBSET Devices
            /\ connected \ {sending[t]} \in SUBSET connected
        BY <1>1, <1>2
      <4>2. QED
        BY <3>2, <4>1
    <3>3. QED
      BY <1>3, <3>1, <3>2 DEF Node!Sent, Node!Failed, Node!LoseOne
  <2>2. PICK gone \in SUBSET Devices, up \in SUBSET connected :
            Node!GoOn(t, rest[t], gone, up) /\ Node!Keep
    BY <2>1
  <2>3. /\ steadyNodes' \in [Senders -> SUBSET Nodes]
        /\ \A u \in Senders : steadyNodes'[u] = steadyNodes[u] \cap There' \cap connected'
    BY <2>2, KeepIs
  <2>4. \A m \in steadyNodes'[t] : m \in told[t] \/ Contains(rest[t], device[m])
    BY <1>1, <1>3, <2>3 DEF ToldOrAhead
  <2>5. kind' = [kind EXCEPT ![t] = "all"]
    BY <1>1, <1>2, <1>3
  <2>6. /\ \A u \in Senders : steadyNodes'[u] \subseteq There' \cap connected'
        /\ \A u \in Senders \ {t} : steadyNodes'[u] \subseteq steadyNodes[u]
    BY <2>3
  <2>7. rest[t] \in Seq(Devices) /\ Node!GoOn(t, rest[t], gone, up) /\ steadyNodes' \in [Senders -> SUBSET Nodes]
    BY <1>2, <2>2, <2>3
  <2>8. QED
    BY <2>4, <2>5, <2>6, <2>7, GoOnIInv
<1>4. CASE kind[t] = "one"
  <2>1. /\ senderAt' = [senderAt EXCEPT ![t] = "over"] /\ sending' = [sending EXCEPT ![t] = None]
        /\ told' = told /\ UNCHANGED <<nodes, device, rest, lost>> /\ connected' \subseteq Nodes
    BY <1>4 DEF Node!Sent, Node!Failed, Node!LoseOne, Node!Leave, Node!registry, Node!TypeOK
  <2>2. There' = There
    BY <2>1 DEF There
  <2>3. /\ steadyNodes' \in [Senders -> SUBSET Nodes]
        /\ \A u \in Senders : /\ steadyNodes'[u] \subseteq There' \cap connected'
                              /\ steadyNodes'[u] \subseteq steadyNodes[u]
    <3>1. CASE Node!Sent(t)
      BY <1>4, <2>2, <3>1 DEF Node!Sent, Node!registry, SteadyIsThere
    <3>2. CASE Node!Failed(t)
      BY <3>2, KeepIs DEF Node!Failed
    <3>3. QED
      BY <3>1, <3>2
  <2>4. /\ nodes' \in Seq(Nodes) /\ IsInjective(nodes') /\ Len(nodes') <= MaxNodes
        /\ There' \subseteq There /\ device' = device
    BY <2>1, <2>2 DEF Registry, Node!TypeOK
  <2>5. kind' = [kind EXCEPT ![t] = "one"]
    BY <1>1, <1>2, <1>4
  <2>6. QED
    BY <1>2, <2>1, <2>3, <2>4, <2>5, TaskStep
<1>5. QED
  BY <1>3, <1>4 DEF Node!Sent, Node!Failed, Node!LoseOne

LEMMA SendToNodeIInv ==
    ASSUME Node!NodesAssumption, NodeIInv, NEW t \in Senders, NEW d \in Devices,
           Node!SendToNode(t, d)
    PROVE  NodeIInv'
<1> USE DEF NodeIInv
<1>1. /\ kind' = [kind EXCEPT ![t] = "one"]
      /\ UNCHANGED <<nodes, device, connected, rest, lost, steadyNodes>>
  BY DEF Node!SendToNode, Node!registry
<1>2. /\ rest[t] \in Seq(Devices) /\ lost[t] \in SUBSET Devices /\ told[t] \in SUBSET Nodes
      /\ rest = [rest EXCEPT ![t] = rest[t]] /\ lost = [lost EXCEPT ![t] = lost[t]]
      /\ told = [told EXCEPT ![t] = told[t]]
  BY DEF Sendings, Node!TypeOK
<1>3. /\ nodes' \in Seq(Nodes) /\ IsInjective(nodes') /\ Len(nodes') <= MaxNodes
      /\ There' = There /\ connected' \subseteq Nodes
  BY <1>1 DEF Registry, Node!TypeOK, There
<1>4. /\ steadyNodes' \in [Senders -> SUBSET Nodes]
      /\ \A u \in Senders : /\ steadyNodes'[u] \subseteq There' \cap connected'
                            /\ steadyNodes'[u] \subseteq steadyNodes[u]
  BY <1>1, <1>3 DEF SteadyIsThere
<1>5. CASE \E n \in Node!Registered(d) \cap connected : Node!Send(t, n)
  <2>1. PICK n \in Node!Registered(d) : Node!Send(t, n)
    BY <1>5
  <2>2. n \in Nodes /\ device[n] \in Devices
    BY NodeRange DEF Node!Registered, Registry, There
  <2>3. /\ senderAt' = [senderAt EXCEPT ![t] = "sending"] /\ sending' = [sending EXCEPT ![t] = n]
        /\ told' = [told EXCEPT ![t] = told[t] \union {n}] /\ told[t] \union {n} \in SUBSET Nodes
    BY <1>2, <2>1, <2>2 DEF Node!Send
  <2> DEFINE all == told[t] \union {n}
  <2>4. all \in SUBSET Nodes /\ told' = [told EXCEPT ![t] = all] /\ n \in Nodes \union {None}
    BY <2>2, <2>3
  <2> HIDE DEF all
  <2>5. /\ rest' = [rest EXCEPT ![t] = rest[t]] /\ lost' = [lost EXCEPT ![t] = lost[t]]
        /\ There' \subseteq There /\ device' = device
        /\ kind' = [kind EXCEPT ![t] = "one"]
        /\ senderAt' = [senderAt EXCEPT ![t] = "sending"] /\ sending' = [sending EXCEPT ![t] = n]
    BY <1>1, <1>2, <1>3, <2>3
  <2>6. /\ \A u \in Senders : steadyNodes'[u] \subseteq There' \cap connected'
        /\ \A u \in Senders \ {t} : steadyNodes'[u] \subseteq steadyNodes[u]
    BY <1>4
  <2>7. steadyNodes' \in [Senders -> SUBSET Nodes] /\ rest[t] \in Seq(Devices) /\ lost[t] \in SUBSET Devices
    BY <1>2, <1>4
  <2>8. QED
    BY <1>3, <2>2, <2>4, <2>5, <2>6, <2>7, TaskStep
<1>6. CASE Node!Leave(t, "over")
  <2>1. /\ senderAt' = [senderAt EXCEPT ![t] = "over"] /\ sending' = [sending EXCEPT ![t] = None]
        /\ told' = told
    BY <1>6 DEF Node!Leave
  <2>2. QED
    BY <1>1, <1>2, <1>3, <1>4, <2>1, TaskStep
<1>7. QED
  BY <1>5, <1>6 DEF Node!SendToNode

LEMMA NodeNextIInv ==
    ASSUME Node!NodesAssumption, NodeIInv, [Node!Next]_(Node!vars)
    PROVE  NodeIInv'
<1>1. CASE UNCHANGED Node!vars
  <2>1. UNCHANGED devices
    BY <1>1 DEF Node!vars, Node!registry, Node!senders, devices
  <2>2. QED
    BY <2>1 DEF devices, NodeIInv, Node!TypeOK, Registry, There, Sendings, SteadyIsThere, ToldOrAhead
<1>2. CASE Node!Device
  BY <1>2, UpdateIInv, HeartbeatIInv, InsertIInv, UnregisterIInv DEF Node!Device, There
<1>3. CASE \/ \E t \in Senders : Node!Broadcast(t) \/ Node!Sent(t) \/ Node!Failed(t)
           \/ \E t \in Senders, d \in Devices : Node!SendToNode(t, d)
  BY <1>3, BroadcastIInv, SentIInv, SendToNodeIInv
<1>4. QED
  BY <1>1, <1>2, <1>3 DEF Node!Next

LEMMA NodeSafe ==
    ASSUME Node!NodesAssumption, NodeIInv
    PROVE  DevicesAreTold
<1>1. Node!OneNodePerDevice
  BY DEF NodeIInv, Registry, There, Node!OneNodePerDevice, Node!IsInjective, IsInjective
<1>2. Node!BroadcastReachesAll
  BY DEF NodeIInv, ToldOrAhead, Node!BroadcastReachesAll
<1>3. QED
  BY <1>1, <1>2 DEF NodeIInv, DevicesAreTold

-----------------------------------------------------------------------------
(* The whole.                                                              *)

(* What the assumption says of the parts. *)
LEMMA EventsParts ==
    /\ Web!WebhookAssumption /\ Resolve!ResolverAssumption
    /\ Hook!HooksAssumption /\ Node!NodesAssumption
  BY EventsAssumption

(* A step of the whole is a step of each part, or leaves it as it is. *)
LEMMA EventsSteps ==
    ASSUME [EventsNext]_eventVars
    PROVE  /\ [Next]_vars
           /\ [Web!Next]_(Web!vars) /\ [Resolve!Next]_(Resolve!vars)
           /\ [Hook!Next]_(Hook!vars) /\ [Node!Next]_(Node!vars)
<1>1. UNCHANGED webhooks => UNCHANGED Web!vars
  BY DEF webhooks, Web!vars, Web!reception, Web!service, Web!tasks
<1>2. UNCHANGED resolutions => UNCHANGED Resolve!vars
  BY DEF resolutions, Resolve!vars
<1>3. UNCHANGED emissions => UNCHANGED Hook!vars
  BY DEF emissions, Hook!vars, Hook!registry, Hook!emission, Hook!watch
<1>4. UNCHANGED devices => UNCHANGED Node!vars
  BY DEF devices, Node!vars, Node!registry, Node!senders
<1>5. CASE EventsNext
  BY <1>1, <1>2, <1>3, <1>4, <1>5, Zenon DEF EventsNext
<1>6. CASE UNCHANGED eventVars
  <2>1. UNCHANGED vars /\ UNCHANGED webhooks /\ UNCHANGED resolutions /\ UNCHANGED emissions /\ UNCHANGED devices
    BY <1>6 DEF eventVars
  <2>2. QED
    BY <1>1, <1>2, <1>3, <1>4, <2>1
<1>7. QED
  BY <1>5, <1>6

(* An accepted event is in one place until it has its result, is handled    *)
(* once in its window, and has failed only after all its tries: the         *)
(* reception of integrations/webhooks.py, whatever fails in its handlers,    *)
(* and although it is stopped and started again.                           *)
THEOREM TheWebhooksAreKept == EventsSpec => []WebhooksAreKept
<1>1. EventsInit => WebIInv
  BY EventsParts, WebInitIInv DEF EventsInit
<1>2. WebIInv /\ [EventsNext]_eventVars => WebIInv'
  BY EventsParts, EventsSteps, WebNextIInv
<1>3. WebIInv => WebhooksAreKept
  BY EventsParts, WebSafe
<1>4. QED
  BY <1>1, <1>2, <1>3, PTL DEF EventsSpec

(* A resolution gives its slot back however it ends, is not completed when   *)
(* the cancellation was promised, and its result is on record: the           *)
(* concurrent calls of the resolver, for any number of calls and of slots.  *)
THEOREM TheResolutionsAreKept == EventsSpec => []ResolutionsAreKept
<1>1. EventsInit => ResolveIInv
  BY EventsParts, ResolveInitIInv DEF EventsInit
<1>2. ResolveIInv /\ [EventsNext]_eventVars => ResolveIInv'
  BY EventsParts, EventsSteps, ResolveNextIInv
<1>3. ResolveIInv => ResolutionsAreKept
  BY EventsParts, ResolveSafe
<1>4. QED
  BY <1>1, <1>2, <1>3, PTL DEF EventsSpec

(* As long as no hook is renamed: execute_hooks passes by no hook that was   *)
(* there and enabled all the time, hears the steady ones in the order of the *)
(* priorities that they had when the index was built, and a denial is the    *)
(* verdict in the name of the first that denied, while hooks come, go, are   *)
(* replaced and get other attributes at its awaits.  A priority that is       *)
(* configured later is not heeded before the next registration or removal.   *)
THEOREM TheHooksAreHeard ==
    ASSUME Hook!NamesStay
    PROVE  EventsSpec => []HooksAreHeard
<1>1. EventsInit => HookIInv
  BY EventsParts, HookInitIInv DEF EventsInit
<1>2. HookIInv /\ [EventsNext]_eventVars => HookIInv'
  BY EventsParts, EventsSteps, HookNextIInv
<1>3. HookIInv => HooksAreHeard
  BY HookSafe
<1>4. QED
  BY <1>1, <1>2, <1>3, PTL DEF EventsSpec

(* A device has one node in the registry, and a broadcast reaches every node *)
(* that was there and connected all the time, although nodes come back,      *)
(* leave and are evicted while it sends.                                   *)
THEOREM TheDevicesAreTold == EventsSpec => []DevicesAreTold
<1>1. EventsInit => NodeIInv
  BY EventsParts, NodeInitIInv DEF EventsInit
<1>2. NodeIInv /\ [EventsNext]_eventVars => NodeIInv'
  BY EventsParts, EventsSteps, NodeNextIInv
<1>3. NodeIInv => DevicesAreTold
  BY EventsParts, NodeSafe
<1>4. QED
  BY <1>1, <1>2, <1>3, PTL DEF EventsSpec

(* All of these together, as long as no hook is renamed: what the run of the *)
(* event loop checks on its small instance.                                *)
THEOREM TheEventsAreHandled ==
    ASSUME Hook!NamesStay
    PROVE  EventsSpec => []EventsAreHandled
<1>1. /\ EventsInit => Init
      /\ [EventsNext]_eventVars => [Next]_vars
  BY EventsSteps DEF EventsInit
<1>2. EventsSpec => []OneHolder
  BY <1>1, MutualExclusion, PTL DEF EventsSpec, Spec
<1>3. EventsAreHandled <=>
         OneHolder /\ WebhooksAreKept /\ ResolutionsAreKept /\ HooksAreHeard /\ DevicesAreTold
  BY DEF EventsAreHandled
<1>4. QED
  BY <1>2, <1>3, TheWebhooksAreKept, TheResolutionsAreKept, TheHooksAreHeard, TheDevicesAreTold, PTL
=============================================================================
