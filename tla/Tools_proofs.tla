------------------------------ MODULE Tools_proofs ------------------------------
(***************************************************************************)
(* The executor first: the documented invariant of _ResourceRWLock, for      *)
(* every set of calls, declarations, timeouts and every number of workers    *)
(* and attempts; then, for batches without timeouts, that conflicting calls  *)
(* exclude each other and that nothing is left locked.                     *)
(*                                                                         *)
(* What makes the first inductive is only the typing of the two fields:    *)
(* whoever calls them, and however often, the critical sections of a lock  *)
(* keep the counter a natural number and never let a writer in beside      *)
(* readers.                                                                *)
(*                                                                         *)
(* Then the executor of coroutines, the shell and the client of an MCP     *)
(* server, each with an inductive invariant of its own; and the theorems   *)
(* about the four of them in one state.                                    *)
(***************************************************************************)
EXTENDS Tools, QueueLemmas, FiniteSetTheorems, TLAPS

IInv ==
    /\ writer \in [Keys -> Users \union {NoUser}]
    /\ readers \in [Keys -> Nat]
    /\ WriterExcludesReaders

(* The critical sections of acquire_read and acquire_write. *)
LEMMA GrantIInv ==
    ASSUME IInv, NEW u \in Users, NEW d, Grant(u, d)
    PROVE  IInv'
<1> USE DEF IInv, WriterExcludesReaders
<1>1. CASE d.mode = "READ"
  BY <1>1 DEF Grant, Available
<1>2. CASE d.mode = "WRITE"
  BY <1>2 DEF Grant, Available
<1>3. QED
  BY <1>1, <1>2 DEF Grant

(* Dropping a reader from a lock that has one. *)
LEMMA DropReaderIInv ==
    ASSUME IInv, NEW k, NEW u, readers[k] > 0, DropReader(k, u)
    PROVE  IInv'
<1> USE DEF IInv, DropReader
<1>1. CASE k \in Keys
  <2>1. readers[k] - 1 \in Nat /\ writer[k] = NoUser
    BY <1>1 DEF WriterExcludesReaders
  <2>2. QED
    BY <1>1, <2>1 DEF WriterExcludesReaders
<1>2. CASE k \notin Keys
  <2>1. readers' = readers
    BY <1>2
  <2>2. QED
    BY <2>1 DEF WriterExcludesReaders
<1>3. QED
  BY <1>1, <1>2

(* A release, by a holder or by somebody else. *)
LEMMA ReleaseIInv ==
    ASSUME IInv, NEW u \in Users, NEW d, Release(u, d)
    PROVE  IInv'
<1>1. CASE d.mode = "READ" /\ readers[d.key] > 0 /\ DropReader(d.key, u)
  BY <1>1, DropReaderIInv
<1>2. CASE UNCHANGED lockVars
  BY <1>2 DEF lockVars, IInv, WriterExcludesReaders
<1>3. CASE /\ writer' = [writer EXCEPT ![d.key] = NoUser]
           /\ UNCHANGED <<readers, tracked>>
  BY <1>3 DEF IInv, WriterExcludesReaders
<1>4. QED
  BY <1>1, <1>2, <1>3 DEF Release

(* A forced release. *)
LEMMA ForceReleaseIInv ==
    ASSUME IInv, NEW d, ForceRelease(d)
    PROVE  IInv'
<1>1. CASE /\ readers[d.key] > 0
           /\ DropReader(d.key, Head(tracked[d.key]))
  BY <1>1, DropReaderIInv
<1>2. CASE UNCHANGED lockVars
  BY <1>2 DEF lockVars, IInv, WriterExcludesReaders
<1>3. CASE /\ writer' = [writer EXCEPT ![d.key] = NoUser]
           /\ UNCHANGED <<readers, tracked>>
  BY <1>3 DEF IInv, WriterExcludesReaders
<1>4. QED
  BY <1>1, <1>2, <1>3 DEF ForceRelease

(* The actions that touch no lock. *)
LEMMA OtherIInv ==
    ASSUME IInv, UNCHANGED lockVars
    PROVE  IInv'
  BY DEF lockVars, IInv, WriterExcludesReaders

(***************************************************************************)
(* "_writer is not None implies _readers == 0", in every reachable state   *)
(* of every batch, timed-out calls and forced releases included.           *)
(***************************************************************************)
THEOREM WritersExcludeReaders == Spec => []WriterExcludesReaders
<1>1. Init => IInv
  BY LocksAssumption DEF Init, InitLocks, IInv, WriterExcludesReaders
<1>2. IInv /\ [Next]_vars => IInv'
  <2> SUFFICES ASSUME IInv, [Next]_vars
               PROVE  IInv'
    OBVIOUS
  <2>1. ASSUME NEW c \in Users, Acquire(c) PROVE IInv'
    BY <2>1, GrantIInv DEF Acquire
  <2>2. ASSUME NEW c \in Users, ReleaseLast(c) PROVE IInv'
    BY <2>2, ReleaseIInv DEF ReleaseLast
  <2>3. ASSUME NEW c \in Users, ForceOne(c) PROVE IInv'
    BY <2>3, ForceReleaseIInv DEF ForceOne
  <2>4. ASSUME NEW c \in Users,
               \/ Start(c) \/ Block(c) \/ GiveUp(c) \/ Return(c)
               \/ ReleasedAll(c) \/ Finish(c) \/ Expire(c) \/ Abandon(c)
        PROVE  IInv'
    BY <2>4, OtherIInv
       DEF Start, Block, GiveUp, Return, ReleasedAll, Finish, Expire, Abandon
  <2>5. CASE Idle \/ UNCHANGED vars
    BY <2>5, OtherIInv DEF Idle, vars
  <2>6. QED
    BY <2>1, <2>2, <2>3, <2>4, <2>5 DEF Next
<1>3. IInv => WriterExcludesReaders
  BY DEF IInv
<1>4. QED
  BY <1>1, <1>2, <1>3, PTL DEF Spec

-----------------------------------------------------------------------------
(* Plans: the declarations of a call in the order of their keys. *)

(* The order of the locks is total. *)
LEMMA Total ==
    ASSUME NEW d \in Declarations, NEW e \in Declarations
    PROVE  /\ ~Precedes(d, d)
           /\ d # e => Precedes(d, e) \/ Precedes(e, d)
<1>1. d.key \in Nat /\ e.key \in Nat /\ d.mode \in Modes /\ e.mode \in Modes
  BY LocksAssumption DEF Declarations
<1>2. d.key = e.key /\ d.mode = e.mode => d = e
  BY DEF Declarations
<1>3. QED
  BY <1>1, <1>2, SMT DEF Precedes, Modes

LEMMA Transitive ==
    ASSUME NEW d \in Declarations, NEW e \in Declarations, NEW f \in Declarations,
           Precedes(d, e), Precedes(e, f)
    PROVE  Precedes(d, f)
<1>1. d.key \in Nat /\ e.key \in Nat /\ f.key \in Nat
  BY LocksAssumption DEF Declarations
<1>2. QED
  BY <1>1, SMT DEF Precedes

Earlier(D, d) == {e \in D : Precedes(e, d)}

(* The place of a declaration among others is one more than the number of  *)
(* those that precede it, so there is a list in order.                     *)
LEMMA SortedListExists ==
    ASSUME NEW D \in SUBSET Declarations, IsFiniteSet(D)
    PROVE  \E s \in [1 .. Cardinality(D) -> D] :
              \A i, j \in DOMAIN s : i < j => Precedes(s[i], s[j])
<1> DEFINE n == Cardinality(D)
           place == [d \in D |-> Cardinality(Earlier(D, d)) + 1]
<1>1. n \in Nat
  BY FS_CardinalityType
<1>2. ASSUME NEW d \in D
      PROVE  /\ IsFiniteSet(Earlier(D, d)) /\ Cardinality(Earlier(D, d)) \in Nat
             /\ Cardinality(Earlier(D, d)) + 1 \in 1 .. n
  <2>1. Earlier(D, d) \subseteq D /\ d \notin Earlier(D, d)
    BY Total DEF Earlier
  <2>2. IsFiniteSet(Earlier(D, d)) /\ Cardinality(Earlier(D, d)) <= n
        /\ (n = Cardinality(Earlier(D, d)) => D = Earlier(D, d))
    BY <2>1, FS_Subset
  <2>3. Cardinality(Earlier(D, d)) \in Nat
    BY <2>2, FS_CardinalityType
  <2>4. QED
    BY <1>1, <2>1, <2>2, <2>3
<1>3. ASSUME NEW d \in D, NEW e \in D, Precedes(d, e)
      PROVE  place[d] < place[e]
  <2>1. Earlier(D, d) \subseteq Earlier(D, e)
    BY <1>3, Transitive DEF Earlier
  <2>2. d \in Earlier(D, e) /\ d \notin Earlier(D, d)
    BY <1>3, Total DEF Earlier
  <2>3. /\ Cardinality(Earlier(D, d)) <= Cardinality(Earlier(D, e))
        /\ Cardinality(Earlier(D, e)) = Cardinality(Earlier(D, d)) => Earlier(D, e) = Earlier(D, d)
    BY <1>2, <2>1, FS_Subset
  <2>4. QED
    BY <1>2, <2>2, <2>3
<1>4. place \in [D -> 1 .. n]
  BY <1>2
<1>5. ASSUME NEW d \in D, NEW e \in D, d # e
      PROVE  place[d] # place[e]
  <2>1. place[d] \in Nat /\ place[e] \in Nat
    BY <1>4
  <2>2. Precedes(d, e) \/ Precedes(e, d)
    BY <1>5, Total
  <2> HIDE DEF place
  <2>3. QED
    BY <1>3, <2>1, <2>2
<1>6. place \in Injection(D, 1 .. n)
  BY <1>4, <1>5 DEF Injection, IsInjective
<1>7. IsFiniteSet(1 .. n) /\ Cardinality(1 .. n) = n
  <2>1. 1 \in Int /\ n \in Int
    BY <1>1
  <2>2. IsFiniteSet(1 .. n) /\ Cardinality(1 .. n) = IF 1 > n THEN 0 ELSE n - 1 + 1
    BY <2>1, FS_Interval
  <2>3. QED
    BY <1>1, <2>2
<1>8. place \in Surjection(D, 1 .. n)
  BY <1>6, <1>7, FS_Injection
<1> DEFINE s == [i \in 1 .. n |-> CHOOSE d \in D : place[d] = i]
<1>9. ASSUME NEW i \in 1 .. n
      PROVE  s[i] \in D /\ place[s[i]] = i
  BY <1>8 DEF Surjection
<1> HIDE DEF place
<1>10. s \in [1 .. n -> D]
  BY <1>9
<1>11. ASSUME NEW i \in 1 .. n, NEW j \in 1 .. n, i < j
       PROVE  Precedes(s[i], s[j])
  <2>1. s[i] \in D /\ s[j] \in D /\ place[s[i]] = i /\ place[s[j]] = j
    BY <1>9
  <2> HIDE DEF s
  <2>2. s[i] # s[j]
    BY <1>11, <2>1
  <2>3. ~Precedes(s[j], s[i])
    <3>1. Precedes(s[j], s[i]) => j < i
      BY <1>3, <2>1
    <3>2. QED
      BY <1>11, <3>1
  <2>4. QED
    BY <2>1, <2>2, <2>3, Total
<1> HIDE DEF s
<1>12. QED
  BY <1>10, <1>11

(* The list of some declarations has each of them once. *)
LEMMA SortedIsList ==
    ASSUME NEW D \in SUBSET Declarations, IsFiniteSet(D)
    PROVE  /\ Sorted(D) \in Seq(Declarations)
           /\ Len(Sorted(D)) = Cardinality(D) /\ Len(Sorted(D)) \in Nat
           /\ \A i, j \in 1 .. Len(Sorted(D)) : Sorted(D)[i] = Sorted(D)[j] => i = j
           /\ \A d \in D : \E i \in 1 .. Len(Sorted(D)) : Sorted(D)[i] = d
           /\ \A i \in 1 .. Len(Sorted(D)) : Sorted(D)[i] \in D /\ Sorted(D)[i] \in Declarations
<1> DEFINE n == Cardinality(D)
           s == Sorted(D)
<1>1. D \subseteq Declarations /\ IsFiniteSet(D)
  OBVIOUS
<1>2. n \in Nat
  BY <1>1, FS_CardinalityType
<1>3. s \in [1 .. n -> D] /\ \A i, j \in DOMAIN s : i < j => Precedes(s[i], s[j])
  BY <1>1, SortedListExists, Zenon DEF Sorted
<1>4. s \in Seq(Declarations) /\ Len(s) = n
  BY <1>1, <1>2, <1>3
<1>5. ASSUME NEW i \in 1 .. n, NEW j \in 1 .. n, s[i] = s[j]
      PROVE  i = j
  <2>1. s[i] \in Declarations
    BY <1>1, <1>3
  <2>2. ~(i < j) /\ ~(j < i)
    BY <1>3, <1>5, <2>1, Total
  <2>3. QED
    BY <2>2
<1>6. s \in Injection(1 .. n, D)
  BY <1>3, <1>5 DEF Injection, IsInjective
<1>7. IsFiniteSet(1 .. n) /\ Cardinality(1 .. n) = n
  <2>1. 1 \in Int /\ n \in Int
    BY <1>2
  <2>2. IsFiniteSet(1 .. n) /\ Cardinality(1 .. n) = IF 1 > n THEN 0 ELSE n - 1 + 1
    BY <2>1, FS_Interval
  <2>3. QED
    BY <1>2, <2>2
<1>8. s \in Surjection(1 .. n, D)
  BY <1>1, <1>6, <1>7, FS_Injection
<1>9. QED
  BY <1>1, <1>2, <1>3, <1>4, <1>5, <1>8 DEF Surjection

(* The plan of a call has each of its declarations once. *)
LEMMA PlanIsList ==
    ASSUME NEW c \in Users
    PROVE  /\ Plan(c) \in Seq(Declarations)
           /\ Len(Plan(c)) = Cardinality(Decl[c]) /\ Len(Plan(c)) \in Nat
           /\ \A i, j \in 1 .. Len(Plan(c)) : Plan(c)[i] = Plan(c)[j] => i = j
           /\ \A d \in Decl[c] : \E i \in 1 .. Len(Plan(c)) : Plan(c)[i] = d
           /\ \A i \in 1 .. Len(Plan(c)) : Plan(c)[i] \in Decl[c] /\ Plan(c)[i] \in Declarations
  BY SortedIsList, ExecutorAssumption DEF Plan

-----------------------------------------------------------------------------
(* A batch without timeouts: who holds which lock.                         *)
(*                                                                         *)
(* No fact about one lock is inductive alone: that releases return what    *)
(* was acquired needs that a call declares a lock once in its plan, and    *)
(* that the counter of readers counts the calls that hold the lock.        *)

Holds(u, d) == \E i \in 1 .. got[u] : Plan(u)[i] = d

ReadOf(k) == [key |-> k, mode |-> "READ"]
WriteOf(k) == [key |-> k, mode |-> "WRITE"]

ReadersOf(k) == {u \in Users : Holds(u, ReadOf(k))}

(* The fields of each lock agree with what the calls have acquired. *)
LocksAgree ==
    /\ \A k \in Keys, u \in Users : writer[k] = u <=> Holds(u, WriteOf(k))
    /\ \A k \in Keys : readers[k] = Cardinality(ReadersOf(k))

(* So does the list of the readers of a lock, which has each of them once. *)
Tracks(k) ==
    /\ tracked[k] \in Seq(Users) /\ IsInjective(tracked[k])
    /\ \A u \in Users : Contains(tracked[k], u) <=> Holds(u, ReadOf(k))

ReadersTracked == tracked \in [Keys -> Seq(Users)] /\ \A k \in Keys : Tracks(k)

(* Where a call is tells how much of its plan it has. *)
ControlOK(c) ==
    /\ got[c] <= Len(Plan(c))
    /\ pc[c] \in {"acquiring", "waiting"} => got[c] < Len(Plan(c))
    /\ pc[c] = "running" => got[c] = Len(Plan(c))
    /\ pc[c] \in {"queued", "ended"} => got[c] = 0
    /\ outcome[c] = "retry" => pc[c] = "releasing" /\ Plan(c) # <<>>
    /\ result[c] # "none" => pc[c] = "ended"

(* The queue has each call that no thread has picked up, once. *)
QueueOK ==
    /\ queue \in Seq(Users) /\ IsInjective(queue)
    /\ \A c \in Users : Contains(queue, c) => pc[c] = "queued"

HInv ==
    /\ writer \in [Keys -> Users \union {NoUser}]
    /\ readers \in [Keys -> Nat]
    /\ QueueOK
    /\ pc \in [Users -> Places]
    /\ got \in [Users -> Nat]
    /\ outcome \in [Users -> Outcomes]
    /\ result \in [Users -> Results]
    /\ forced = [c \in Users |-> 0]
    /\ \A c \in Users : ControlOK(c)
    /\ LocksAgree
    /\ ReadersTracked

(* One more lock of the plan. *)
LEMMA MoreHeld ==
    ASSUME HInv, NEW c \in Users, got[c] < Len(Plan(c)), got' = [got EXCEPT ![c] = @ + 1]
    PROVE  /\ Wanted(c) \in Decl[c] /\ Wanted(c) \in Declarations
           /\ ~Holds(c, Wanted(c))
           /\ \A u \in Users : \A d : Holds(u, d)' <=> Holds(u, d) \/ (u = c /\ d = Wanted(c))
<1>1. got \in [Users -> Nat] /\ got[c] \in Nat /\ got' \in [Users -> Nat]
  BY DEF HInv
<1>2. /\ Plan(c) \in Seq(Declarations) /\ Len(Plan(c)) \in Nat
      /\ \A i, j \in 1 .. Len(Plan(c)) : Plan(c)[i] = Plan(c)[j] => i = j
      /\ \A i \in 1 .. Len(Plan(c)) : Plan(c)[i] \in Decl[c] /\ Plan(c)[i] \in Declarations
  BY PlanIsList
<1>3. got[c] + 1 \in 1 .. Len(Plan(c))
  BY <1>1, <1>2
<1>4. Wanted(c) \in Decl[c] /\ Wanted(c) \in Declarations
  BY <1>2, <1>3 DEF Wanted
<1>5. ~Holds(c, Wanted(c))
  <2>1. SUFFICES ASSUME NEW i \in 1 .. got[c], Plan(c)[i] = Plan(c)[got[c] + 1]
                 PROVE  FALSE
    BY DEF Holds, Wanted
  <2>2. i \in 1 .. Len(Plan(c)) /\ i # got[c] + 1
    BY <1>1, <1>2
  <2>3. QED
    BY <1>2, <1>3, <2>1, <2>2
<1>6. ASSUME NEW u \in Users, NEW d
      PROVE  Holds(u, d)' <=> Holds(u, d) \/ (u = c /\ d = Wanted(c))
  <2>1. CASE u = c
    <3>1. got'[c] = got[c] + 1
      BY <1>1
    <3>2. 1 .. got'[c] = (1 .. got[c]) \union {got[c] + 1}
      BY <1>1, <3>1
    <3>3. QED
      BY <2>1, <3>2 DEF Holds, Wanted, Plan, Sorted
  <2>2. CASE u # c
    <3>1. got'[u] = got[u]
      BY <1>1, <2>2
    <3>2. QED
      BY <2>2, <3>1 DEF Holds, Plan, Sorted
  <2>3. QED
    BY <2>1, <2>2
<1>7. QED
  BY <1>4, <1>5, <1>6

(* One lock less, the last of those acquired. *)
LEMMA LessHeld ==
    ASSUME HInv, NEW c \in Users, got[c] > 0, got' = [got EXCEPT ![c] = @ - 1]
    PROVE  LET d == Plan(c)[got[c]]
           IN  /\ d \in Declarations /\ Holds(c, d)
               /\ \A u \in Users : \A e : Holds(u, e)' <=> Holds(u, e) /\ ~(u = c /\ e = d)
<1> DEFINE d == Plan(c)[got[c]]
<1>1. got \in [Users -> Nat] /\ got[c] \in Nat /\ got' \in [Users -> Int] /\ got[c] <= Len(Plan(c))
  BY DEF HInv, ControlOK
<1>2. /\ Plan(c) \in Seq(Declarations) /\ Len(Plan(c)) \in Nat
      /\ \A i, j \in 1 .. Len(Plan(c)) : Plan(c)[i] = Plan(c)[j] => i = j
  BY PlanIsList
<1>3. got[c] \in 1 .. Len(Plan(c)) /\ got[c] \in 1 .. got[c]
  BY <1>1, <1>2
<1>4. d \in Declarations /\ Holds(c, d)
  BY <1>2, <1>3 DEF Holds
<1>5. ASSUME NEW u \in Users, NEW e
      PROVE  Holds(u, e)' <=> Holds(u, e) /\ ~(u = c /\ e = d)
  <2>1. CASE u = c
    <3>1. 1 .. got'[c] = (1 .. got[c]) \ {got[c]}
      BY <1>1
    <3>2. ASSUME NEW i \in 1 .. got[c], Plan(c)[i] = d
          PROVE  i = got[c]
      <4>1. i \in 1 .. Len(Plan(c))
        BY <1>1, <1>2
      <4>2. QED
        BY <1>2, <1>3, <3>2, <4>1
    <3>3. Holds(c, e)' <=> \E i \in 1 .. got[c] : i # got[c] /\ Plan(c)[i] = e
      BY <3>1 DEF Holds, Plan, Sorted
    <3>4. QED
      BY <1>3, <2>1, <3>2, <3>3 DEF Holds
  <2>2. CASE u # c
    <3>1. got'[u] = got[u]
      BY <1>1, <2>2
    <3>2. QED
      BY <2>2, <3>1 DEF Holds, Plan, Sorted
  <2>3. QED
    BY <2>1, <2>2
<1>6. QED
  BY <1>4, <1>5

LEMMA ReadersFinite ==
    ASSUME NEW k
    PROVE  IsFiniteSet(ReadersOf(k)) /\ Cardinality(ReadersOf(k)) \in Nat
<1>1. ReadersOf(k) \subseteq Users /\ IsFiniteSet(Users)
  BY ExecutorAssumption DEF ReadersOf
<1>2. QED
  BY <1>1, FS_Subset, FS_CardinalityType

(* A critical section of acquire keeps the fields and the plans in step. *)
LEMMA GrantAgrees ==
    ASSUME HInv, NEW c \in Users, got[c] < Len(Plan(c)),
           Grant(c, Wanted(c)), got' = [got EXCEPT ![c] = @ + 1]
    PROVE  LocksAgree'
<1> DEFINE d == Wanted(c)
<1>1. /\ d \in Declarations /\ ~Holds(c, d)
      /\ \A u \in Users : \A e : Holds(u, e)' <=> Holds(u, e) \/ (u = c /\ e = d)
  BY MoreHeld
<1>2. d.key \in Keys /\ d = [key |-> d.key, mode |-> d.mode] /\ d.mode \in Modes
  BY <1>1 DEF Declarations
<1>3. /\ writer \in [Keys -> Users \union {NoUser}] /\ readers \in [Keys -> Nat]
      /\ \A k \in Keys, u \in Users : writer[k] = u <=> Holds(u, WriteOf(k))
      /\ \A k \in Keys : readers[k] = Cardinality(ReadersOf(k))
  BY DEF HInv, LocksAgree
<1> HIDE DEF d
<1>4. CASE d.mode = "READ"
  <2>1. /\ readers' = [readers EXCEPT ![d.key] = @ + 1] /\ writer' = writer
    BY <1>4 DEF Grant, d
  <2>2. d = ReadOf(d.key) /\ \A k : d # WriteOf(k)
    BY <1>2, <1>4 DEF ReadOf, WriteOf
  <2>3. ASSUME NEW k \in Keys, NEW u \in Users
        PROVE  writer'[k] = u <=> Holds(u, WriteOf(k))'
    <3>1. Holds(u, WriteOf(k))' <=> Holds(u, WriteOf(k))
      BY <1>1, <2>2 DEF WriteOf
    <3>2. QED
      BY <1>3, <2>1, <3>1
  <2>4. ASSUME NEW k \in Keys
        PROVE  readers'[k] = Cardinality(ReadersOf(k))'
    <3>1. CASE k = d.key
      <4>1. ReadersOf(k)' = ReadersOf(k) \union {c} /\ c \notin ReadersOf(k)
        BY <1>1, <2>2, <3>1 DEF ReadersOf, ReadOf
      <4>2. QED
        <5>1. IsFiniteSet(ReadersOf(k))
          BY ReadersFinite
        <5>2. Cardinality(ReadersOf(k) \union {c}) = Cardinality(ReadersOf(k)) + 1
          BY <4>1, <5>1, FS_AddElement
        <5>3. QED
          BY <1>3, <2>1, <3>1, <4>1, <5>2
    <3>2. CASE k # d.key
      <4>1. d # ReadOf(k)
        BY <3>2 DEF ReadOf
      <4>2. ReadersOf(k)' = ReadersOf(k)
        BY <1>1, <4>1 DEF ReadersOf, ReadOf
      <4>3. QED
        BY <1>3, <2>1, <3>2, <4>2
    <3>3. QED
      BY <3>1, <3>2
  <2>5. QED
    BY <2>3, <2>4 DEF LocksAgree
<1>5. CASE d.mode = "WRITE"
  <2>1. /\ writer[d.key] = NoUser /\ writer' = [writer EXCEPT ![d.key] = c]
        /\ readers' = readers
    BY <1>5 DEF Grant, Available, d
  <2>2. d = WriteOf(d.key) /\ \A k : d # ReadOf(k)
    BY <1>2, <1>5 DEF ReadOf, WriteOf
  <2>3. ASSUME NEW k \in Keys, NEW u \in Users
        PROVE  writer'[k] = u <=> Holds(u, WriteOf(k))'
    <3>1. CASE k = d.key
      <4>1. ~Holds(u, WriteOf(k))
        BY <1>3, <2>1, <3>1, LocksAssumption
      <4>2. Holds(u, WriteOf(k))' <=> u = c
        BY <1>1, <2>2, <3>1, <4>1 DEF WriteOf
      <4>3. QED
        BY <1>3, <2>1, <3>1, <4>2
    <3>2. CASE k # d.key
      <4>1. d # WriteOf(k)
        BY <3>2 DEF WriteOf
      <4>2. Holds(u, WriteOf(k))' <=> Holds(u, WriteOf(k))
        BY <1>1, <4>1 DEF WriteOf
      <4>3. QED
        BY <1>3, <2>1, <3>2, <4>2
    <3>3. QED
      BY <3>1, <3>2
  <2>4. ASSUME NEW k \in Keys
        PROVE  readers'[k] = Cardinality(ReadersOf(k))'
    <3>1. ReadersOf(k)' = ReadersOf(k)
      BY <1>1, <2>2 DEF ReadersOf, ReadOf
    <3>2. QED
      BY <1>3, <2>1, <3>1
  <2>5. QED
    BY <2>3, <2>4 DEF LocksAgree
<1>6. QED
  BY <1>2, <1>4, <1>5 DEF Modes

(* So does a release of the lock acquired last. *)
LEMMA ReleaseAgrees ==
    ASSUME HInv, NEW c \in Users, got[c] > 0,
           Release(c, Plan(c)[got[c]]), got' = [got EXCEPT ![c] = @ - 1]
    PROVE  /\ LocksAgree'
           /\ writer' \in [Keys -> Users \union {NoUser}]
           /\ readers' \in [Keys -> Nat]
<1> DEFINE d == Plan(c)[got[c]]
<1>1. /\ d \in Declarations /\ Holds(c, d)
      /\ \A u \in Users : \A e : Holds(u, e)' <=> Holds(u, e) /\ ~(u = c /\ e = d)
  BY LessHeld
<1>2. d.key \in Keys /\ d = [key |-> d.key, mode |-> d.mode] /\ d.mode \in Modes
  BY <1>1 DEF Declarations
<1>3. /\ writer \in [Keys -> Users \union {NoUser}] /\ readers \in [Keys -> Nat]
      /\ \A k \in Keys, u \in Users : writer[k] = u <=> Holds(u, WriteOf(k))
      /\ \A k \in Keys : readers[k] = Cardinality(ReadersOf(k))
  BY DEF HInv, LocksAgree
<1>0. Release(c, d)
  OBVIOUS
<1> HIDE DEF d
<1>4. CASE d.mode = "READ"
  <2>1. d = ReadOf(d.key) /\ \A k : d # WriteOf(k)
    BY <1>2, <1>4 DEF ReadOf, WriteOf
  <2>2. c \in ReadersOf(d.key)
    BY <1>1, <2>1 DEF ReadersOf
  <2>3. readers[d.key] > 0
    BY <1>2, <1>3, <2>2, ReadersFinite, FS_EmptySet
  <2>4. readers' = [readers EXCEPT ![d.key] = @ - 1] /\ writer' = writer
    <3>1. DropReader(d.key, c)
      BY <1>0, <1>2, <1>3, <1>4, <2>3 DEF Release
    <3>2. QED
      BY <3>1 DEF DropReader
  <2>5. readers' \in [Keys -> Nat]
    BY <1>2, <1>3, <2>3, <2>4
  <2>6. ASSUME NEW k \in Keys, NEW u \in Users
        PROVE  writer'[k] = u <=> Holds(u, WriteOf(k))'
    <3>1. Holds(u, WriteOf(k))' <=> Holds(u, WriteOf(k))
      BY <1>1, <2>1 DEF WriteOf
    <3>2. QED
      BY <1>3, <2>4, <3>1
  <2>7. ASSUME NEW k \in Keys
        PROVE  readers'[k] = Cardinality(ReadersOf(k))'
    <3>1. CASE k = d.key
      <4>1. ReadersOf(k)' = ReadersOf(k) \ {c} /\ c \in ReadersOf(k)
        BY <1>1, <2>1, <2>2, <3>1 DEF ReadersOf, ReadOf
      <4>2. Cardinality(ReadersOf(k) \ {c}) = Cardinality(ReadersOf(k)) - 1
        <5>1. IsFiniteSet(ReadersOf(k))
          BY ReadersFinite
        <5>2. QED
          BY <4>1, <5>1, FS_RemoveElement
      <4>3. readers'[k] = readers[k] - 1
        BY <1>3, <2>4, <3>1
      <4>4. QED
        BY <1>3, <4>1, <4>2, <4>3
    <3>2. CASE k # d.key
      <4>1. d # ReadOf(k)
        BY <3>2 DEF ReadOf
      <4>2. ReadersOf(k)' = ReadersOf(k)
        BY <1>1, <4>1 DEF ReadersOf, ReadOf
      <4>3. QED
        BY <1>3, <2>4, <3>2, <4>2
    <3>3. QED
      BY <3>1, <3>2
  <2>8. QED
    BY <1>3, <2>4, <2>5, <2>6, <2>7 DEF LocksAgree
<1>5. CASE d.mode = "WRITE"
  <2>1. d = WriteOf(d.key) /\ \A k : d # ReadOf(k)
    BY <1>2, <1>5 DEF ReadOf, WriteOf
  <2>2. writer[d.key] = c
    BY <1>1, <1>2, <1>3, <2>1
  <2>3. writer' = [writer EXCEPT ![d.key] = NoUser] /\ readers' = readers
    BY <1>0, <1>5, <2>2 DEF Release
  <2>4. writer' \in [Keys -> Users \union {NoUser}]
    BY <1>3, <2>3
  <2>5. ASSUME NEW k \in Keys, NEW u \in Users
        PROVE  writer'[k] = u <=> Holds(u, WriteOf(k))'
    <3>1. CASE k = d.key
      <4>1. writer'[k] # u
        BY <1>2, <1>3, <2>3, <3>1, LocksAssumption
      <4>2. u # c => ~Holds(u, WriteOf(k))
        BY <1>3, <2>2, <3>1
      <4>3. ~Holds(u, WriteOf(k))'
        BY <1>1, <2>1, <3>1, <4>2 DEF WriteOf
      <4>4. QED
        BY <4>1, <4>3
    <3>2. CASE k # d.key
      <4>1. d # WriteOf(k)
        BY <3>2 DEF WriteOf
      <4>2. Holds(u, WriteOf(k))' <=> Holds(u, WriteOf(k))
        BY <1>1, <4>1 DEF WriteOf
      <4>3. QED
        BY <1>3, <2>3, <3>2, <4>2
    <3>3. QED
      BY <3>1, <3>2
  <2>6. ASSUME NEW k \in Keys
        PROVE  readers'[k] = Cardinality(ReadersOf(k))'
    <3>1. ReadersOf(k)' = ReadersOf(k)
      BY <1>1, <2>1 DEF ReadersOf, ReadOf
    <3>2. QED
      BY <1>3, <2>3, <3>1
  <2>7. QED
    BY <1>3, <2>3, <2>4, <2>5, <2>6 DEF LocksAgree
<1>6. QED
  BY <1>2, <1>4, <1>5 DEF Modes

(* The reader that is granted a lock joins its list. *)
LEMMA GrantTracks ==
    ASSUME HInv, NEW c \in Users, got[c] < Len(Plan(c)),
           Grant(c, Wanted(c)), got' = [got EXCEPT ![c] = @ + 1]
    PROVE  ReadersTracked'
<1> DEFINE d == Wanted(c)
<1>1. /\ d \in Declarations /\ ~Holds(c, d)
      /\ \A u \in Users : \A e : Holds(u, e)' <=> Holds(u, e) \/ (u = c /\ e = d)
  BY MoreHeld
<1>2. d.key \in Keys /\ d = [key |-> d.key, mode |-> d.mode] /\ d.mode \in Modes
  BY <1>1 DEF Declarations
<1>3. tracked \in [Keys -> Seq(Users)] /\ \A k \in Keys : Tracks(k)
  BY DEF HInv, ReadersTracked
<1>4. \/ d.mode = "READ" /\ tracked' = [tracked EXCEPT ![d.key] = Append(@, c)]
      \/ d.mode = "WRITE" /\ tracked' = tracked
  BY DEF Grant, d
<1> HIDE DEF d
<1>5. ASSUME NEW k \in Keys, d # ReadOf(k), tracked'[k] = tracked[k]
      PROVE  Tracks(k)'
  <2>1. \A u \in Users : Holds(u, ReadOf(k))' <=> Holds(u, ReadOf(k))
    BY <1>1, <1>5 DEF ReadOf
  <2>2. QED
    BY <1>3, <1>5, <2>1 DEF Tracks
<1>6. CASE d.mode = "READ" /\ tracked' = [tracked EXCEPT ![d.key] = Append(@, c)]
  <2>1. d = ReadOf(d.key)
    BY <1>2, <1>6 DEF ReadOf
  <2>2. ~Contains(tracked[d.key], c) /\ Tracks(d.key)
    BY <1>1, <1>2, <1>3, <2>1 DEF Tracks
  <2>3. /\ Append(tracked[d.key], c) \in Seq(Users) /\ IsInjective(Append(tracked[d.key], c))
        /\ \A e : Contains(Append(tracked[d.key], c), e) <=> Contains(tracked[d.key], e) \/ e = c
    BY <2>2, AppendQueue DEF Tracks
  <2>4. tracked'[d.key] = Append(tracked[d.key], c)
    BY <1>2, <1>3, <1>6
  <2>5. ASSUME NEW k \in Keys, k = d.key
        PROVE  Tracks(k)'
    <3>1. \A u \in Users : Holds(u, ReadOf(k))' <=> Holds(u, ReadOf(k)) \/ u = c
      BY <1>1, <2>1, <2>5 DEF ReadOf
    <3>2. QED
      BY <2>2, <2>3, <2>4, <2>5, <3>1 DEF Tracks
  <2>6. \A k \in Keys \ {d.key} : tracked'[k] = tracked[k] /\ d # ReadOf(k)
    BY <1>2, <1>3, <1>6 DEF ReadOf
  <2>7. tracked' \in [Keys -> Seq(Users)]
    BY <1>2, <1>3, <1>6, <2>3
  <2>8. QED
    BY <1>5, <2>5, <2>6, <2>7 DEF ReadersTracked
<1>7. CASE d.mode = "WRITE" /\ tracked' = tracked
  <2>1. \A k \in Keys : d # ReadOf(k)
    BY <1>7 DEF ReadOf
  <2>2. QED
    BY <1>3, <1>5, <1>7, <2>1 DEF ReadersTracked
<1>8. QED
  BY <1>4, <1>6, <1>7

(* The reader that releases it leaves the list. *)
LEMMA ReleaseTracks ==
    ASSUME HInv, NEW c \in Users, got[c] > 0,
           Release(c, Plan(c)[got[c]]), got' = [got EXCEPT ![c] = @ - 1]
    PROVE  ReadersTracked'
<1> DEFINE d == Plan(c)[got[c]]
<1>1. /\ d \in Declarations /\ Holds(c, d)
      /\ \A u \in Users : \A e : Holds(u, e)' <=> Holds(u, e) /\ ~(u = c /\ e = d)
  BY LessHeld
<1>2. d.key \in Keys /\ d = [key |-> d.key, mode |-> d.mode] /\ d.mode \in Modes
  BY <1>1 DEF Declarations
<1>3. tracked \in [Keys -> Seq(Users)] /\ \A k \in Keys : Tracks(k)
  BY DEF HInv, ReadersTracked
<1>4. Release(c, d)
  OBVIOUS
<1> HIDE DEF d
<1>5. ASSUME NEW k \in Keys, d # ReadOf(k), tracked'[k] = tracked[k]
      PROVE  Tracks(k)'
  <2>1. \A u \in Users : Holds(u, ReadOf(k))' <=> Holds(u, ReadOf(k))
    BY <1>1, <1>5 DEF ReadOf
  <2>2. QED
    BY <1>3, <1>5, <2>1 DEF Tracks
<1>6. CASE d.mode = "READ"
  <2>1. d = ReadOf(d.key)
    BY <1>2, <1>6 DEF ReadOf
  <2>2. Contains(tracked[d.key], c) /\ Tracks(d.key)
    BY <1>1, <1>2, <1>3, <2>1 DEF Tracks
  <2>3. readers[d.key] > 0
    <3>1. c \in ReadersOf(d.key) /\ readers[d.key] = Cardinality(ReadersOf(d.key))
      BY <1>1, <1>2, <2>1 DEF ReadersOf, HInv, LocksAgree
    <3>2. QED
      BY <3>1, ReadersFinite, FS_EmptySet
  <2>4. PICK i \in 1 .. Len(tracked[d.key]) :
               tracked[d.key][i] = c /\ tracked' = [tracked EXCEPT ![d.key] = RemoveAt(@, i)]
    <3>1. DropReader(d.key, c)
      BY <1>2, <1>4, <1>6, <2>3 DEF Release, HInv
    <3>2. QED
      BY <2>2, <3>1 DEF DropReader
  <2>5. LET r == RemoveAt(tracked[d.key], i)
        IN  /\ r \in Seq(Users) /\ IsInjective(r)
            /\ \A e : Contains(r, e) <=> Contains(tracked[d.key], e) /\ e # c
    BY <2>2, <2>4, RemoveAtQueue DEF Tracks
  <2>6. tracked'[d.key] = RemoveAt(tracked[d.key], i)
    BY <1>2, <1>3, <2>4
  <2>7. ASSUME NEW k \in Keys, k = d.key
        PROVE  Tracks(k)'
    <3>1. \A u \in Users : Holds(u, ReadOf(k))' <=> Holds(u, ReadOf(k)) /\ u # c
      BY <1>1, <2>1, <2>7 DEF ReadOf
    <3>2. QED
      BY <2>2, <2>5, <2>6, <2>7, <3>1 DEF Tracks
  <2>8. \A k \in Keys \ {d.key} : tracked'[k] = tracked[k] /\ d # ReadOf(k)
    BY <1>2, <1>3, <2>4 DEF ReadOf
  <2>9. tracked' \in [Keys -> Seq(Users)]
    BY <1>2, <1>3, <2>4, <2>5
  <2>10. QED
    BY <1>5, <2>7, <2>8, <2>9 DEF ReadersTracked
<1>7. CASE d.mode = "WRITE"
  <2>1. tracked' = tracked /\ \A k \in Keys : d # ReadOf(k)
    BY <1>4, <1>7 DEF Release, lockVars, ReadOf
  <2>2. QED
    BY <1>3, <1>5, <2>1 DEF ReadersTracked
<1>8. QED
  BY <1>2, <1>6, <1>7 DEF Modes

LEMMA HInvInit ==
    ASSUME Init
    PROVE  HInv
<1> USE DEF Init, InitLocks
<1>1. \A c \in Users : Len(Plan(c)) \in Nat /\ got[c] = 0 /\ pc[c] = "queued"
  BY PlanIsList
<1>2. \A c \in Users : ControlOK(c)
  BY <1>1 DEF ControlOK
<1>3. QueueOK
  BY <1>1, ExecutorAssumption DEF QueueOK
<1>4. \A u \in Users : \A d : ~Holds(u, d)
  BY <1>1 DEF Holds
<1>5. LocksAgree
  <2>1. \A k \in Keys, u \in Users : writer[k] # u
    BY LocksAssumption
  <2>2. \A k : ReadersOf(k) = {}
    BY <1>4 DEF ReadersOf
  <2>3. QED
    BY <1>4, <2>1, <2>2, FS_EmptySet DEF LocksAgree
<1>6. ReadersTracked
  BY <1>4, EmptyQueue DEF ReadersTracked, Tracks
<1>7. QED
  BY <1>2, <1>3, <1>5, <1>6 DEF HInv, Places, Outcomes, Results

(* Only Acquire and ReleaseLast touch locks: the others leave who holds what. *)
LEMMA AgreesOtherwise ==
    ASSUME HInv, UNCHANGED lockVars, UNCHANGED got
    PROVE  /\ LocksAgree' /\ ReadersTracked'
           /\ writer' \in [Keys -> Users \union {NoUser}] /\ readers' \in [Keys -> Nat]
<1>1. \A u, d : Holds(u, d)' <=> Holds(u, d)
  BY DEF Holds, Plan, Sorted
<1>2. \A k : ReadersOf(k)' = ReadersOf(k)
  BY <1>1 DEF ReadersOf
<1>3. QED
  BY <1>1, <1>2 DEF HInv, LocksAgree, ReadersTracked, Tracks, lockVars

(* Without timeouts nothing is released by force. *)
LEMMA HInvNext ==
    ASSUME Timed = {}, HInv, [Next]_vars
    PROVE  HInv'
<1> USE DEF Goto
<1>0. /\ \A c \in Users : /\ Plan(c) \in Seq(Declarations) /\ Len(Plan(c)) \in Nat
                          /\ ControlOK(c) /\ got[c] \in Nat /\ pc[c] \in Places
                          /\ forced[c] = 0
      /\ pc \in [Users -> Places] /\ got \in [Users -> Nat]
      /\ outcome \in [Users -> Outcomes] /\ result \in [Users -> Results]
      /\ forced = [c \in Users |-> 0]
      /\ QueueOK
  BY PlanIsList DEF HInv
<1>1. ASSUME NEW c \in Users, Start(c)
      PROVE  HInv'
  <2>1. /\ queue # <<>> /\ c = Head(queue) /\ queue' = Tail(queue)
        /\ pc' = [pc EXCEPT ![c] = IF Plan(c) = <<>> THEN "running" ELSE "acquiring"]
        /\ UNCHANGED <<lockVars, got, attempt, outcome, forced, result>>
    BY <1>1 DEF Start
  <2>2. /\ Contains(queue, c)
        /\ queue' \in Seq(Users) /\ IsInjective(queue')
        /\ \A e : Contains(queue', e) <=> Contains(queue, e) /\ e # c
    BY <1>0, <2>1, TailQueue DEF QueueOK
  <2>3. pc[c] = "queued" /\ got[c] = 0 /\ result[c] = "none"
    BY <1>0, <2>2 DEF QueueOK, ControlOK
  <2>4. QueueOK'
    BY <1>0, <2>1, <2>2 DEF QueueOK
  <2>5. ASSUME NEW u \in Users
        PROVE  ControlOK(u)'
    <3>1. CASE u = c
      <4>1. Plan(c) = <<>> <=> Len(Plan(c)) = 0
        BY <1>0, EmptySeq
      <4>2. QED
        BY <1>0, <2>1, <2>3, <3>1, <4>1 DEF ControlOK
    <3>2. CASE u # c
      BY <1>0, <2>1, <3>2 DEF ControlOK
    <3>3. QED
      BY <3>1, <3>2
  <2>6. QED
    BY <1>0, <2>1, <2>4, <2>5, AgreesOtherwise DEF HInv, Places
<1>2. ASSUME NEW c \in Users, Acquire(c)
      PROVE  HInv'
  <2>1. /\ pc[c] \in {"acquiring", "waiting"} /\ Grant(c, Wanted(c))
        /\ got' = [got EXCEPT ![c] = @ + 1]
        /\ pc' = [pc EXCEPT ![c] = IF got[c] + 1 = Len(Plan(c)) THEN "running" ELSE "acquiring"]
        /\ UNCHANGED <<queue, attempt, outcome, forced, result>>
    BY <1>2 DEF Acquire
  <2>2. got[c] < Len(Plan(c)) /\ pc[c] # "queued" /\ pc[c] # "ended"
    BY <1>0, <2>1 DEF ControlOK
  <2>3. LocksAgree' /\ ReadersTracked'
    BY <2>1, <2>2, GrantAgrees, GrantTracks
  <2>4. writer' \in [Keys -> Users \union {NoUser}] /\ readers' \in [Keys -> Nat]
    <3>1. Wanted(c).key \in Keys
      BY <2>1, <2>2, MoreHeld DEF Declarations
    <3>2. QED
      BY <2>1, <3>1 DEF HInv, Grant
  <2>5. QueueOK'
    BY <1>0, <2>1, <2>2 DEF QueueOK
  <2>6. ASSUME NEW u \in Users
        PROVE  ControlOK(u)'
    <3>1. CASE u = c
      BY <1>0, <2>1, <2>2, <3>1 DEF ControlOK
    <3>2. CASE u # c
      BY <1>0, <2>1, <3>2 DEF ControlOK
    <3>3. QED
      BY <3>1, <3>2
  <2>7. QED
    BY <1>0, <2>1, <2>3, <2>4, <2>5, <2>6 DEF HInv, Places
<1>3. ASSUME NEW c \in Users, ReleaseLast(c)
      PROVE  HInv'
  <2>1. /\ pc[c] = "releasing" /\ got[c] > 0 /\ Release(c, Plan(c)[got[c]])
        /\ got' = [got EXCEPT ![c] = @ - 1]
        /\ UNCHANGED <<queue, pc, attempt, outcome, forced, result>>
    BY <1>3 DEF ReleaseLast
  <2>2. /\ LocksAgree' /\ ReadersTracked'
        /\ writer' \in [Keys -> Users \union {NoUser}] /\ readers' \in [Keys -> Nat]
    BY <2>1, ReleaseAgrees, ReleaseTracks
  <2>3. QueueOK'
    BY <1>0, <2>1 DEF QueueOK
  <2>4. ASSUME NEW u \in Users
        PROVE  ControlOK(u)'
    <3>1. CASE u = c
      BY <1>0, <2>1, <3>1 DEF ControlOK
    <3>2. CASE u # c
      BY <1>0, <2>1, <3>2 DEF ControlOK
    <3>3. QED
      BY <3>1, <3>2
  <2>5. QED
    BY <1>0, <2>1, <2>2, <2>3, <2>4 DEF HInv
<1>4. ASSUME NEW c \in Users, Block(c) \/ GiveUp(c) \/ Return(c) \/ ReleasedAll(c)
      PROVE  HInv'
  <2> USE DEF Block, GiveUp, Return, ReleasedAll
  <2>1. /\ pc[c] \notin {"queued", "ended"}
        /\ pc' = [pc EXCEPT ![c] = pc'[c]] /\ pc'[c] \in Places
        /\ outcome' = [outcome EXCEPT ![c] = outcome'[c]] /\ outcome'[c] \in Outcomes
        /\ UNCHANGED <<lockVars, queue, got, forced, result>>
    BY <1>0, <1>4 DEF Places, Outcomes
  <2>2. QueueOK'
    BY <1>0, <2>1 DEF QueueOK
  <2>3. ControlOK(c)'
    <3>1. Plan(c) = <<>> <=> Len(Plan(c)) = 0
      BY <1>0, EmptySeq
    <3>2. CASE Block(c)
      BY <1>0, <3>1, <3>2 DEF ControlOK
    <3>3. CASE GiveUp(c)
      BY <1>0, <3>1, <3>3 DEF ControlOK
    <3>4. CASE Return(c)
      BY <1>0, <3>1, <3>4 DEF ControlOK
    <3>5. CASE ReleasedAll(c)
      BY <1>0, <3>1, <3>5 DEF ControlOK
    <3>6. QED
      BY <1>4, <3>2, <3>3, <3>4, <3>5
  <2>4. ASSUME NEW u \in Users, u # c
        PROVE  ControlOK(u)'
    BY <1>0, <2>1, <2>4 DEF ControlOK
  <2>5. QED
    BY <1>0, <2>1, <2>2, <2>3, <2>4, AgreesOtherwise DEF HInv
<1>5. ASSUME NEW c \in Users, Finish(c)
      PROVE  HInv'
  <2>1. /\ pc[c] = "ended" /\ result' = [result EXCEPT ![c] = outcome[c]]
        /\ UNCHANGED <<lockVars, queue, callVars, forced>>
    BY <1>5 DEF Finish
  <2>2. outcome[c] # "retry"
    BY <1>0, <2>1 DEF ControlOK
  <2>3. result' \in [Users -> Results]
    BY <1>0, <2>1, <2>2 DEF Outcomes, Results
  <2>4. QueueOK'
    BY <1>0, <2>1 DEF QueueOK, callVars
  <2>5. ASSUME NEW u \in Users
        PROVE  ControlOK(u)'
    BY <1>0, <2>1 DEF ControlOK, callVars
  <2>6. QED
    BY <1>0, <2>1, <2>3, <2>4, <2>5, AgreesOtherwise DEF HInv, callVars
<1>6. ASSUME NEW c \in Users, Expire(c) \/ ForceOne(c) \/ Abandon(c)
      PROVE  FALSE
  BY <1>0, <1>6 DEF Expire, ForceOne, Abandon
<1>7. CASE Idle \/ UNCHANGED vars
  <2>1. UNCHANGED <<lockVars, queue, callVars, forced, result>>
    BY <1>7 DEF Idle, vars
  <2>2. QED
    BY <2>1, AgreesOtherwise DEF HInv, QueueOK, ControlOK, callVars
<1>8. QED
  BY <1>1, <1>2, <1>3, <1>4, <1>5, <1>6, <1>7 DEF Next

LEMMA HInvHolds ==
    ASSUME Timed = {}
    PROVE  Spec => []HInv
<1>1. HInv /\ [Next]_vars => HInv'
  BY HInvNext
<1>2. QED
  BY <1>1, HInvInit, PTL DEF Spec

(* A call that runs its tool has all it declares. *)
LEMMA RunnersHold ==
    ASSUME HInv, NEW c \in Users, pc[c] = "running", NEW d \in Decl[c]
    PROVE  /\ d \in Declarations /\ d.key \in Keys
           /\ d.mode = "WRITE" => writer[d.key] = c
           /\ d.mode # "WRITE" => readers[d.key] > 0
<1>1. d \in Declarations
  BY ExecutorAssumption
<1>2. d.key \in Keys /\ d.mode \in Modes /\ d = [key |-> d.key, mode |-> d.mode]
  BY <1>1 DEF Declarations
<1>3. got[c] = Len(Plan(c))
  BY DEF HInv, ControlOK
<1>4. Holds(c, d)
  BY <1>3, PlanIsList DEF Holds
<1>5. d.mode = "WRITE" => writer[d.key] = c
  BY <1>2, <1>4 DEF HInv, LocksAgree, WriteOf
<1>6. ASSUME d.mode = "READ"
      PROVE  readers[d.key] > 0
  <2>1. c \in ReadersOf(d.key)
    BY <1>2, <1>4, <1>6 DEF ReadersOf, ReadOf
  <2>2. Cardinality(ReadersOf(d.key)) # 0
    BY <2>1, ReadersFinite, FS_EmptySet
  <2>3. QED
    BY <1>2, <2>2, ReadersFinite DEF HInv, LocksAgree
<1>7. QED
  BY <1>1, <1>2, <1>5, <1>6 DEF Modes

(***************************************************************************)
(* "A WRITE lock is exclusive": the tools of conflicting calls never run   *)
(* at the same time, for every batch without timeouts.                     *)
(***************************************************************************)
THEOREM ConflictsAreSerialised ==
    ASSUME Timed = {}
    PROVE  Spec => []ConflictsSerialised
<1>1. ASSUME HInv, WriterExcludesReaders
      PROVE  ConflictsSerialised
  <2>1. SUFFICES ASSUME NEW c \in Users, NEW d \in Users, c # d,
                        pc[c] = "running", pc[d] = "running",
                        NEW x \in Decl[c], NEW y \in Decl[d],
                        x.key = y.key, x.mode = "WRITE" \/ y.mode = "WRITE"
                 PROVE  FALSE
    BY DEF ConflictsSerialised, RunsUnderLocks, Conflict
  <2>2. /\ x.key \in Keys /\ y.key \in Keys
        /\ x.mode = "WRITE" => writer[x.key] = c
        /\ x.mode # "WRITE" => readers[x.key] > 0
        /\ y.mode = "WRITE" => writer[y.key] = d
        /\ y.mode # "WRITE" => readers[y.key] > 0
    BY <1>1, <2>1, RunnersHold
  <2>3. \A k \in Keys, u \in Users : writer[k] = u => readers[k] = 0
    BY <1>1, LocksAssumption DEF WriterExcludesReaders
  <2>4. QED
    BY <2>1, <2>2, <2>3
<1>2. QED
  BY <1>1, HInvHolds, WritersExcludeReaders, PTL

(* Every call has ended, and no lock is taken. *)
LocksAreFreeAfterAll ==
    (\A c \in Users : pc[c] = "ended") =>
        \A k \in Keys : writer[k] = NoUser /\ readers[k] = 0

(***************************************************************************)
(* "ALWAYS release via the handle": a batch without timeouts leaves every  *)
(* lock as it found it, whatever failed, retried or gave up on the way.    *)
(***************************************************************************)
THEOREM BatchesLeaveNothing ==
    ASSUME Timed = {}
    PROVE  Spec => []LocksAreFreeAfterAll
<1>1. ASSUME HInv
      PROVE  LocksAreFreeAfterAll
  <2>1. SUFFICES ASSUME \A c \in Users : pc[c] = "ended", NEW k \in Keys
                 PROVE  writer[k] = NoUser /\ readers[k] = 0
    BY DEF LocksAreFreeAfterAll
  <2>2. \A u \in Users : got[u] = 0
    BY <1>1, <2>1 DEF HInv, ControlOK
  <2>3. \A u \in Users : \A d : ~Holds(u, d)
    BY <2>2 DEF Holds
  <2>4. writer[k] = NoUser
    BY <1>1, <2>3 DEF HInv, LocksAgree
  <2>5. ReadersOf(k) = {}
    BY <2>3 DEF ReadersOf
  <2>6. readers[k] = 0
    BY <1>1, <2>5, FS_EmptySet DEF HInv, LocksAgree
  <2>7. QED
    BY <2>4, <2>6
<1>2. QED
  BY <1>1, HInvHolds, PTL

(***************************************************************************)
(* The locks of a call are free again, in the fields of every lock, as     *)
(* soon as its thread has ended and while the other calls still run: of    *)
(* every batch without timeouts, however often waits for locks expire.     *)
(***************************************************************************)
THEOREM EndedCallsHoldNothing ==
    ASSUME Timed = {}
    PROVE  Spec => []NothingHeldAfterEnd
<1>1. ASSUME HInv
      PROVE  NothingHeldAfterEnd
  <2>1. SUFFICES ASSUME NEW c \in Users, pc[c] = "ended", NEW k \in Keys
                 PROVE  writer[k] # c /\ ~Contains(tracked[k], c)
    BY DEF NothingHeldAfterEnd
  <2>2. got[c] = 0
    BY <1>1, <2>1 DEF HInv, ControlOK
  <2>3. ~Holds(c, WriteOf(k)) /\ ~Holds(c, ReadOf(k))
    BY <2>2 DEF Holds
  <2>4. QED
    BY <1>1, <2>3 DEF HInv, LocksAgree, ReadersTracked, Tracks
<1>2. QED
  BY <1>1, HInvHolds, PTL

-----------------------------------------------------------------------------
(* The executor of coroutines.                                             *)

TaskHolds(c, d) == \E i \in 1 .. taskGot[c] : Async!Plan(c)[i] = d

TaskReadersOf(k) == {c \in Async!Calls : TaskHolds(c, ReadOf(k))}

(* A lock that a call has for writing is taken, and by no other call; the   *)
(* counter of readers counts the calls that have the lock for reading.      *)
TaskLocksAgree ==
    /\ \A k \in Keys, c \in Async!Calls : TaskHolds(c, WriteOf(k)) => asyncWriter[k] # NoUser
    /\ \A k \in Keys, c, d \in Async!Calls :
          TaskHolds(c, WriteOf(k)) /\ TaskHolds(d, WriteOf(k)) => c = d
    /\ \A k \in Keys : asyncReaders[k] = Cardinality(TaskReadersOf(k))

TaskLocksOK ==
    /\ Async!LocksTypeOK /\ Async!WriterExcludesReaders
    /\ taskGot \in [Async!Calls -> Nat]
    /\ \A c \in Async!Calls : taskGot[c] <= Len(Async!Plan(c))
    /\ TaskLocksAgree

(* A job that no thread has taken is what its task waits for. *)
Awaited(j) ==
    \/ taskAt[j.call] = "acquiring" /\ j.does = "acquire"
    \/ taskAt[j.call] = "running" /\ j.does = "run" /\ j.call \in Sync
    \/ taskAt[j.call] = "releasing" /\ j.does = "release"

QueuedIsAwaited ==
    /\ jobs \in Seq(Async!Jobs) /\ IsInjective(jobs)
    /\ \A j \in Async!Jobs : Contains(jobs, j) => Awaited(j)

(* The thread acquires or releases locks for the call. *)
Touches(t, c) == job[t] # NoJob /\ job[t].call = c /\ job[t].does # "run"

(* No other thread does, no job for that waits, and the task is where it    *)
(* waits for the thread, or has run into its timeout. *)
TouchedByOne(t, c) ==
    /\ \A u \in Threads : Touches(u, c) => u = t
    /\ \A j \in Async!Jobs : Contains(jobs, j) => j.call # c
    /\ \/ taskAt[c] = "acquiring" /\ job[t].does # "release"
       \/ taskAt[c] = "releasing" /\ job[t].does = "release"
       \/ taskAt[c] = "done" /\ taskResult[c] # "answered"
    /\ job[t].does = "undo" => taskAttempt[c] < MaxTaskAttempts

(* A thread runs the tool of a call once, and the queue has no other job    *)
(* to run it. *)
RunsOnce(t) ==
    job[t] # NoJob /\ job[t].does = "run" =>
        /\ taskAt[job[t].call] \notin {"new", "acquiring", "acquired"}
        /\ ~Contains(jobs, job[t])

TaskControlOK(c) ==
    /\ taskAttempt[c] \in 1 .. MaxTaskAttempts
    /\ taskAt[c] \in {"acquired", "running", "returned"} => Async!Complete(c)
    /\ taskResult[c] = "answered" => taskAt[c] \in {"releasing", "done"}
    /\ taskResult[c] = "answered" /\ taskAt[c] = "done" => taskGot[c] = 0

TaskPlaces == {"new", "acquiring", "acquired", "running", "returned", "releasing", "done"}

TaskInv ==
    /\ TaskLocksOK
    /\ taskAt \in [Async!Calls -> TaskPlaces]
    /\ job \in [Threads -> Async!Jobs \union {NoJob}]
    /\ taskAttempt \in [Async!Calls -> Nat]
    /\ taskResult \in [Async!Calls -> {"none", "answered", "late", "failed"}]
    /\ QueuedIsAwaited
    /\ \A t \in Threads, c \in Async!Calls : Touches(t, c) => TouchedByOne(t, c)
    /\ \A t \in Threads : RunsOnce(t)
    /\ \A c \in Async!Calls : TaskControlOK(c)

-----------------------------------------------------------------------------
(* What its calls have acquired. *)

LEMMA TasksAre ==
    ASSUME Async!AsyncAssumption
    PROVE  /\ Keys \subseteq Nat /\ NoUser \notin Threads /\ NoJob \notin Async!Jobs
           /\ IsFiniteSet(Async!Calls)
           /\ MaxTaskAttempts \in Nat \ {0}
<1>1. /\ Coroutines \in Seq(Async!Calls) /\ Async!Calls = {Coroutines[i] : i \in DOMAIN Coroutines}
  BY DEF Async!AsyncAssumption, Async!Calls, Async!ToSet
<1>2. /\ DOMAIN Coroutines = 1 .. Len(Coroutines) /\ Len(Coroutines) \in Nat
      /\ Coroutines \in [1 .. Len(Coroutines) -> Async!Calls]
  BY <1>1
<1>3. IsFiniteSet(1 .. Len(Coroutines))
  <2>1. 1 \in Int /\ Len(Coroutines) \in Int
    BY <1>2
  <2>2. QED
    BY <2>1, FS_Interval
<1>4. Coroutines \in Surjection(1 .. Len(Coroutines), Async!Calls)
  BY <1>1, <1>2 DEF Surjection
<1>5. IsFiniteSet(Async!Calls)
  BY <1>3, <1>4, FS_Surjection
<1>6. QED
  BY <1>5 DEF Async!AsyncAssumption

(* The plan of a call has each of its declarations once. *)
LEMMA TaskPlan ==
    ASSUME Async!AsyncAssumption, NEW c \in Async!Calls
    PROVE  /\ Async!Plan(c) \in Seq(Declarations) /\ Len(Async!Plan(c)) \in Nat
           /\ \A i, j \in 1 .. Len(Async!Plan(c)) : Async!Plan(c)[i] = Async!Plan(c)[j] => i = j
           /\ \A d \in CoroutineDecl[c] : \E i \in 1 .. Len(Async!Plan(c)) : Async!Plan(c)[i] = d
           /\ \A i \in 1 .. Len(Async!Plan(c)) :
                 Async!Plan(c)[i] \in CoroutineDecl[c] /\ Async!Plan(c)[i] \in Declarations
<1>1. Async!Declarations = Declarations
  BY DEF Async!Declarations, Declarations, Async!Modes, Modes
<1>2. CoroutineDecl[c] \in SUBSET Declarations /\ IsFiniteSet(CoroutineDecl[c])
  <2>1. CoroutineDecl \in [Async!Calls -> SUBSET Async!Declarations]
        /\ Async!IsFiniteSet(CoroutineDecl[c])
    BY DEF Async!AsyncAssumption
  <2>2. Async!IsFiniteSet(CoroutineDecl[c]) = IsFiniteSet(CoroutineDecl[c])
    BY Zenon DEF Async!IsFiniteSet, IsFiniteSet
  <2>3. QED
    BY <1>1, <2>1, <2>2
<1>3. Async!Plan(c) = Sorted(CoroutineDecl[c])
  <2>1. Async!Cardinality(CoroutineDecl[c]) = Cardinality(CoroutineDecl[c])
    BY Zenon DEF Async!Cardinality, Cardinality, Async!IsFiniteSet, IsFiniteSet
  <2>2. QED
    BY <2>1, Zenon DEF Async!Plan, Async!Sorted, Sorted, Async!Precedes, Precedes
<1>4. QED
  BY <1>2, <1>3, SortedIsList

LEMMA TaskReadersFinite ==
    ASSUME Async!AsyncAssumption, NEW k
    PROVE  IsFiniteSet(TaskReadersOf(k)) /\ Cardinality(TaskReadersOf(k)) \in Nat
<1>1. TaskReadersOf(k) \subseteq Async!Calls /\ IsFiniteSet(Async!Calls)
  BY TasksAre DEF TaskReadersOf
<1>2. QED
  BY <1>1, FS_Subset, FS_CardinalityType

(* One more lock of the plan. *)
LEMMA TaskMoreHeld ==
    ASSUME Async!AsyncAssumption, TaskLocksOK, NEW c \in Async!Calls,
           taskGot[c] # Len(Async!Plan(c)), taskGot' = [taskGot EXCEPT ![c] = @ + 1]
    PROVE  /\ taskGot' \in [Async!Calls -> Nat]
           /\ \A u \in Async!Calls : taskGot'[u] <= Len(Async!Plan(u))
           /\ Async!Wanted(c) \in Declarations /\ ~TaskHolds(c, Async!Wanted(c))
           /\ \A u \in Async!Calls : \A d :
                 TaskHolds(u, d)' <=> TaskHolds(u, d) \/ (u = c /\ d = Async!Wanted(c))
<1>1. /\ taskGot \in [Async!Calls -> Nat] /\ taskGot[c] \in Nat /\ taskGot' \in [Async!Calls -> Nat]
      /\ \A u \in Async!Calls : taskGot[u] <= Len(Async!Plan(u))
  BY DEF TaskLocksOK
<1>2. /\ Async!Plan(c) \in Seq(Declarations) /\ Len(Async!Plan(c)) \in Nat
      /\ \A i, j \in 1 .. Len(Async!Plan(c)) : Async!Plan(c)[i] = Async!Plan(c)[j] => i = j
      /\ \A i \in 1 .. Len(Async!Plan(c)) : Async!Plan(c)[i] \in Declarations
  BY TaskPlan
<1>3. taskGot[c] + 1 \in 1 .. Len(Async!Plan(c))
  BY <1>1, <1>2
<1>4. Async!Wanted(c) \in Declarations
  BY <1>2, <1>3 DEF Async!Wanted
<1>5. ~TaskHolds(c, Async!Wanted(c))
  <2>1. SUFFICES ASSUME NEW i \in 1 .. taskGot[c], Async!Plan(c)[i] = Async!Plan(c)[taskGot[c] + 1]
                 PROVE  FALSE
    BY DEF TaskHolds, Async!Wanted
  <2>2. i \in 1 .. Len(Async!Plan(c)) /\ i # taskGot[c] + 1
    BY <1>1, <1>2
  <2>3. QED
    BY <1>2, <1>3, <2>1, <2>2
<1>6. ASSUME NEW u \in Async!Calls, NEW d
      PROVE  TaskHolds(u, d)' <=> TaskHolds(u, d) \/ (u = c /\ d = Async!Wanted(c))
  <2>1. CASE u = c
    <3>1. taskGot'[c] = taskGot[c] + 1
      BY <1>1
    <3>2. 1 .. taskGot'[c] = (1 .. taskGot[c]) \union {taskGot[c] + 1}
      BY <1>1, <3>1
    <3>3. QED
      BY <2>1, <3>2 DEF TaskHolds, Async!Wanted, Async!Plan, Async!Sorted
  <2>2. CASE u # c
    <3>1. taskGot'[u] = taskGot[u]
      BY <1>1, <2>2
    <3>2. QED
      BY <2>2, <3>1 DEF TaskHolds, Async!Plan, Async!Sorted
  <2>3. QED
    BY <2>1, <2>2
<1>7. ASSUME NEW u \in Async!Calls
      PROVE  taskGot'[u] <= Len(Async!Plan(u))
  BY <1>1, <1>3
<1>8. QED
  BY <1>1, <1>4, <1>5, <1>6, <1>7

(* One lock less, the last of those acquired. *)
LEMMA TaskLessHeld ==
    ASSUME Async!AsyncAssumption, TaskLocksOK, NEW c \in Async!Calls,
           taskGot[c] > 0, taskGot' = [taskGot EXCEPT ![c] = @ - 1]
    PROVE  LET d == Async!Plan(c)[taskGot[c]]
           IN  /\ taskGot' \in [Async!Calls -> Nat]
               /\ \A u \in Async!Calls : taskGot'[u] <= Len(Async!Plan(u))
               /\ d \in Declarations /\ TaskHolds(c, d)
               /\ \A u \in Async!Calls : \A e :
                     TaskHolds(u, e)' <=> TaskHolds(u, e) /\ ~(u = c /\ e = d)
<1> DEFINE d == Async!Plan(c)[taskGot[c]]
<1>1. /\ taskGot \in [Async!Calls -> Nat] /\ taskGot[c] \in Nat /\ taskGot' \in [Async!Calls -> Nat]
      /\ \A u \in Async!Calls : taskGot[u] <= Len(Async!Plan(u))
  BY DEF TaskLocksOK
<1>2. /\ Len(Async!Plan(c)) \in Nat
      /\ \A i, j \in 1 .. Len(Async!Plan(c)) : Async!Plan(c)[i] = Async!Plan(c)[j] => i = j
      /\ \A i \in 1 .. Len(Async!Plan(c)) : Async!Plan(c)[i] \in Declarations
  BY TaskPlan
<1>3. taskGot[c] \in 1 .. Len(Async!Plan(c)) /\ taskGot[c] \in 1 .. taskGot[c]
  BY <1>1, <1>2
<1>4. d \in Declarations /\ TaskHolds(c, d)
  BY <1>2, <1>3 DEF TaskHolds
<1>5. ASSUME NEW u \in Async!Calls, NEW e
      PROVE  TaskHolds(u, e)' <=> TaskHolds(u, e) /\ ~(u = c /\ e = d)
  <2>1. CASE u = c
    <3>1. 1 .. taskGot'[c] = (1 .. taskGot[c]) \ {taskGot[c]}
      BY <1>1
    <3>2. ASSUME NEW i \in 1 .. taskGot[c], Async!Plan(c)[i] = d
          PROVE  i = taskGot[c]
      <4>1. i \in 1 .. Len(Async!Plan(c))
        BY <1>1, <1>2
      <4>2. QED
        BY <1>2, <1>3, <3>2, <4>1
    <3>3. TaskHolds(c, e)' <=> \E i \in 1 .. taskGot[c] : i # taskGot[c] /\ Async!Plan(c)[i] = e
      BY <3>1 DEF TaskHolds, Async!Plan, Async!Sorted
    <3>4. QED
      BY <1>3, <2>1, <3>2, <3>3 DEF TaskHolds
  <2>2. CASE u # c
    <3>1. taskGot'[u] = taskGot[u]
      BY <1>1, <2>2
    <3>2. QED
      BY <2>2, <3>1 DEF TaskHolds, Async!Plan, Async!Sorted
  <2>3. QED
    BY <2>1, <2>2
<1>6. ASSUME NEW u \in Async!Calls
      PROVE  taskGot'[u] <= Len(Async!Plan(u))
  <2>1. taskGot'[u] \in Nat /\ taskGot[u] \in Nat /\ taskGot'[u] <= taskGot[u]
    BY <1>1
  <2>2. Len(Async!Plan(u)) \in Nat
    BY TaskPlan
  <2>3. QED
    BY <1>1, <2>1, <2>2
<1>7. QED
  BY <1>1, <1>4, <1>5, <1>6

(* A critical section of acquire. *)
LEMMA TaskGrant ==
    ASSUME Async!AsyncAssumption, TaskLocksOK, NEW t \in Threads, NEW c \in Async!Calls,
           taskGot[c] # Len(Async!Plan(c)), Async!Grant(t, Async!Wanted(c)),
           taskGot' = [taskGot EXCEPT ![c] = @ + 1]
    PROVE  TaskLocksOK'
<1> DEFINE d == Async!Wanted(c)
<1>1. /\ taskGot' \in [Async!Calls -> Nat]
      /\ \A u \in Async!Calls : taskGot'[u] <= Len(Async!Plan(u))
      /\ d \in Declarations /\ ~TaskHolds(c, d)
      /\ \A u \in Async!Calls : \A e : TaskHolds(u, e)' <=> TaskHolds(u, e) \/ (u = c /\ e = d)
  BY TaskMoreHeld
<1>2. d.key \in Keys /\ d = [key |-> d.key, mode |-> d.mode] /\ d.mode \in {"READ", "WRITE"}
  BY <1>1 DEF Declarations, Modes
<1>3. /\ asyncWriter \in [Keys -> Threads \union {NoUser}] /\ asyncReaders \in [Keys -> Nat]
      /\ asyncTracked \in [Keys -> Seq(Threads)]
      /\ \A k \in Keys : asyncWriter[k] # NoUser => asyncReaders[k] = 0
      /\ \A k \in Keys, u \in Async!Calls : TaskHolds(u, WriteOf(k)) => asyncWriter[k] # NoUser
      /\ \A k \in Keys, u, v \in Async!Calls :
            TaskHolds(u, WriteOf(k)) /\ TaskHolds(v, WriteOf(k)) => u = v
      /\ \A k \in Keys : asyncReaders[k] = Cardinality(TaskReadersOf(k))
  BY DEF TaskLocksOK, TaskLocksAgree, Async!LocksTypeOK, Async!WriterExcludesReaders
<1>4. /\ asyncWriter[d.key] = NoUser /\ (d.mode = "WRITE" => asyncReaders[d.key] = 0)
      /\ \/ /\ d.mode = "READ"
            /\ asyncReaders' = [asyncReaders EXCEPT ![d.key] = @ + 1]
            /\ asyncTracked' = [asyncTracked EXCEPT ![d.key] = Append(@, t)]
            /\ asyncWriter' = asyncWriter
         \/ /\ d.mode = "WRITE"
            /\ asyncWriter' = [asyncWriter EXCEPT ![d.key] = t]
            /\ asyncReaders' = asyncReaders /\ asyncTracked' = asyncTracked
  BY DEF Async!Grant, Async!Available
<1>5. TaskLocksOK' <=> /\ Async!LocksTypeOK' /\ Async!WriterExcludesReaders' /\ TaskLocksAgree'
  BY <1>1 DEF TaskLocksOK, Async!Plan, Async!Sorted
<1> HIDE DEF d
<1>6. CASE d.mode = "READ"
  <2>1. d = ReadOf(d.key) /\ \A k : d # WriteOf(k)
    BY <1>2, <1>6 DEF ReadOf, WriteOf
  <2>2. Append(asyncTracked[d.key], t) \in Seq(Threads) /\ asyncReaders[d.key] + 1 \in Nat
    BY <1>2, <1>3
  <2>3. Async!LocksTypeOK'
    BY <1>2, <1>3, <1>4, <1>6, <2>2 DEF Async!LocksTypeOK
  <2>4. Async!WriterExcludesReaders'
    BY <1>2, <1>3, <1>4, <1>6 DEF Async!WriterExcludesReaders
  <2>5. \A k \in Keys, u \in Async!Calls : TaskHolds(u, WriteOf(k))' <=> TaskHolds(u, WriteOf(k))
    BY <1>1, <2>1 DEF WriteOf
  <2>6. ASSUME NEW k \in Keys
        PROVE  asyncReaders'[k] = Cardinality(TaskReadersOf(k)')
    <3>1. CASE k = d.key
      <4>1. TaskReadersOf(k)' = TaskReadersOf(k) \union {c} /\ c \notin TaskReadersOf(k)
        BY <1>1, <2>1, <3>1 DEF TaskReadersOf, ReadOf
      <4>2. IsFiniteSet(TaskReadersOf(k))
        BY TaskReadersFinite
      <4>3. Cardinality(TaskReadersOf(k) \union {c}) = Cardinality(TaskReadersOf(k)) + 1
        BY <4>1, <4>2, FS_AddElement
      <4>4. QED
        BY <1>3, <1>4, <1>6, <3>1, <4>1, <4>3
    <3>2. CASE k # d.key
      <4>1. d # ReadOf(k)
        BY <3>2 DEF ReadOf
      <4>2. TaskReadersOf(k)' = TaskReadersOf(k)
        BY <1>1, <4>1 DEF TaskReadersOf, ReadOf
      <4>3. QED
        BY <1>3, <1>4, <1>6, <3>2, <4>2
    <3>3. QED
      BY <3>1, <3>2
  <2>7. TaskLocksAgree'
    BY <1>3, <1>4, <1>6, <2>5, <2>6 DEF TaskLocksAgree, WriteOf
  <2>8. QED
    BY <1>5, <2>3, <2>4, <2>7
<1>7. CASE d.mode = "WRITE"
  <2>1. d = WriteOf(d.key) /\ \A k : d # ReadOf(k)
    BY <1>2, <1>7 DEF ReadOf, WriteOf
  <2>2. Async!LocksTypeOK'
    BY <1>2, <1>3, <1>4, <1>7 DEF Async!LocksTypeOK
  <2>3. Async!WriterExcludesReaders'
    BY <1>2, <1>3, <1>4, <1>7 DEF Async!WriterExcludesReaders
  <2>4. \A k \in Keys : TaskReadersOf(k)' = TaskReadersOf(k)
    BY <1>1, <2>1 DEF TaskReadersOf, ReadOf
  <2>5. \A u \in Async!Calls : ~TaskHolds(u, WriteOf(d.key))
    BY <1>2, <1>3, <1>4
  <2>6. ASSUME NEW k \in Keys, NEW u \in Async!Calls
        PROVE  TaskHolds(u, WriteOf(k))' <=> IF k = d.key THEN u = c ELSE TaskHolds(u, WriteOf(k))
    <3>1. d = WriteOf(k) <=> k = d.key
      BY <2>1 DEF WriteOf
    <3>2. TaskHolds(u, WriteOf(k))' <=> TaskHolds(u, WriteOf(k)) \/ (u = c /\ WriteOf(k) = d)
      BY <1>1 DEF WriteOf
    <3>3. QED
      BY <2>5, <3>1, <3>2
  <2>7. asyncWriter'[d.key] # NoUser /\ \A k \in Keys : k # d.key => asyncWriter'[k] = asyncWriter[k]
    BY <1>2, <1>3, <1>4, <1>7, TasksAre
  <2>8. TaskLocksAgree'
    <3>1. \A k \in Keys, u \in Async!Calls : TaskHolds(u, WriteOf(k))' => asyncWriter'[k] # NoUser
      BY <1>3, <2>6, <2>7
    <3>2. \A k \in Keys, u, v \in Async!Calls :
             TaskHolds(u, WriteOf(k))' /\ TaskHolds(v, WriteOf(k))' => u = v
      BY <1>3, <2>6
    <3>3. \A k \in Keys : asyncReaders'[k] = Cardinality(TaskReadersOf(k)')
      BY <1>3, <1>4, <1>7, <2>4
    <3>4. QED
      BY <3>1, <3>2, <3>3 DEF TaskLocksAgree, WriteOf
  <2>9. QED
    BY <1>5, <2>2, <2>3, <2>8
<1>8. QED
  BY <1>2, <1>6, <1>7

(* A release, by the thread that wrote or by another. *)
LEMMA TaskRelease ==
    ASSUME Async!AsyncAssumption, TaskLocksOK, NEW t \in Threads, NEW c \in Async!Calls,
           taskGot[c] > 0, Async!Release(t, Async!Plan(c)[taskGot[c]]),
           taskGot' = [taskGot EXCEPT ![c] = @ - 1]
    PROVE  TaskLocksOK'
<1> DEFINE d == Async!Plan(c)[taskGot[c]]
<1>1. /\ taskGot' \in [Async!Calls -> Nat]
      /\ \A u \in Async!Calls : taskGot'[u] <= Len(Async!Plan(u))
      /\ d \in Declarations /\ TaskHolds(c, d)
      /\ \A u \in Async!Calls : \A e : TaskHolds(u, e)' <=> TaskHolds(u, e) /\ ~(u = c /\ e = d)
  BY TaskLessHeld
<1>2. d.key \in Keys /\ d = [key |-> d.key, mode |-> d.mode] /\ d.mode \in {"READ", "WRITE"}
  BY <1>1 DEF Declarations, Modes
<1>3. /\ asyncWriter \in [Keys -> Threads \union {NoUser}] /\ asyncReaders \in [Keys -> Nat]
      /\ asyncTracked \in [Keys -> Seq(Threads)]
      /\ \A k \in Keys : asyncWriter[k] # NoUser => asyncReaders[k] = 0
      /\ \A k \in Keys, u \in Async!Calls : TaskHolds(u, WriteOf(k)) => asyncWriter[k] # NoUser
      /\ \A k \in Keys, u, v \in Async!Calls :
            TaskHolds(u, WriteOf(k)) /\ TaskHolds(v, WriteOf(k)) => u = v
      /\ \A k \in Keys : asyncReaders[k] = Cardinality(TaskReadersOf(k))
  BY DEF TaskLocksOK, TaskLocksAgree, Async!LocksTypeOK, Async!WriterExcludesReaders
<1>4. TaskLocksOK' <=> /\ Async!LocksTypeOK' /\ Async!WriterExcludesReaders' /\ TaskLocksAgree'
  BY <1>1 DEF TaskLocksOK, Async!Plan, Async!Sorted
<1>5. Async!Release(t, d)
  OBVIOUS
<1> HIDE DEF d
<1>6. CASE d.mode = "READ"
  <2>1. d = ReadOf(d.key) /\ \A k : d # WriteOf(k)
    BY <1>2, <1>6 DEF ReadOf, WriteOf
  <2>2. c \in TaskReadersOf(d.key)
    BY <1>1, <2>1 DEF TaskReadersOf
  <2>3. asyncReaders[d.key] \in Nat \ {0}
    <3>1. IsFiniteSet(TaskReadersOf(d.key)) /\ Cardinality(TaskReadersOf(d.key)) # 0
      BY <2>2, TaskReadersFinite, FS_EmptySet
    <3>2. QED
      BY <1>2, <1>3, <3>1
  <2>4. Async!DropReader(d.key, t)
    BY <1>5, <1>6, <2>3 DEF Async!Release
  <2>5. /\ asyncReaders' = [asyncReaders EXCEPT ![d.key] = @ - 1] /\ asyncWriter' = asyncWriter
        /\ asyncReaders[d.key] - 1 \in Nat /\ asyncWriter[d.key] = NoUser
    BY <1>2, <1>3, <2>3, <2>4 DEF Async!DropReader
  <2>6. asyncTracked' \in [Keys -> Seq(Threads)]
    <3>1. CASE asyncTracked' = asyncTracked
      BY <1>3, <3>1
    <3>2. CASE \E i \in 1 .. Len(asyncTracked[d.key]) :
                  asyncTracked' = [asyncTracked EXCEPT ![d.key] = Async!RemoveAt(@, i)]
      <4>1. PICK i \in 1 .. Len(asyncTracked[d.key]) :
                asyncTracked' = [asyncTracked EXCEPT ![d.key] = Async!RemoveAt(@, i)]
        BY <3>2
      <4>2. asyncTracked[d.key] \in Seq(Threads)
        BY <1>2, <1>3
      <4>3. RemoveAt(asyncTracked[d.key], i) \in Seq(Threads)
        BY <4>2, RemoveAtProperties
      <4>4. Async!RemoveAt(asyncTracked[d.key], i) = RemoveAt(asyncTracked[d.key], i)
        BY DEF Async!RemoveAt, RemoveAt
      <4>5. QED
        BY <1>3, <4>1, <4>3, <4>4
    <3>3. QED
      BY <2>4, <3>1, <3>2 DEF Async!DropReader
  <2>7. Async!LocksTypeOK'
    BY <1>2, <1>3, <2>5, <2>6 DEF Async!LocksTypeOK
  <2>8. Async!WriterExcludesReaders'
    BY <1>2, <1>3, <2>5 DEF Async!WriterExcludesReaders
  <2>9. \A k \in Keys, u \in Async!Calls : TaskHolds(u, WriteOf(k))' <=> TaskHolds(u, WriteOf(k))
    BY <1>1, <2>1 DEF WriteOf
  <2>10. ASSUME NEW k \in Keys
         PROVE  asyncReaders'[k] = Cardinality(TaskReadersOf(k)')
    <3>1. CASE k = d.key
      <4>1. TaskReadersOf(k)' = TaskReadersOf(k) \ {c}
        BY <1>1, <2>1, <3>1 DEF TaskReadersOf, ReadOf
      <4>2. IsFiniteSet(TaskReadersOf(k))
        BY TaskReadersFinite
      <4>3. Cardinality(TaskReadersOf(k) \ {c}) = Cardinality(TaskReadersOf(k)) - 1
        BY <2>2, <3>1, <4>2, FS_RemoveElement
      <4>4. QED
        BY <1>3, <2>5, <3>1, <4>1, <4>3
    <3>2. CASE k # d.key
      <4>1. d # ReadOf(k)
        BY <3>2 DEF ReadOf
      <4>2. TaskReadersOf(k)' = TaskReadersOf(k)
        BY <1>1, <4>1 DEF TaskReadersOf, ReadOf
      <4>3. QED
        BY <1>3, <2>5, <3>2, <4>2
    <3>3. QED
      BY <3>1, <3>2
  <2>11. TaskLocksAgree'
    BY <1>3, <2>5, <2>9, <2>10 DEF TaskLocksAgree, WriteOf
  <2>12. QED
    BY <1>4, <2>7, <2>8, <2>11
<1>7. CASE d.mode = "WRITE"
  <2>1. d = WriteOf(d.key) /\ \A k : d # ReadOf(k)
    BY <1>2, <1>7 DEF ReadOf, WriteOf
  <2>2. /\ asyncReaders' = asyncReaders /\ asyncTracked' = asyncTracked
        /\ \/ asyncWriter' = asyncWriter
           \/ asyncWriter' = [asyncWriter EXCEPT ![d.key] = NoUser]
    BY <1>5, <1>7 DEF Async!Release, Async!lockVars
  <2>3. /\ asyncWriter' \in [Keys -> Threads \union {NoUser}]
        /\ \A k \in Keys : asyncWriter'[k] \in {asyncWriter[k], NoUser}
        /\ \A k \in Keys : k # d.key => asyncWriter'[k] = asyncWriter[k]
    BY <1>2, <1>3, <2>2
  <2>4. Async!LocksTypeOK' /\ Async!WriterExcludesReaders'
    BY <1>3, <2>2, <2>3 DEF Async!LocksTypeOK, Async!WriterExcludesReaders
  <2>5. \A k \in Keys : TaskReadersOf(k)' = TaskReadersOf(k)
    BY <1>1, <2>1 DEF TaskReadersOf, ReadOf
  <2>6. TaskHolds(c, WriteOf(d.key))
    BY <1>1, <2>1
  <2>7. ASSUME NEW k \in Keys, NEW u \in Async!Calls
        PROVE  TaskHolds(u, WriteOf(k))' => TaskHolds(u, WriteOf(k)) /\ k # d.key
    <3>1. TaskHolds(u, WriteOf(k))' <=> TaskHolds(u, WriteOf(k)) /\ ~(u = c /\ WriteOf(k) = d)
      BY <1>1 DEF WriteOf
    <3>2. QED
      BY <1>2, <1>3, <2>1, <2>6, <3>1
  <2>8. TaskLocksAgree'
    <3>1. \A k \in Keys, u \in Async!Calls : TaskHolds(u, WriteOf(k))' => asyncWriter'[k] # NoUser
      BY <1>3, <2>3, <2>7
    <3>2. \A k \in Keys, u, v \in Async!Calls :
             TaskHolds(u, WriteOf(k))' /\ TaskHolds(v, WriteOf(k))' => u = v
      BY <1>3, <2>7
    <3>3. \A k \in Keys : asyncReaders'[k] = Cardinality(TaskReadersOf(k)')
      BY <1>3, <2>2, <2>5
    <3>4. QED
      BY <3>1, <3>2, <3>3 DEF TaskLocksAgree, WriteOf
  <2>9. QED
    BY <1>4, <2>4, <2>8
<1>8. QED
  BY <1>2, <1>6, <1>7

(* A step that leaves locks and handles alone. *)
LEMMA TaskLocksStay ==
    ASSUME TaskLocksOK, UNCHANGED <<asyncWriter, asyncReaders, asyncTracked, taskGot>>
    PROVE  TaskLocksOK'
  BY DEF TaskLocksOK, TaskLocksAgree, Async!LocksTypeOK, Async!WriterExcludesReaders, TaskHolds,
         TaskReadersOf, Async!Plan, Async!Sorted

-----------------------------------------------------------------------------
(* Tasks and threads.                                                      *)

LEMMA JobsAre ==
    ASSUME NEW c \in Async!Calls, NEW does \in {"acquire", "wait", "undo", "run", "release"}
    PROVE  /\ Async!Job(c, does) \in Async!Jobs
           /\ Async!Job(c, does).call = c /\ Async!Job(c, does).does = does
  BY DEF Async!Jobs, Async!Job

LEMMA JobFields ==
    ASSUME NEW j \in Async!Jobs
    PROVE  /\ j.call \in Async!Calls /\ j.does \in {"acquire", "wait", "undo", "run", "release"}
           /\ j = [call |-> j.call, does |-> j.does]
  BY DEF Async!Jobs

LEMMA TaskTypes ==
    ASSUME TaskInv
    PROVE  /\ taskAt \in [Async!Calls -> TaskPlaces]
           /\ job \in [Threads -> Async!Jobs \union {NoJob}]
           /\ taskGot \in [Async!Calls -> Nat]
           /\ taskAttempt \in [Async!Calls -> Nat]
           /\ taskResult \in [Async!Calls -> {"none", "answered", "late", "failed"}]
           /\ jobs \in Seq(Async!Jobs) /\ IsInjective(jobs)
           /\ \A j \in Async!Jobs : Contains(jobs, j) => Awaited(j)
           /\ \A t \in Threads, c \in Async!Calls : Touches(t, c) => TouchedByOne(t, c)
           /\ \A t \in Threads : RunsOnce(t)
           /\ \A c \in Async!Calls : TaskControlOK(c)
  BY DEF TaskInv, QueuedIsAwaited, TaskLocksOK

(* A call has one job in the queue, and none where it waits for none. *)
LEMMA OneJob ==
    ASSUME TaskInv, NEW j \in Async!Jobs, Contains(jobs, j)
    PROVE  /\ taskAt[j.call] \in {"acquiring", "running", "releasing"}
           /\ taskAt[j.call] = "running" => j.call \in Sync
           /\ \A k \in Async!Jobs : Contains(jobs, k) /\ k.call = j.call => k = j
<1>1. Awaited(j) /\ \A k \in Async!Jobs : Contains(jobs, k) => Awaited(k)
  BY TaskTypes
<1>2. ASSUME NEW k \in Async!Jobs, Contains(jobs, k), k.call = j.call
      PROVE  k = j
  <2>1. Awaited(k)
    BY <1>1, <1>2
  <2>2. k.does = j.does
    BY <1>1, <1>2, <2>1 DEF Awaited
  <2>3. QED
    BY <1>2, <2>2, JobFields
<1>3. QED
  BY <1>1, <1>2 DEF Awaited

(* The queue behind a step of a task. *)
LEMMA QueueStep ==
    ASSUME TaskInv, NEW c \in Async!Calls, NEW q \in Seq(Async!Jobs), IsInjective(q),
           \A j \in Async!Jobs : Contains(q, j) => Contains(jobs, j) /\ j.call # c,
           taskAt' \in [Async!Calls -> TaskPlaces],
           \A e \in Async!Calls : e # c => taskAt'[e] = taskAt[e],
           NEW does \in {"acquire", "wait", "undo", "run", "release"},
           \/ jobs' = q
           \/ jobs' = Append(q, Async!Job(c, does)) /\ Awaited(Async!Job(c, does))'
    PROVE  /\ QueuedIsAwaited'
           /\ \A j \in Async!Jobs : Contains(jobs', j) =>
                 (Contains(jobs, j) /\ j.call # c) \/ j = Async!Job(c, does)
<1>1. \A j \in Async!Jobs : Contains(jobs, j) => Awaited(j)
  BY TaskTypes
<1>2. Async!Job(c, does) \in Async!Jobs /\ Async!Job(c, does).call = c
  BY JobsAre
<1>3. ASSUME NEW j \in Async!Jobs, Contains(q, j)
      PROVE  Awaited(j)'
  <2>1. Awaited(j) /\ taskAt'[j.call] = taskAt[j.call]
    BY <1>1, <1>3, JobFields
  <2>2. QED
    BY <2>1 DEF Awaited
<1>4. CASE jobs' = q
  BY <1>3, <1>4 DEF QueuedIsAwaited
<1>5. CASE jobs' = Append(q, Async!Job(c, does)) /\ Awaited(Async!Job(c, does))'
  <2>1. ~Contains(q, Async!Job(c, does))
    BY <1>2
  <2>2. /\ jobs' \in Seq(Async!Jobs) /\ IsInjective(jobs')
        /\ \A e : Contains(jobs', e) <=> Contains(q, e) \/ e = Async!Job(c, does)
    BY <1>2, <1>5, <2>1, AppendQueue
  <2>3. ASSUME NEW j \in Async!Jobs, Contains(jobs', j)
        PROVE  Awaited(j)'
    <3>1. CASE Contains(q, j)
      BY <1>3, <3>1
    <3>2. CASE j = Async!Job(c, does)
      BY <1>5, <3>2 DEF Awaited
    <3>3. QED
      BY <2>2, <2>3, <3>1, <3>2
  <2>4. QED
    BY <2>2, <2>3 DEF QueuedIsAwaited
<1>6. QED
  BY <1>4, <1>5

(* The steps of the tasks. *)
LEMMA TaskStep ==
    ASSUME TaskInv, NEW c \in Async!Calls,
           UNCHANGED <<asyncWriter, asyncReaders, asyncTracked, taskGot, job, taskAttempt>>,
           taskAt' \in [Async!Calls -> TaskPlaces],
           taskResult' \in [Async!Calls -> {"none", "answered", "late", "failed"}],
           \A e \in Async!Calls : e # c => taskAt'[e] = taskAt[e] /\ taskResult'[e] = taskResult[e],
           QueuedIsAwaited',
           \A j \in Async!Jobs : Contains(jobs', j) =>
               (Contains(jobs, j) /\ j.call # c) \/ (j.call = c /\ taskAt'[c] # "done"),
           \/ \A t \in Threads : ~Touches(t, c)
           \/ /\ taskAt'[c] = "done" /\ taskResult'[c] = "late",
           \/ \A t \in Threads : job[t] # NoJob /\ job[t].does = "run" => job[t].call # c
           \/ /\ taskAt'[c] \notin {"new", "acquiring", "acquired"}
              /\ \A j \in Async!Jobs : Contains(jobs', j) /\ j.does = "run" => j.call # c,
           TaskControlOK(c)'
    PROVE  TaskInv'
<1>1. TaskLocksOK'
  BY TaskLocksStay DEF TaskInv
<1>2. ASSUME NEW t \in Threads, NEW e \in Async!Calls, Touches(t, e)'
      PROVE  TouchedByOne(t, e)'
  <2>1. Touches(t, e) /\ job[t] \in Async!Jobs
    BY <1>2, TaskTypes DEF Touches
  <2>2. TouchedByOne(t, e)
    BY <2>1, TaskTypes
  <2>3. \A u \in Threads : Touches(u, e)' => u = t
    BY <2>2 DEF TouchedByOne, Touches
  <2>4. CASE e # c
    <3>1. \A j \in Async!Jobs : Contains(jobs', j) => j.call # e
      BY <2>2, <2>4 DEF TouchedByOne
    <3>2. QED
      BY <2>2, <2>3, <2>4, <3>1 DEF TouchedByOne
  <2>5. CASE e = c
    <3>1. taskAt'[c] = "done" /\ taskResult'[c] = "late"
      BY <2>1, <2>5
    <3>2. \A j \in Async!Jobs : Contains(jobs', j) => j.call # e
      BY <2>5, <3>1
    <3>3. job'[t].does = "undo" => taskAttempt'[c] < MaxTaskAttempts
      BY <2>2, <2>5 DEF TouchedByOne
    <3>4. QED
      BY <2>3, <2>5, <3>1, <3>2, <3>3 DEF TouchedByOne
  <2>6. QED
    BY <2>4, <2>5
<1>3. ASSUME NEW t \in Threads
      PROVE  RunsOnce(t)'
  <2>1. SUFFICES ASSUME job[t] # NoJob, job[t].does = "run"
                 PROVE  /\ taskAt'[job[t].call] \notin {"new", "acquiring", "acquired"}
                        /\ ~Contains(jobs', job[t])
    BY DEF RunsOnce
  <2>2. job[t] \in Async!Jobs /\ job[t].call \in Async!Calls
    BY <2>1, TaskTypes, JobFields
  <2>3. /\ taskAt[job[t].call] \notin {"new", "acquiring", "acquired"}
        /\ ~Contains(jobs, job[t])
    BY <2>1, TaskTypes DEF RunsOnce
  <2>4. QED
    BY <2>1, <2>2, <2>3
<1>4. ASSUME NEW e \in Async!Calls
      PROVE  TaskControlOK(e)'
  <2>1. CASE e = c
    BY <2>1
  <2>2. CASE e # c
    <3>1. TaskControlOK(e)
      BY TaskTypes
    <3>2. QED
      BY <2>2, <3>1 DEF TaskControlOK, Async!Complete, Async!Plan, Async!Sorted
  <2>3. QED
    BY <2>1, <2>2
<1>5. QED
  BY <1>1, <1>2, <1>3, <1>4, TaskTypes DEF TaskInv

LEMMA TaskInitIInv ==
    ASSUME Async!AsyncAssumption, Async!Init
    PROVE  TaskInv
<1>1. /\ \A k \in Keys : asyncWriter[k] = NoUser /\ asyncReaders[k] = 0
      /\ Async!LocksTypeOK
  BY EmptySeq DEF Async!Init, Async!InitLocks, Async!LocksTypeOK
<1>2. /\ taskGot = [c \in Async!Calls |-> 0] /\ taskAttempt = [c \in Async!Calls |-> 1]
      /\ taskAt = [c \in Async!Calls |-> "new"] /\ taskResult = [c \in Async!Calls |-> "none"]
      /\ jobs = <<>> /\ job = [t \in Threads |-> NoJob]
  BY DEF Async!Init
<1>3. \A c \in Async!Calls : \A d : ~TaskHolds(c, d)
  BY <1>2 DEF TaskHolds
<1>4. TaskLocksOK
  <2>1. \A k \in Keys : asyncReaders[k] = Cardinality(TaskReadersOf(k))
    <3>1. \A k \in Keys : TaskReadersOf(k) = {}
      BY <1>3 DEF TaskReadersOf
    <3>2. QED
      BY <1>1, <3>1, FS_EmptySet
  <2>2. \A c \in Async!Calls : taskGot[c] <= Len(Async!Plan(c))
    BY <1>2, TaskPlan
  <2>3. QED
    BY <1>1, <1>2, <1>3, <2>1, <2>2
       DEF TaskLocksOK, TaskLocksAgree, Async!WriterExcludesReaders
<1>5. QueuedIsAwaited
  BY <1>2, EmptyQueue DEF QueuedIsAwaited
<1>6. \A c \in Async!Calls : TaskControlOK(c)
  BY <1>2, TasksAre DEF TaskControlOK
<1>7. \A t \in Threads : RunsOnce(t) /\ \A c \in Async!Calls : ~Touches(t, c)
  BY <1>2 DEF RunsOnce, Touches
<1>8. QED
  BY <1>2, <1>4, <1>5, <1>6, <1>7 DEF TaskInv, TaskPlaces

(* What the queue has when nothing of the call is dropped. *)
LEMMA NoJobOf ==
    ASSUME TaskInv, NEW c \in Async!Calls,
           \/ taskAt[c] \in {"new", "acquired", "returned", "done"}
           \/ taskAt[c] = "running" /\ c \notin Sync
    PROVE  /\ \A j \in Async!Jobs : Contains(jobs, j) => j.call # c
           /\ taskAt[c] # "done" => \A t \in Threads : ~Touches(t, c)
<1>1. \A j \in Async!Jobs : Contains(jobs, j) => j.call # c
  BY OneJob
<1>2. ASSUME taskAt[c] # "done", NEW t \in Threads, Touches(t, c)
      PROVE  FALSE
  <2>1. TouchedByOne(t, c)
    BY <1>2, TaskTypes
  <2>2. QED
    BY <1>2, <2>1 DEF TouchedByOne
<1>3. QED
  BY <1>1, <1>2

LEMMA TaskEnters ==
    ASSUME Async!AsyncAssumption, TaskInv, NEW c \in Async!Calls, Async!Enter(c)
    PROVE  TaskInv'
<1>1. /\ taskAt[c] = "new" /\ taskAt' = [taskAt EXCEPT ![c] = "acquiring"]
      /\ jobs' = Append(jobs, Async!Job(c, "acquire"))
      /\ UNCHANGED <<asyncWriter, asyncReaders, asyncTracked, job, taskGot, taskAttempt, taskResult>>
  BY DEF Async!Enter, Async!Goto, Async!lockVars
<1>2. taskAt \in [Async!Calls -> TaskPlaces] /\ jobs \in Seq(Async!Jobs) /\ IsInjective(jobs)
      /\ taskResult \in [Async!Calls -> {"none", "answered", "late", "failed"}]
  BY TaskTypes
<1>3. /\ taskAt' \in [Async!Calls -> TaskPlaces] /\ taskAt'[c] = "acquiring"
      /\ \A e \in Async!Calls : e # c => taskAt'[e] = taskAt[e] /\ taskResult'[e] = taskResult[e]
  BY <1>1, <1>2 DEF TaskPlaces
<1>4. /\ \A j \in Async!Jobs : Contains(jobs, j) => j.call # c
      /\ \A t \in Threads : ~Touches(t, c)
  BY <1>1, NoJobOf
<1>5. Async!Job(c, "acquire").call = c /\ Async!Job(c, "acquire").does = "acquire"
  BY JobsAre
<1>6. Awaited(Async!Job(c, "acquire"))'
  BY <1>3, <1>5 DEF Awaited, Async!Job
<1>7. /\ QueuedIsAwaited'
      /\ \A j \in Async!Jobs : Contains(jobs', j) =>
            (Contains(jobs, j) /\ j.call # c) \/ j = Async!Job(c, "acquire")
  BY <1>1, <1>2, <1>3, <1>4, <1>6, QueueStep
<1>8. \A t \in Threads : job[t] # NoJob /\ job[t].does = "run" => job[t].call # c
  BY <1>1, TaskTypes DEF RunsOnce
<1>9. TaskControlOK(c)'
  <2>1. TaskControlOK(c)
    BY TaskTypes
  <2>2. QED
    BY <1>1, <1>3, <2>1 DEF TaskControlOK
<1>10. \A j \in Async!Jobs : Contains(jobs', j) =>
          (Contains(jobs, j) /\ j.call # c) \/ (j.call = c /\ taskAt'[c] # "done")
  BY <1>3, <1>5, <1>7
<1>11. QED
  BY <1>1, <1>2, <1>3, <1>4, <1>7, <1>8, <1>9, <1>10, TaskStep

LEMMA TaskResumes ==
    ASSUME Async!AsyncAssumption, TaskInv, NEW c \in Async!Calls, Async!Resume(c)
    PROVE  TaskInv'
<1>1. /\ taskAt[c] = "acquired" /\ taskAt' = [taskAt EXCEPT ![c] = "running"]
      /\ jobs' = IF c \in Sync THEN Append(jobs, Async!Job(c, "run")) ELSE jobs
      /\ UNCHANGED <<asyncWriter, asyncReaders, asyncTracked, job, taskGot, taskAttempt, taskResult>>
  BY DEF Async!Resume, Async!Goto, Async!lockVars
<1>2. taskAt \in [Async!Calls -> TaskPlaces] /\ jobs \in Seq(Async!Jobs) /\ IsInjective(jobs)
      /\ taskResult \in [Async!Calls -> {"none", "answered", "late", "failed"}]
  BY TaskTypes
<1>3. /\ taskAt' \in [Async!Calls -> TaskPlaces] /\ taskAt'[c] = "running"
      /\ \A e \in Async!Calls : e # c => taskAt'[e] = taskAt[e] /\ taskResult'[e] = taskResult[e]
  BY <1>1, <1>2 DEF TaskPlaces
<1>4. /\ \A j \in Async!Jobs : Contains(jobs, j) => j.call # c
      /\ \A t \in Threads : ~Touches(t, c)
  BY <1>1, NoJobOf
<1>5. Async!Job(c, "run").call = c /\ Async!Job(c, "run").does = "run"
  BY JobsAre
<1>6. c \in Sync => Awaited(Async!Job(c, "run"))'
  BY <1>3, <1>5 DEF Awaited, Async!Job
<1>7. /\ QueuedIsAwaited'
      /\ \A j \in Async!Jobs : Contains(jobs', j) =>
            (Contains(jobs, j) /\ j.call # c) \/ j = Async!Job(c, "run")
  BY <1>1, <1>2, <1>3, <1>4, <1>6, QueueStep
<1>8. \A t \in Threads : job[t] # NoJob /\ job[t].does = "run" => job[t].call # c
  BY <1>1, TaskTypes DEF RunsOnce
<1>9. TaskControlOK(c)'
  <2>1. TaskControlOK(c)
    BY TaskTypes
  <2>2. QED
    BY <1>1, <1>3, <2>1 DEF TaskControlOK, Async!Complete, Async!Plan, Async!Sorted
<1>10. \A j \in Async!Jobs : Contains(jobs', j) =>
          (Contains(jobs, j) /\ j.call # c) \/ (j.call = c /\ taskAt'[c] # "done")
  BY <1>3, <1>5, <1>7
<1>11. QED
  BY <1>1, <1>2, <1>3, <1>4, <1>7, <1>8, <1>9, <1>10, TaskStep

LEMMA TaskReturns ==
    ASSUME Async!AsyncAssumption, TaskInv, NEW c \in Async!Calls, Async!Return(c)
    PROVE  TaskInv'
<1>1. /\ taskAt[c] = "returned" \/ (taskAt[c] = "running" /\ c \notin Sync)
      /\ taskAt' = [taskAt EXCEPT ![c] = "releasing"]
      /\ jobs' = Append(jobs, Async!Job(c, "release"))
      /\ taskResult' = [taskResult EXCEPT ![c] = "answered"]
      /\ UNCHANGED <<asyncWriter, asyncReaders, asyncTracked, job, taskGot, taskAttempt>>
  BY DEF Async!Return, Async!HasReturned, Async!Goto, Async!lockVars
<1>2. taskAt \in [Async!Calls -> TaskPlaces] /\ jobs \in Seq(Async!Jobs) /\ IsInjective(jobs)
      /\ taskResult \in [Async!Calls -> {"none", "answered", "late", "failed"}]
  BY TaskTypes
<1>3. /\ taskAt' \in [Async!Calls -> TaskPlaces] /\ taskAt'[c] = "releasing"
      /\ taskResult' \in [Async!Calls -> {"none", "answered", "late", "failed"}]
      /\ \A e \in Async!Calls : e # c => taskAt'[e] = taskAt[e] /\ taskResult'[e] = taskResult[e]
  BY <1>1, <1>2 DEF TaskPlaces
<1>4. /\ \A j \in Async!Jobs : Contains(jobs, j) => j.call # c
      /\ \A t \in Threads : ~Touches(t, c)
  BY <1>1, NoJobOf
<1>5. Async!Job(c, "release").call = c /\ Async!Job(c, "release").does = "release"
  BY JobsAre
<1>6. Awaited(Async!Job(c, "release"))'
  BY <1>3, <1>5 DEF Awaited, Async!Job
<1>7. /\ QueuedIsAwaited'
      /\ \A j \in Async!Jobs : Contains(jobs', j) =>
            (Contains(jobs, j) /\ j.call # c) \/ j = Async!Job(c, "release")
  BY <1>1, <1>2, <1>3, <1>4, <1>6, QueueStep
<1>8. /\ taskAt'[c] \notin {"new", "acquiring", "acquired"}
      /\ \A j \in Async!Jobs : Contains(jobs', j) /\ j.does = "run" => j.call # c
  BY <1>3, <1>5, <1>7
<1>9. TaskControlOK(c)'
  <2>1. TaskControlOK(c)
    BY TaskTypes
  <2>2. QED
    BY <1>1, <1>3, <2>1 DEF TaskControlOK
<1>10. \A j \in Async!Jobs : Contains(jobs', j) =>
          (Contains(jobs, j) /\ j.call # c) \/ (j.call = c /\ taskAt'[c] # "done")
  BY <1>3, <1>5, <1>7
<1>11. QED
  BY <1>1, <1>2, <1>3, <1>4, <1>7, <1>8, <1>9, <1>10, TaskStep

(* What a timeout leaves in the queue: no job of the call. *)
LEMMA DroppedQueue ==
    ASSUME TaskInv, NEW c \in Async!Calls
    PROVE  /\ Async!Dropped(c) \in Seq(Async!Jobs) /\ IsInjective(Async!Dropped(c))
           /\ \A j \in Async!Jobs : Contains(Async!Dropped(c), j) => Contains(jobs, j) /\ j.call # c
<1> DEFINE q == Async!Dropped(c)
<1>1. jobs \in Seq(Async!Jobs) /\ IsInjective(jobs) /\ DOMAIN jobs = 1 .. Len(jobs)
  BY TaskTypes
<1>2. CASE Async!JobsOf(c) = {}
  <2>1. q = jobs
    BY <1>2 DEF Async!Dropped
  <2>2. ASSUME NEW j \in Async!Jobs, Contains(jobs, j)
        PROVE  j.call # c
    <3>1. PICK i \in 1 .. Len(jobs) : jobs[i] = j
      BY <2>2 DEF Contains
    <3>2. QED
      BY <1>1, <1>2, <3>1 DEF Async!JobsOf
  <2>3. QED
    BY <1>1, <2>1, <2>2
<1>3. CASE Async!JobsOf(c) # {}
  <2>1. PICK i \in Async!JobsOf(c) : i = CHOOSE n \in Async!JobsOf(c) : TRUE
    BY <1>3
  <2>2. i \in 1 .. Len(jobs) /\ jobs[i].call = c
    BY <1>1, <2>1 DEF Async!JobsOf
  <2>3. q = RemoveAt(jobs, i)
    <3>1. q = Async!RemoveAt(jobs, CHOOSE n \in Async!JobsOf(c) : TRUE)
      BY <1>3 DEF Async!Dropped
    <3>2. QED
      BY <2>1, <3>1 DEF Async!RemoveAt, RemoveAt
  <2>4. /\ q \in Seq(Async!Jobs) /\ IsInjective(q)
        /\ \A e : Contains(q, e) <=> Contains(jobs, e) /\ e # jobs[i]
    BY <1>1, <2>2, <2>3, RemoveAtQueue
  <2>5. jobs[i] \in Async!Jobs /\ Contains(jobs, jobs[i])
    BY <1>1, <2>2 DEF Contains
  <2>6. \A k \in Async!Jobs : Contains(jobs, k) /\ k.call = c => k = jobs[i]
    BY <2>2, <2>5, OneJob
  <2>7. QED
    BY <2>4, <2>6
<1>4. QED
  BY <1>2, <1>3

LEMMA TaskTimesOut ==
    ASSUME Async!AsyncAssumption, TaskInv, NEW c \in Async!Calls, Async!TimeOut(c)
    PROVE  TaskInv'
<1>1. /\ taskAt[c] \notin {"new", "done"}
      /\ taskResult' = [taskResult EXCEPT ![c] = "late"]
      /\ \/ /\ taskAt[c] \in {"running", "returned"}
            /\ taskAt' = [taskAt EXCEPT ![c] = "releasing"]
            /\ jobs' = Append(Async!Dropped(c), Async!Job(c, "release"))
         \/ /\ taskAt[c] \notin {"running", "returned"}
            /\ taskAt' = [taskAt EXCEPT ![c] = "done"]
            /\ jobs' = Async!Dropped(c)
      /\ UNCHANGED <<asyncWriter, asyncReaders, asyncTracked, job, taskGot, taskAttempt>>
  BY DEF Async!TimeOut, Async!Inside, Async!Goto, Async!lockVars
<1>2. taskAt \in [Async!Calls -> TaskPlaces]
      /\ taskResult \in [Async!Calls -> {"none", "answered", "late", "failed"}]
  BY TaskTypes
<1>3. /\ taskAt' \in [Async!Calls -> TaskPlaces] /\ taskResult'[c] = "late"
      /\ taskResult' \in [Async!Calls -> {"none", "answered", "late", "failed"}]
      /\ \A e \in Async!Calls : e # c => taskAt'[e] = taskAt[e] /\ taskResult'[e] = taskResult[e]
      /\ taskAt'[c] = IF taskAt[c] \in {"running", "returned"} THEN "releasing" ELSE "done"
  BY <1>1, <1>2 DEF TaskPlaces
<1>4. /\ Async!Dropped(c) \in Seq(Async!Jobs) /\ IsInjective(Async!Dropped(c))
      /\ \A j \in Async!Jobs : Contains(Async!Dropped(c), j) => Contains(jobs, j) /\ j.call # c
  BY DroppedQueue
<1>5. Async!Job(c, "release").call = c /\ Async!Job(c, "release").does = "release"
  BY JobsAre
<1>6. TaskControlOK(c)'
  <2>1. TaskControlOK(c)
    BY TaskTypes
  <2>2. QED
    BY <1>1, <1>3, <2>1 DEF TaskControlOK
<1>7. CASE taskAt[c] \in {"running", "returned"}
  <2>1. taskAt'[c] = "releasing" /\ jobs' = Append(Async!Dropped(c), Async!Job(c, "release"))
    BY <1>1, <1>3, <1>7
  <2>2. Awaited(Async!Job(c, "release"))'
    BY <1>5, <2>1 DEF Awaited, Async!Job
  <2>3. /\ QueuedIsAwaited'
        /\ \A j \in Async!Jobs : Contains(jobs', j) =>
              (Contains(jobs, j) /\ j.call # c) \/ j = Async!Job(c, "release")
    BY <1>3, <1>4, <2>1, <2>2, QueueStep
  <2>4. \A t \in Threads : ~Touches(t, c)
    <3>1. ASSUME NEW t \in Threads, Touches(t, c)
          PROVE  FALSE
      <4>1. TouchedByOne(t, c)
        BY <3>1, TaskTypes
      <4>2. QED
        BY <1>7, <4>1 DEF TouchedByOne
    <3>2. QED
      BY <3>1
  <2>5. /\ taskAt'[c] \notin {"new", "acquiring", "acquired"}
        /\ \A j \in Async!Jobs : Contains(jobs', j) /\ j.does = "run" => j.call # c
    BY <1>5, <2>1, <2>3
  <2>6. \A j \in Async!Jobs : Contains(jobs', j) =>
           (Contains(jobs, j) /\ j.call # c) \/ (j.call = c /\ taskAt'[c] # "done")
    BY <1>5, <2>1, <2>3
  <2>7. QED
    BY <1>1, <1>3, <1>6, <2>3, <2>4, <2>5, <2>6, TaskStep
<1>8. CASE taskAt[c] \notin {"running", "returned"}
  <2>1. taskAt'[c] = "done" /\ jobs' = Async!Dropped(c)
    BY <1>1, <1>3, <1>8
  <2>2. QueuedIsAwaited'
    BY <1>3, <1>4, <2>1, QueueStep
  <2>3. /\ taskAt'[c] \notin {"new", "acquiring", "acquired"}
        /\ \A j \in Async!Jobs : Contains(jobs', j) /\ j.does = "run" => j.call # c
    BY <1>4, <2>1
  <2>4. \A j \in Async!Jobs : Contains(jobs', j) =>
           (Contains(jobs, j) /\ j.call # c) \/ (j.call = c /\ taskAt'[c] # "done")
    BY <1>4, <2>1
  <2>5. QED
    BY <1>1, <1>3, <1>6, <2>1, <2>2, <2>3, <2>4, TaskStep
<1>9. QED
  BY <1>7, <1>8

LEMMA ThreadTakes ==
    ASSUME Async!AsyncAssumption, TaskInv, NEW t \in Threads, Async!Take(t)
    PROVE  TaskInv'
<1>1. /\ job[t] = NoJob /\ jobs # <<>>
      /\ job' = [job EXCEPT ![t] = Head(jobs)] /\ jobs' = Tail(jobs)
      /\ UNCHANGED <<asyncWriter, asyncReaders, asyncTracked, taskAt, taskGot, taskAttempt, taskResult>>
  BY DEF Async!Take, Async!lockVars
<1>2. /\ jobs \in Seq(Async!Jobs) /\ IsInjective(jobs)
      /\ job \in [Threads -> Async!Jobs \union {NoJob}] /\ NoJob \notin Async!Jobs
  BY TaskTypes, TasksAre
<1> DEFINE h == Head(jobs)
<1>3. /\ h \in Async!Jobs /\ Contains(jobs, h)
      /\ jobs' \in Seq(Async!Jobs) /\ IsInjective(jobs')
      /\ \A e : Contains(jobs', e) <=> Contains(jobs, e) /\ e # h
  BY <1>1, <1>2, TailQueue
<1>4. /\ job' \in [Threads -> Async!Jobs \union {NoJob}]
      /\ job'[t] = h /\ \A u \in Threads : u # t => job'[u] = job[u]
      /\ h # NoJob /\ h.call \in Async!Calls /\ h.does \in {"acquire", "wait", "undo", "run", "release"}
  BY <1>1, <1>2, <1>3, JobFields
<1>5. /\ taskAt[h.call] \in {"acquiring", "running", "releasing"} /\ Awaited(h)
      /\ \A j \in Async!Jobs : Contains(jobs', j) => j.call # h.call
  BY <1>3, OneJob, TaskTypes
<1> HIDE DEF h
<1>6. TaskLocksOK'
  BY <1>1, TaskLocksStay DEF TaskInv
<1>7. QueuedIsAwaited'
  <2>1. \A j \in Async!Jobs : Contains(jobs, j) => Awaited(j)
    BY TaskTypes
  <2>2. \A j \in Async!Jobs : Contains(jobs', j) => Awaited(j)'
    BY <1>1, <1>3, <2>1 DEF Awaited
  <2>3. QED
    BY <1>3, <2>2 DEF QueuedIsAwaited
<1>8. ASSUME NEW u \in Threads, Touches(u, h.call)
      PROVE  FALSE
  <2>1. \A j \in Async!Jobs : Contains(jobs, j) => j.call # h.call
    BY <1>4, <1>8, TaskTypes DEF TouchedByOne
  <2>2. QED
    BY <1>3, <2>1
<1>9. ASSUME NEW u \in Threads, NEW c \in Async!Calls, Touches(u, c)'
      PROVE  TouchedByOne(u, c)'
  <2>1. CASE u = t
    <3>1. c = h.call /\ h.does # "run"
      BY <1>4, <1>9, <2>1 DEF Touches
    <3>2. \A v \in Threads : Touches(v, c)' => v = u
      BY <1>4, <1>8, <2>1, <3>1 DEF Touches
    <3>3. \/ taskAt[c] = "acquiring" /\ h.does = "acquire"
          \/ taskAt[c] = "releasing" /\ h.does = "release"
      BY <1>5, <3>1 DEF Awaited
    <3>4. QED
      BY <1>1, <1>4, <1>5, <2>1, <3>1, <3>2, <3>3 DEF TouchedByOne
  <2>2. CASE u # t
    <3>1. Touches(u, c)
      BY <1>4, <1>9, <2>2 DEF Touches
    <3>2. TouchedByOne(u, c) /\ c # h.call
      BY <1>8, <3>1, TaskTypes
    <3>3. \A v \in Threads : Touches(v, c)' => v = u
      BY <1>4, <3>2 DEF Touches, TouchedByOne
    <3>4. \A j \in Async!Jobs : Contains(jobs', j) => j.call # c
      BY <1>3, <3>2 DEF TouchedByOne
    <3>5. QED
      BY <1>1, <1>4, <2>2, <3>2, <3>3, <3>4 DEF TouchedByOne
  <2>3. QED
    BY <2>1, <2>2
<1>10. ASSUME NEW u \in Threads
       PROVE  RunsOnce(u)'
  <2>1. CASE u = t
    BY <1>1, <1>3, <1>4, <1>5, <2>1 DEF RunsOnce, Awaited
  <2>2. CASE u # t
    <3>1. RunsOnce(u)
      BY TaskTypes
    <3>2. QED
      BY <1>1, <1>3, <1>4, <2>2, <3>1 DEF RunsOnce
  <2>3. QED
    BY <2>1, <2>2
<1>11. ASSUME NEW c \in Async!Calls
       PROVE  TaskControlOK(c)'
  <2>1. TaskControlOK(c)
    BY TaskTypes
  <2>2. QED
    BY <1>1, <2>1 DEF TaskControlOK, Async!Complete, Async!Plan, Async!Sorted
<1>12. QED
  BY <1>1, <1>4, <1>6, <1>7, <1>9, <1>10, <1>11 DEF TaskInv

(* The steps of a thread for the call whose locks it acquires or releases. *)
LEMMA ThreadStep ==
    ASSUME Async!AsyncAssumption, TaskInv, NEW t \in Threads, NEW c \in Async!Calls,
           Touches(t, c), TaskLocksOK', jobs' = jobs,
           job' \in [Threads -> Async!Jobs \union {NoJob}],
           \A u \in Threads : u # t => job'[u] = job[u],
           taskAt' \in [Async!Calls -> TaskPlaces], taskAttempt' \in [Async!Calls -> Nat],
           taskResult' \in [Async!Calls -> {"none", "answered", "late", "failed"}],
           \A e \in Async!Calls : e # c =>
               /\ taskAt'[e] = taskAt[e] /\ taskResult'[e] = taskResult[e]
               /\ taskAttempt'[e] = taskAttempt[e] /\ taskGot'[e] = taskGot[e],
           \/ job'[t] = NoJob
           \/ /\ job'[t] # NoJob /\ job'[t].call = c /\ job'[t].does # "run"
              /\ \/ taskAt'[c] = "acquiring" /\ job'[t].does # "release"
                 \/ taskAt'[c] = "releasing" /\ job'[t].does = "release"
                 \/ taskAt'[c] = "done" /\ taskResult'[c] # "answered"
              /\ job'[t].does = "undo" => taskAttempt'[c] < MaxTaskAttempts,
           \/ taskAt'[c] \in {taskAt[c], "done"}
           \/ \A u \in Threads : job[u] # NoJob /\ job[u].does = "run" => job[u].call # c,
           TaskControlOK(c)'
    PROVE  TaskInv'
<1>1. /\ TouchedByOne(t, c) /\ NoJob \notin Async!Jobs
      /\ jobs \in Seq(Async!Jobs) /\ IsInjective(jobs)
      /\ job \in [Threads -> Async!Jobs \union {NoJob}]
  BY TaskTypes, TasksAre
<1>2. /\ \A u \in Threads : Touches(u, c) => u = t
      /\ \A j \in Async!Jobs : Contains(jobs, j) => j.call # c
  BY <1>1 DEF TouchedByOne
<1>3. QueuedIsAwaited'
  <2>1. \A j \in Async!Jobs : Contains(jobs, j) => Awaited(j)
    BY TaskTypes
  <2>2. \A j \in Async!Jobs : Contains(jobs, j) => Awaited(j)'
    BY <1>2, <2>1, JobFields DEF Awaited
  <2>3. QED
    BY <1>1, <2>2 DEF QueuedIsAwaited
<1>4. ASSUME NEW u \in Threads, NEW e \in Async!Calls, Touches(u, e)'
      PROVE  TouchedByOne(u, e)'
  <2>1. CASE u = t
    <3>1. e = c /\ job'[t] # NoJob
      BY <1>4, <2>1 DEF Touches
    <3>2. \A v \in Threads : Touches(v, c)' => v = t
      BY <1>2 DEF Touches
    <3>3. QED
      BY <1>2, <2>1, <3>1, <3>2 DEF TouchedByOne
  <2>2. CASE u # t
    <3>1. Touches(u, e) /\ e # c
      BY <1>2, <1>4, <2>2 DEF Touches
    <3>2. TouchedByOne(u, e)
      BY <3>1, TaskTypes
    <3>3. \A v \in Threads : Touches(v, e)' => v = u
      BY <3>1, <3>2 DEF Touches, TouchedByOne
    <3>4. QED
      BY <2>2, <3>1, <3>2, <3>3 DEF TouchedByOne
  <2>3. QED
    BY <2>1, <2>2
<1>5. ASSUME NEW u \in Threads
      PROVE  RunsOnce(u)'
  <2>1. CASE u = t
    BY <2>1 DEF RunsOnce
  <2>2. CASE u # t
    <3>1. RunsOnce(u) /\ (job[u] # NoJob => job[u].call \in Async!Calls)
      BY <1>1, TaskTypes, JobFields
    <3>2. QED
      BY <2>2, <3>1 DEF RunsOnce
  <2>3. QED
    BY <2>1, <2>2
<1>6. ASSUME NEW e \in Async!Calls
      PROVE  TaskControlOK(e)'
  <2>1. CASE e = c
    BY <2>1
  <2>2. CASE e # c
    <3>1. TaskControlOK(e)
      BY TaskTypes
    <3>2. QED
      BY <2>2, <3>1 DEF TaskControlOK, Async!Complete, Async!Plan, Async!Sorted
  <2>3. QED
    BY <2>1, <2>2
<1>7. QED
  BY <1>3, <1>4, <1>5, <1>6 DEF TaskInv

(* The thread goes on for its call. *)
LEMMA Goes ==
    ASSUME Async!AsyncAssumption, TaskInv, NEW t \in Threads,
           NEW what \in SUBSET {"acquire", "wait", "undo", "release"}, Async!Does(t, what)
    PROVE  /\ job[t] \in Async!Jobs /\ job[t] # NoJob /\ job[t].call \in Async!Calls
           /\ job[t].does \in what /\ Touches(t, job[t].call) /\ TouchedByOne(t, job[t].call)
<1>1. job[t] # NoJob /\ job[t].does \in what
  BY DEF Async!Does
<1>2. job[t] \in Async!Jobs /\ job[t].call \in Async!Calls
  BY <1>1, TaskTypes, JobFields
<1>3. Touches(t, job[t].call)
  BY <1>1, <1>2 DEF Touches
<1>4. QED
  BY <1>1, <1>2, <1>3, TaskTypes

LEMMA NextJob ==
    ASSUME Async!AsyncAssumption, TaskInv, NEW t \in Threads, job[t] \in Async!Jobs,
           NEW does \in {"acquire", "wait", "undo", "run", "release"}, Async!Now(t, does)
    PROVE  /\ job' \in [Threads -> Async!Jobs \union {NoJob}]
           /\ \A u \in Threads : u # t => job'[u] = job[u]
           /\ job'[t] # NoJob /\ job'[t].call = job[t].call /\ job'[t].does = does
<1>1. job \in [Threads -> Async!Jobs \union {NoJob}] /\ NoJob \notin Async!Jobs
  BY TaskTypes, TasksAre
<1>2. job' = [job EXCEPT ![t] = [job[t] EXCEPT !.does = does]]
  BY DEF Async!Now
<1>3. /\ [job[t] EXCEPT !.does = does] \in Async!Jobs
      /\ [job[t] EXCEPT !.does = does].call = job[t].call
      /\ [job[t] EXCEPT !.does = does].does = does
  BY DEF Async!Jobs
<1>4. QED
  BY <1>1, <1>2, <1>3

LEMMA Delivered ==
    ASSUME Async!AsyncAssumption, TaskInv, NEW t \in Threads, job[t] \in Async!Jobs,
           NEW from \in TaskPlaces, NEW to \in TaskPlaces, Async!Deliver(t, from, to)
    PROVE  /\ job' \in [Threads -> Async!Jobs \union {NoJob}]
           /\ \A u \in Threads : u # t => job'[u] = job[u]
           /\ job'[t] = NoJob
           /\ taskAt' \in [Async!Calls -> TaskPlaces]
           /\ \A e \in Async!Calls : e # job[t].call => taskAt'[e] = taskAt[e]
           /\ taskAt'[job[t].call] = IF taskAt[job[t].call] = from THEN to ELSE taskAt[job[t].call]
<1>1. job \in [Threads -> Async!Jobs \union {NoJob}] /\ taskAt \in [Async!Calls -> TaskPlaces]
      /\ job[t].call \in Async!Calls
  BY TaskTypes, JobFields
<1> DEFINE c == job[t].call
           to1 == IF taskAt[c] = from THEN to ELSE taskAt[c]
<1>2. /\ job' = [job EXCEPT ![t] = NoJob]
      /\ taskAt' = [taskAt EXCEPT ![c] = to1]
  BY DEF Async!Deliver
<1>3. c \in Async!Calls /\ to1 \in TaskPlaces
  BY <1>1
<1> HIDE DEF c, to1
<1>4. /\ taskAt' \in [Async!Calls -> TaskPlaces] /\ taskAt'[c] = to1
      /\ \A e \in Async!Calls : e # c => taskAt'[e] = taskAt[e]
  BY <1>1, <1>2, <1>3
<1>5. QED
  BY <1>1, <1>2, <1>4 DEF c, to1

LEMMA ThreadAcquires ==
    ASSUME Async!AsyncAssumption, TaskInv, NEW t \in Threads, Async!Acquire(t)
    PROVE  TaskInv'
<1>0. PICK c \in Async!Calls : c = job[t].call
  BY Goes DEF Async!Acquire
<1>1. /\ job[t] \in Async!Jobs /\ c \in Async!Calls /\ job[t].does \in {"acquire", "wait"}
      /\ Touches(t, c) /\ TouchedByOne(t, c)
  BY <1>0, Goes DEF Async!Acquire
<1>2. /\ taskGot[c] # Len(Async!Plan(c)) /\ Async!Grant(t, Async!Wanted(c))
      /\ taskGot' = [taskGot EXCEPT ![c] = @ + 1] /\ Async!Now(t, "acquire")
      /\ UNCHANGED <<taskAt, jobs, taskAttempt, taskResult>>
  BY <1>0 DEF Async!Acquire, Async!Complete
<1>3. /\ job' \in [Threads -> Async!Jobs \union {NoJob}]
      /\ \A u \in Threads : u # t => job'[u] = job[u]
      /\ job'[t] # NoJob /\ job'[t].call = c /\ job'[t].does = "acquire"
  BY <1>0, <1>1, <1>2, NextJob
<1>4. TaskLocksOK'
  BY <1>0, <1>1, <1>2, TaskGrant DEF TaskInv
<1>5. \A e \in Async!Calls : e # c => taskGot'[e] = taskGot[e]
  BY <1>1, <1>2, TaskTypes
<1>6. taskAt[c] \in {"acquiring", "done"} /\ (taskAt[c] = "done" => taskResult[c] # "answered")
  BY <1>1 DEF TouchedByOne
<1>7. TaskControlOK(c)'
  <2>1. TaskControlOK(c)
    BY <1>1, TaskTypes
  <2>2. QED
    BY <1>2, <1>6, <2>1 DEF TaskControlOK
<1>8. QED
  BY <1>1, <1>2, <1>3, <1>4, <1>5, <1>6, <1>7, TaskTypes, ThreadStep

LEMMA ThreadHasAcquired ==
    ASSUME Async!AsyncAssumption, TaskInv, NEW t \in Threads, Async!Acquired(t)
    PROVE  TaskInv'
<1>0. PICK c \in Async!Calls : c = job[t].call
  BY Goes DEF Async!Acquired
<1>1. /\ job[t] \in Async!Jobs /\ c \in Async!Calls /\ job[t].does = "acquire"
      /\ Touches(t, c) /\ TouchedByOne(t, c)
  BY <1>0, Goes DEF Async!Acquired
<1>2. /\ Async!Complete(c) /\ Async!Deliver(t, "acquiring", "acquired")
      /\ UNCHANGED <<asyncWriter, asyncReaders, asyncTracked, jobs, taskGot, taskAttempt, taskResult>>
  BY <1>0 DEF Async!Acquired, Async!lockVars
<1>3. /\ job' \in [Threads -> Async!Jobs \union {NoJob}]
      /\ \A u \in Threads : u # t => job'[u] = job[u]
      /\ job'[t] = NoJob
      /\ taskAt' \in [Async!Calls -> TaskPlaces]
      /\ \A e \in Async!Calls : e # c => taskAt'[e] = taskAt[e]
      /\ taskAt'[c] = IF taskAt[c] = "acquiring" THEN "acquired" ELSE taskAt[c]
  BY <1>0, <1>1, <1>2, Delivered DEF TaskPlaces
<1>4. TaskLocksOK'
  BY <1>2, TaskLocksStay DEF TaskInv
<1>5. \/ taskAt'[c] \in {taskAt[c], "done"}
      \/ \A u \in Threads : job[u] # NoJob /\ job[u].does = "run" => job[u].call # c
  BY <1>3, TaskTypes DEF RunsOnce
<1>6. TaskControlOK(c)'
  <2>1. TaskControlOK(c)
    BY <1>1, TaskTypes
  <2>2. QED
    BY <1>2, <1>3, <2>1 DEF TaskControlOK, Async!Complete, Async!Plan, Async!Sorted
<1>7. QED
  BY <1>1, <1>2, <1>3, <1>4, <1>5, <1>6, TaskTypes, ThreadStep

LEMMA ThreadBlocks ==
    ASSUME Async!AsyncAssumption, TaskInv, NEW t \in Threads, Async!Block(t)
    PROVE  TaskInv'
<1>0. PICK c \in Async!Calls : c = job[t].call
  BY Goes DEF Async!Block
<1>1. /\ job[t] \in Async!Jobs /\ c \in Async!Calls /\ job[t].does = "acquire"
      /\ Touches(t, c) /\ TouchedByOne(t, c)
  BY <1>0, Goes DEF Async!Block
<1>2. /\ Async!Now(t, "wait")
      /\ UNCHANGED <<asyncWriter, asyncReaders, asyncTracked, taskAt, jobs, taskGot, taskAttempt,
                     taskResult>>
  BY <1>0 DEF Async!Block, Async!lockVars
<1>3. /\ job' \in [Threads -> Async!Jobs \union {NoJob}]
      /\ \A u \in Threads : u # t => job'[u] = job[u]
      /\ job'[t] # NoJob /\ job'[t].call = c /\ job'[t].does = "wait"
  BY <1>0, <1>1, <1>2, NextJob
<1>4. TaskLocksOK'
  BY <1>2, TaskLocksStay DEF TaskInv
<1>5. taskAt[c] \in {"acquiring", "done"} /\ (taskAt[c] = "done" => taskResult[c] # "answered")
  BY <1>1 DEF TouchedByOne
<1>6. TaskControlOK(c)'
  <2>1. TaskControlOK(c)
    BY <1>1, TaskTypes
  <2>2. QED
    BY <1>2, <2>1 DEF TaskControlOK, Async!Complete, Async!Plan, Async!Sorted
<1>7. QED
  BY <1>1, <1>2, <1>3, <1>4, <1>5, <1>6, TaskTypes, ThreadStep

LEMMA ThreadGivesUp ==
    ASSUME Async!AsyncAssumption, TaskInv, NEW t \in Threads, Async!GiveUp(t)
    PROVE  TaskInv'
<1>0. PICK c \in Async!Calls : c = job[t].call
  BY Goes DEF Async!GiveUp
<1>1. /\ job[t] \in Async!Jobs /\ c \in Async!Calls /\ job[t].does = "wait"
      /\ Touches(t, c) /\ TouchedByOne(t, c)
  BY <1>0, Goes DEF Async!GiveUp
<1>2. /\ UNCHANGED <<asyncWriter, asyncReaders, asyncTracked, jobs, taskGot, taskAttempt>>
      /\ \/ /\ taskAttempt[c] < MaxTaskAttempts /\ Async!Now(t, "undo")
            /\ UNCHANGED <<taskAt, taskResult>>
         \/ /\ Async!Deliver(t, "acquiring", "done")
            /\ taskResult' = [taskResult EXCEPT ![c] = IF @ = "none" THEN "failed" ELSE @]
  BY <1>0 DEF Async!GiveUp, Async!lockVars
<1>3. TaskLocksOK'
  BY <1>2, TaskLocksStay DEF TaskInv
<1>4. taskAt[c] \in {"acquiring", "done"} /\ (taskAt[c] = "done" => taskResult[c] # "answered")
  BY <1>1 DEF TouchedByOne
<1>5. TaskControlOK(c)
  BY <1>1, TaskTypes
<1>6. CASE /\ taskAttempt[c] < MaxTaskAttempts /\ Async!Now(t, "undo")
           /\ UNCHANGED <<taskAt, taskResult>>
  <2>1. /\ job' \in [Threads -> Async!Jobs \union {NoJob}]
        /\ \A u \in Threads : u # t => job'[u] = job[u]
        /\ job'[t] # NoJob /\ job'[t].call = c /\ job'[t].does = "undo"
    BY <1>0, <1>1, <1>6, NextJob
  <2>2. TaskControlOK(c)'
    BY <1>2, <1>5, <1>6 DEF TaskControlOK, Async!Complete, Async!Plan, Async!Sorted
  <2>3. QED
    BY <1>1, <1>2, <1>3, <1>4, <1>6, <2>1, <2>2, TaskTypes, ThreadStep
<1>7. CASE /\ Async!Deliver(t, "acquiring", "done")
           /\ taskResult' = [taskResult EXCEPT ![c] = IF @ = "none" THEN "failed" ELSE @]
  <2>1. /\ job' \in [Threads -> Async!Jobs \union {NoJob}]
        /\ \A u \in Threads : u # t => job'[u] = job[u]
        /\ job'[t] = NoJob
        /\ taskAt' \in [Async!Calls -> TaskPlaces]
        /\ \A e \in Async!Calls : e # c => taskAt'[e] = taskAt[e]
        /\ taskAt'[c] = IF taskAt[c] = "acquiring" THEN "done" ELSE taskAt[c]
    BY <1>0, <1>1, <1>7, Delivered DEF TaskPlaces
  <2>2. taskAt'[c] = "done"
    BY <1>4, <2>1
  <2>3. taskResult \in [Async!Calls -> {"none", "answered", "late", "failed"}]
    BY TaskTypes
  <2>4. taskResult[c] # "answered"
    BY <1>4, <1>5 DEF TaskControlOK
  <2>5. /\ taskResult' \in [Async!Calls -> {"none", "answered", "late", "failed"}]
        /\ taskResult'[c] # "answered"
        /\ \A e \in Async!Calls : e # c => taskResult'[e] = taskResult[e]
    BY <1>1, <1>7, <2>3, <2>4
  <2>6. TaskControlOK(c)'
    BY <1>2, <1>5, <2>2, <2>5 DEF TaskControlOK
  <2>7. QED
    BY <1>1, <1>2, <1>3, <2>1, <2>2, <2>5, <2>6, TaskTypes, ThreadStep
<1>8. QED
  BY <1>2, <1>6, <1>7

LEMMA ThreadReleases ==
    ASSUME Async!AsyncAssumption, TaskInv, NEW t \in Threads, Async!ReleaseLast(t)
    PROVE  TaskInv'
<1>0. PICK c \in Async!Calls : c = job[t].call
  BY Goes DEF Async!ReleaseLast
<1>1. /\ job[t] \in Async!Jobs /\ job[t] # NoJob /\ c \in Async!Calls
      /\ job[t].does \in {"undo", "release"} /\ Touches(t, c) /\ TouchedByOne(t, c)
  BY <1>0, Goes DEF Async!ReleaseLast
<1>2. /\ taskGot[c] > 0 /\ Async!Release(t, Async!Plan(c)[taskGot[c]])
      /\ taskGot' = [taskGot EXCEPT ![c] = @ - 1]
      /\ UNCHANGED <<taskAt, jobs, job, taskAttempt, taskResult>>
  BY <1>0 DEF Async!ReleaseLast
<1>3. TaskLocksOK'
  BY <1>0, <1>1, <1>2, TaskRelease DEF TaskInv
<1>4. /\ \/ taskAt[c] = "acquiring" /\ job[t].does # "release"
         \/ taskAt[c] = "releasing" /\ job[t].does = "release"
         \/ taskAt[c] = "done" /\ taskResult[c] # "answered"
      /\ job[t].does = "undo" => taskAttempt[c] < MaxTaskAttempts
  BY <1>1 DEF TouchedByOne
<1>5. job[t].does # "run" /\ job[t].call = c
  BY <1>0, <1>1
<1>6. \A e \in Async!Calls : e # c => taskGot'[e] = taskGot[e]
  BY <1>1, <1>2, TaskTypes
<1>7. TaskControlOK(c)'
  <2>1. TaskControlOK(c)
    BY <1>1, TaskTypes
  <2>2. QED
    BY <1>2, <1>4, <2>1 DEF TaskControlOK
<1>8. QED
  BY <1>1, <1>2, <1>3, <1>4, <1>5, <1>6, <1>7, TaskTypes, ThreadStep

LEMMA ThreadRetries ==
    ASSUME Async!AsyncAssumption, TaskInv, NEW t \in Threads, Async!Retry(t)
    PROVE  TaskInv'
<1>0. PICK c \in Async!Calls : c = job[t].call
  BY Goes DEF Async!Retry
<1>1. /\ job[t] \in Async!Jobs /\ c \in Async!Calls /\ job[t].does = "undo"
      /\ Touches(t, c) /\ TouchedByOne(t, c)
  BY <1>0, Goes DEF Async!Retry
<1>2. /\ taskAttempt' = [taskAttempt EXCEPT ![c] = @ + 1] /\ Async!Now(t, "acquire")
      /\ UNCHANGED <<asyncWriter, asyncReaders, asyncTracked, taskAt, jobs, taskGot, taskResult>>
  BY <1>0 DEF Async!Retry, Async!lockVars
<1>3. /\ job' \in [Threads -> Async!Jobs \union {NoJob}]
      /\ \A u \in Threads : u # t => job'[u] = job[u]
      /\ job'[t] # NoJob /\ job'[t].call = c /\ job'[t].does = "acquire"
  BY <1>0, <1>1, <1>2, NextJob
<1>4. TaskLocksOK'
  BY <1>2, TaskLocksStay DEF TaskInv
<1>5. /\ taskAt[c] \in {"acquiring", "done"} /\ (taskAt[c] = "done" => taskResult[c] # "answered")
      /\ taskAttempt[c] < MaxTaskAttempts
  BY <1>1 DEF TouchedByOne
<1>6. /\ taskAttempt' \in [Async!Calls -> Nat] /\ taskAttempt'[c] = taskAttempt[c] + 1
      /\ \A e \in Async!Calls : e # c => taskAttempt'[e] = taskAttempt[e]
  <2>1. taskAttempt \in [Async!Calls -> Nat] /\ taskAttempt[c] + 1 \in Nat
    BY <1>1, TaskTypes
  <2>2. QED
    BY <1>1, <1>2, <2>1
<1>7. TaskControlOK(c)'
  <2>1. TaskControlOK(c) /\ MaxTaskAttempts \in Nat
    BY <1>1, TaskTypes, TasksAre
  <2>2. taskAttempt'[c] \in 1 .. MaxTaskAttempts
    BY <1>5, <1>6, <2>1 DEF TaskControlOK
  <2>3. QED
    BY <1>2, <2>1, <2>2 DEF TaskControlOK, Async!Complete, Async!Plan, Async!Sorted
<1>8. QED
  BY <1>1, <1>2, <1>3, <1>4, <1>5, <1>6, <1>7, TaskTypes, ThreadStep

LEMMA ThreadHasReleased ==
    ASSUME Async!AsyncAssumption, TaskInv, NEW t \in Threads, Async!Released(t)
    PROVE  TaskInv'
<1>0. PICK c \in Async!Calls : c = job[t].call
  BY Goes DEF Async!Released
<1>1. /\ job[t] \in Async!Jobs /\ c \in Async!Calls /\ job[t].does = "release"
      /\ Touches(t, c) /\ TouchedByOne(t, c)
  BY <1>0, Goes DEF Async!Released
<1>2. /\ taskGot[c] = 0 /\ Async!Deliver(t, "releasing", "done")
      /\ UNCHANGED <<asyncWriter, asyncReaders, asyncTracked, jobs, taskGot, taskAttempt, taskResult>>
  BY <1>0 DEF Async!Released, Async!lockVars
<1>3. /\ job' \in [Threads -> Async!Jobs \union {NoJob}]
      /\ \A u \in Threads : u # t => job'[u] = job[u]
      /\ job'[t] = NoJob
      /\ taskAt' \in [Async!Calls -> TaskPlaces]
      /\ \A e \in Async!Calls : e # c => taskAt'[e] = taskAt[e]
      /\ taskAt'[c] = IF taskAt[c] = "releasing" THEN "done" ELSE taskAt[c]
  BY <1>0, <1>1, <1>2, Delivered DEF TaskPlaces
<1>4. TaskLocksOK'
  BY <1>2, TaskLocksStay DEF TaskInv
<1>5. taskAt'[c] \in {taskAt[c], "done"}
  BY <1>3
<1>6. TaskControlOK(c)'
  <2>1. TaskControlOK(c)
    BY <1>1, TaskTypes
  <2>2. QED
    BY <1>2, <1>3, <2>1 DEF TaskControlOK, Async!Complete, Async!Plan, Async!Sorted
<1>7. QED
  BY <1>1, <1>2, <1>3, <1>4, <1>5, <1>6, TaskTypes, ThreadStep

(* A thread that has run a tool touches no lock. *)
LEMMA ThreadHasRun ==
    ASSUME Async!AsyncAssumption, TaskInv, NEW t \in Threads, Async!ToolReturns(t)
    PROVE  TaskInv'
<1>1. /\ job[t] # NoJob /\ job[t].does = "run" /\ Async!Deliver(t, "running", "returned")
      /\ UNCHANGED <<asyncWriter, asyncReaders, asyncTracked, jobs, taskGot, taskAttempt, taskResult>>
  BY DEF Async!ToolReturns, Async!Does, Async!lockVars
<1>2. job[t] \in Async!Jobs /\ job[t].call \in Async!Calls /\ RunsOnce(t)
  BY <1>1, TaskTypes, JobFields
<1>3. PICK c \in Async!Calls : c = job[t].call
  BY <1>2
<1>4. /\ job' \in [Threads -> Async!Jobs \union {NoJob}]
      /\ \A u \in Threads : u # t => job'[u] = job[u]
      /\ job'[t] = NoJob
      /\ taskAt' \in [Async!Calls -> TaskPlaces]
      /\ \A e \in Async!Calls : e # c => taskAt'[e] = taskAt[e]
      /\ taskAt'[c] = IF taskAt[c] = "running" THEN "returned" ELSE taskAt[c]
  BY <1>1, <1>2, <1>3, Delivered DEF TaskPlaces
<1>5. TaskLocksOK'
  BY <1>1, TaskLocksStay DEF TaskInv
<1>6. ASSUME taskAt[c] = "running", NEW j \in Async!Jobs, Contains(jobs, j)
      PROVE  j.call # c
  <2>1. SUFFICES ASSUME j.call = c
                 PROVE  FALSE
    OBVIOUS
  <2>2. Awaited(j)
    BY <1>6, TaskTypes
  <2>3. j.does = "run"
    BY <1>6, <2>1, <2>2 DEF Awaited
  <2>4. j = job[t]
    BY <1>1, <1>2, <1>3, <2>1, <2>3, JobFields
  <2>5. QED
    BY <1>1, <1>2, <1>6, <2>4 DEF RunsOnce
<1>7. QueuedIsAwaited'
  <2>1. /\ jobs \in Seq(Async!Jobs) /\ IsInjective(jobs)
        /\ \A j \in Async!Jobs : Contains(jobs, j) => Awaited(j)
    BY TaskTypes
  <2>2. ASSUME NEW j \in Async!Jobs, Contains(jobs, j)
        PROVE  Awaited(j)'
    <3>1. Awaited(j) /\ j.call \in Async!Calls
      BY <2>1, <2>2, JobFields
    <3>2. taskAt'[j.call] = taskAt[j.call]
      BY <1>4, <1>6, <2>2, <3>1
    <3>3. QED
      BY <3>1, <3>2 DEF Awaited
  <2>3. QED
    BY <1>1, <2>1, <2>2 DEF QueuedIsAwaited
<1>8. ASSUME NEW u \in Threads, NEW e \in Async!Calls, Touches(u, e)'
      PROVE  TouchedByOne(u, e)'
  <2>1. u # t /\ Touches(u, e)
    BY <1>4, <1>8 DEF Touches
  <2>2. TouchedByOne(u, e)
    BY <2>1, TaskTypes
  <2>3. taskAt'[e] = taskAt[e]
    BY <1>4, <2>2 DEF TouchedByOne
  <2>4. \A v \in Threads : Touches(v, e)' => v = u
    BY <1>4, <2>2 DEF Touches, TouchedByOne
  <2>5. QED
    BY <1>1, <1>4, <2>1, <2>2, <2>3, <2>4 DEF TouchedByOne
<1>9. ASSUME NEW u \in Threads
      PROVE  RunsOnce(u)'
  <2>1. CASE u = t
    BY <1>4, <2>1 DEF RunsOnce
  <2>2. CASE u # t
    <3>1. RunsOnce(u) /\ (job[u] # NoJob => job[u].call \in Async!Calls)
      BY TaskTypes, JobFields
    <3>2. QED
      BY <1>1, <1>4, <2>2, <3>1 DEF RunsOnce
  <2>3. QED
    BY <2>1, <2>2
<1>10. ASSUME NEW e \in Async!Calls
       PROVE  TaskControlOK(e)'
  <2>1. TaskControlOK(e)
    BY TaskTypes
  <2>2. taskAt'[e] = taskAt[e] \/ (taskAt[e] = "running" /\ taskAt'[e] = "returned")
    BY <1>4
  <2>3. QED
    BY <1>1, <2>1, <2>2 DEF TaskControlOK, Async!Complete, Async!Plan, Async!Sorted
<1>11. QED
  BY <1>1, <1>4, <1>5, <1>7, <1>8, <1>9, <1>10, TaskTypes DEF TaskInv

LEMMA TaskNextIInv ==
    ASSUME Async!AsyncAssumption, TaskInv, [Async!Next]_(Async!vars)
    PROVE  TaskInv'
<1>1. ASSUME NEW c \in Async!Calls,
             Async!Enter(c) \/ Async!Resume(c) \/ Async!Return(c) \/ Async!TimeOut(c)
      PROVE  TaskInv'
  BY <1>1, TaskEnters, TaskResumes, TaskReturns, TaskTimesOut
<1>2. ASSUME NEW t \in Threads,
             \/ Async!Take(t)
             \/ Async!Acquire(t) \/ Async!Acquired(t) \/ Async!Block(t) \/ Async!GiveUp(t)
             \/ Async!ToolReturns(t)
             \/ Async!ReleaseLast(t) \/ Async!Retry(t) \/ Async!Released(t)
      PROVE  TaskInv'
  BY <1>2, ThreadTakes, ThreadAcquires, ThreadHasAcquired, ThreadBlocks, ThreadGivesUp,
     ThreadHasRun, ThreadReleases, ThreadRetries, ThreadHasReleased
<1>3. CASE UNCHANGED Async!vars
  <2>1. UNCHANGED <<asyncWriter, asyncReaders, asyncTracked, taskAt, jobs, job, taskGot,
                    taskAttempt, taskResult>>
    BY <1>3 DEF Async!vars, Async!lockVars
  <2>2. TaskLocksOK'
    BY <2>1, TaskLocksStay DEF TaskInv
  <2>3. QueuedIsAwaited' /\ \A t \in Threads : RunsOnce(t)'
    BY <2>1, TaskTypes DEF QueuedIsAwaited, Awaited, RunsOnce
  <2>4. \A t \in Threads, c \in Async!Calls : Touches(t, c)' => TouchedByOne(t, c)'
    <3>1. ASSUME NEW t \in Threads, NEW c \in Async!Calls, Touches(t, c)'
          PROVE  TouchedByOne(t, c)'
      <4>1. Touches(t, c)
        BY <2>1, <3>1 DEF Touches
      <4>2. TouchedByOne(t, c)
        BY <4>1, TaskTypes
      <4>3. QED
        BY <2>1, <4>2 DEF TouchedByOne, Touches
    <3>2. QED
      BY <3>1
  <2>5. \A c \in Async!Calls : TaskControlOK(c)'
    BY <2>1, TaskTypes DEF TaskControlOK, Async!Complete, Async!Plan, Async!Sorted
  <2>6. QED
    BY <2>1, <2>2, <2>3, <2>4, <2>5, TaskTypes DEF TaskInv
<1>4. QED
  BY <1>1, <1>2, <1>3 DEF Async!Next

LEMMA TasksAreSafeInv ==
    ASSUME Async!AsyncAssumption, TaskInv
    PROVE  TasksAreSafe
<1>1. /\ TaskLocksOK /\ \A c \in Async!Calls : TaskControlOK(c)
      /\ Async!LocksTypeOK /\ Async!WriterExcludesReaders /\ TaskLocksAgree
      /\ \A c \in Async!Calls : taskGot[c] \in Nat /\ taskGot[c] <= Len(Async!Plan(c))
  BY TaskTypes DEF TaskInv, TaskLocksOK
<1>2. Async!TypeOK
  <2>1. \A c \in Async!Calls : taskGot[c] \in 0 .. Len(Async!Plan(c))
    BY <1>1, TaskPlan
  <2>2. \A c \in Async!Calls : taskAttempt[c] \in 1 .. MaxTaskAttempts
    BY <1>1 DEF TaskControlOK
  <2>3. QED
    BY <1>1, <2>1, <2>2, TaskTypes DEF Async!TypeOK, TaskPlaces
<1>3. ASSUME NEW c \in Async!Calls, Async!Running(c), NEW x \in CoroutineDecl[c]
      PROVE  TaskHolds(c, x) /\ x \in Declarations
  <2>1. taskGot[c] = Len(Async!Plan(c))
    BY <1>1, <1>3 DEF TaskControlOK, Async!Running, Async!Complete
  <2>2. PICK i \in 1 .. Len(Async!Plan(c)) : Async!Plan(c)[i] = x
    BY TaskPlan
  <2>3. x \in Declarations
    BY <2>2, TaskPlan
  <2>4. QED
    BY <2>1, <2>2, <2>3 DEF TaskHolds
<1>4. ASSUME NEW c \in Async!Calls, NEW d \in Async!Calls, c # d,
             NEW x \in Declarations, NEW y \in Declarations, TaskHolds(c, x), TaskHolds(d, y),
             x.key = y.key, x.mode = "WRITE"
      PROVE  FALSE
  <2>1. x.key \in Keys /\ x = WriteOf(x.key) /\ (y = WriteOf(x.key) \/ y = ReadOf(x.key))
    <3>1. /\ x = [key |-> x.key, mode |-> x.mode] /\ x.key \in Keys
          /\ y = [key |-> y.key, mode |-> y.mode] /\ y.mode \in {"READ", "WRITE"}
      BY DEF Declarations, Modes
    <3>2. QED
      BY <1>4, <3>1 DEF WriteOf, ReadOf
  <2>2. CASE y = WriteOf(x.key)
    BY <1>1, <1>4, <2>1, <2>2 DEF TaskLocksAgree
  <2>3. CASE y = ReadOf(x.key)
    <3>1. asyncReaders[x.key] = 0
      BY <1>1, <1>4, <2>1 DEF TaskLocksAgree, Async!WriterExcludesReaders
    <3>2. d \in TaskReadersOf(x.key)
      BY <1>4, <2>3 DEF TaskReadersOf
    <3>3. Cardinality(TaskReadersOf(x.key)) # 0
      BY <3>2, TaskReadersFinite, FS_EmptySet
    <3>4. QED
      BY <1>1, <2>1, <3>1, <3>3 DEF TaskLocksAgree
  <2>4. QED
    BY <2>1, <2>2, <2>3
<1>5. Async!Serialised
  <2>1. ASSUME NEW c \in Async!Calls, NEW d \in Async!Calls, c # d,
               Async!Running(c), Async!Running(d), Async!Conflict(c, d)
        PROVE  FALSE
    <3>1. PICK x \in CoroutineDecl[c], y \in CoroutineDecl[d] :
              x.key = y.key /\ "WRITE" \in {x.mode, y.mode}
      BY <2>1 DEF Async!Conflict
    <3>2. /\ TaskHolds(c, x) /\ x \in Declarations
          /\ TaskHolds(d, y) /\ y \in Declarations
      BY <1>3, <2>1
    <3>3. QED
      BY <1>4, <2>1, <3>1, <3>2
  <2>2. QED
    BY <1>1, <2>1 DEF Async!Serialised
<1>6. Async!ReadsAreReturned
  <2>1. SUFFICES ASSUME Async!Over, \A c \in Async!Calls : taskResult[c] = "answered",
                        NEW k \in Keys
                 PROVE  asyncReaders[k] = 0
    BY DEF Async!ReadsAreReturned
  <2>2. \A c \in Async!Calls : taskGot[c] = 0
    BY <1>1, <2>1 DEF Async!Over, TaskControlOK
  <2>3. TaskReadersOf(k) = {}
    BY <2>2 DEF TaskReadersOf, TaskHolds
  <2>4. QED
    BY <1>1, <2>3, FS_EmptySet DEF TaskLocksAgree
<1>7. QED
  BY <1>2, <1>5, <1>6 DEF TasksAreSafe

-----------------------------------------------------------------------------
(* The shell of the bash tool.                                             *)

HasShell(c) == bashAt[c] \in {"reading", "resetting"}

(* Who has the lock, and who waits for it. *)
CommandsQueue ==
    /\ \A c \in Commands : bashAt[c] \in {"waiting", "reading", "resetting"} <=> Contains(bashQueue, c)
    /\ \A c \in Commands : HasShell(c) => bashQueue[1] = c

(* The shell of the command is the process, as long as there is one. *)
ProcessIsShell ==
    /\ process # 0 => state[process] # "unborn"
    /\ \A c \in Commands : HasShell(c) => shell[c] \in Bash!Shells /\ process \in {0, shell[c]}

(* What a shell has to do, and what it has printed, is of the command, and  *)
(* its mark comes last. *)
PipeIsOf(s, c) ==
    /\ input[s] \in {<<>>, <<c>>}
    /\ \A i \in 1 .. Len(pipe[s]) :
          pipe[s][i].of = c /\ (pipe[s][i].end => i = Len(pipe[s]) /\ input[s] = <<>>)

PipesAreOwn ==
    /\ \A s \in Bash!Shells : state[s] = "unborn" => input[s] = <<>> /\ pipe[s] = <<>>
    /\ \A c \in Commands : bashAt[c] = "reading" => PipeIsOf(shell[c], c)
    /\ ~Bash!Gone /\ (\A c \in Commands : ~HasShell(c)) => input[process] = <<>> /\ pipe[process] = <<>>

SeenIsOwn ==
    \A c \in Commands :
        seen[c] \subseteq {c} /\ (output[c] = "output" => bashAt[c] = "done" /\ seen[c] = {c})

CommandInv ==
    /\ Bash!TypeOK /\ Bash!ShellIsKnown
    /\ CommandsQueue /\ ProcessIsShell /\ PipesAreOwn /\ SeenIsOwn

Items == [of : Commands, end : BOOLEAN]

LEMMA CommandTypes ==
    ASSUME Bash!ShellAssumption, CommandInv
    PROVE  /\ MaxShells \in Nat \ {0} /\ MaxCancels \in Nat /\ 0 \notin Bash!Shells
           /\ bashQueue \in Seq(Commands) /\ IsInjective(bashQueue)
           /\ process \in Bash!Shells \union {0}
           /\ state \in [Bash!Shells -> {"unborn", "up", "signalled", "exited", "down"}]
           /\ input \in [Bash!Shells -> Seq(Commands)] /\ child \in [Bash!Shells -> BOOLEAN]
           /\ pipe \in [Bash!Shells -> Seq(Items)]
           /\ bashAt \in [Commands -> {"idle", "waiting", "reading", "resetting", "done"}]
           /\ shell \in [Commands -> Bash!Shells \union {0}]
           /\ seen \in [Commands -> SUBSET Commands]
           /\ output \in [Commands -> {"none", "output", "died", "deadline", "cancelled"}]
           /\ cleanup \in {"no", "waiting", "over"}
           /\ bashCancels \in 0 .. MaxCancels
  BY DEF Bash!ShellAssumption, CommandInv, Bash!TypeOK, Bash!IsInjective, IsInjective, Bash!Shells,
         Items


LEMMA CommandInitIInv ==
    ASSUME Bash!ShellAssumption, Bash!Init
    PROVE  CommandInv
<1>1. bashQueue \in Seq(Commands) /\ IsInjective(bashQueue) /\ \A e : ~Contains(bashQueue, e)
  BY EmptyQueue DEF Bash!Init
<1>2. Bash!TypeOK
  BY <1>1 DEF Bash!TypeOK, Bash!Init, Bash!ShellAssumption, Bash!IsInjective, IsInjective
<1>3. QED
  BY <1>1, <1>2
     DEF CommandInv, Bash!Init, Bash!ShellIsKnown, CommandsQueue, ProcessIsShell, PipesAreOwn,
         SeenIsOwn, HasShell, Bash!Gone

(* At most one command has the shell. *)
LEMMA OneHasShell ==
    ASSUME CommandInv, NEW c \in Commands, NEW d \in Commands, HasShell(c), HasShell(d)
    PROVE  c = d
  BY DEF CommandInv, CommandsQueue

(* What the shells do by themselves: who waits, and what was answered, is   *)
(* as it was. *)
LEMMA ShellsStep ==
    ASSUME Bash!ShellAssumption, CommandInv, NEW s \in Bash!Shells,
           Bash!Line(s) \/ Bash!Mark(s) \/ Bash!Exit(s) \/ Bash!ChildEnds(s) \/ Bash!Reap(s)
    PROVE  CommandInv'
<1> USE DEF CommandInv
<1>0. UNCHANGED <<bashQueue, process, bashAt, shell, seen, output, cleanup, bashCancels>>
  BY DEF Bash!Line, Bash!Mark, Bash!Exit, Bash!ChildEnds, Bash!Reap
<1>1. /\ process \in Bash!Shells \union {0} /\ 0 \notin Bash!Shells
      /\ state \in [Bash!Shells -> {"unborn", "up", "signalled", "exited", "down"}]
      /\ input \in [Bash!Shells -> Seq(Commands)] /\ child \in [Bash!Shells -> BOOLEAN]
      /\ pipe \in [Bash!Shells -> Seq(Items)]
      /\ bashAt \in [Commands -> {"idle", "waiting", "reading", "resetting", "done"}]
  BY CommandTypes
<1>2. CommandsQueue' /\ SeenIsOwn'
  BY <1>0 DEF CommandsQueue, SeenIsOwn, HasShell
<1>3. CASE Bash!Exit(s) \/ Bash!ChildEnds(s) \/ Bash!Reap(s)
  <2>1. /\ UNCHANGED <<input, pipe>>
        /\ state' \in [Bash!Shells -> {"unborn", "up", "signalled", "exited", "down"}]
        /\ child' \in [Bash!Shells -> BOOLEAN]
    <3>1. CASE Bash!Exit(s)
      <4>1. PICK b \in {FALSE, input[s] # <<>>} : child' = [child EXCEPT ![s] = b]
        BY <3>1 DEF Bash!Exit
      <4>2. b \in BOOLEAN
        OBVIOUS
      <4>3. child' \in [Bash!Shells -> BOOLEAN]
        BY <1>1, <4>1, <4>2
      <4>4. QED
        BY <1>1, <3>1, <4>3 DEF Bash!Exit
    <3>2. CASE Bash!ChildEnds(s)
      <4>1. FALSE \in BOOLEAN /\ child' = [child EXCEPT ![s] = FALSE]
        BY <3>2 DEF Bash!ChildEnds
      <4>2. child' \in [Bash!Shells -> BOOLEAN]
        BY <1>1, <4>1
      <4>3. QED
        BY <1>1, <3>2, <4>2 DEF Bash!ChildEnds
    <3>3. CASE Bash!Reap(s)
      BY <1>1, <3>3 DEF Bash!Reap, Bash!pipes
    <3>4. QED
      BY <1>3, <3>1, <3>2, <3>3
  <2>2. \A t \in Bash!Shells :
           /\ state'[t] = "unborn" <=> state[t] = "unborn"
           /\ state'[t] \in {"up", "signalled"} => state[t] \in {"up", "signalled"}
           /\ state[t] = "down" => state'[t] = "down"
    BY <1>1, <1>3 DEF Bash!Exit, Bash!ChildEnds, Bash!Reap
  <2>3. Bash!TypeOK'
    BY <1>0, <2>1 DEF Bash!TypeOK
  <2>4. Bash!ShellIsKnown' /\ ProcessIsShell'
    BY <1>0, <1>1, <2>2 DEF Bash!ShellIsKnown, ProcessIsShell, HasShell
  <2>5. PipesAreOwn'
    BY <1>0, <1>1, <2>1, <2>2 DEF PipesAreOwn, PipeIsOf, HasShell, Bash!Gone
  <2>6. QED
    BY <1>2, <2>3, <2>4, <2>5
<1>4. CASE Bash!Line(s)
  <2>1. /\ input[s] # <<>> /\ pipe[s] = <<>>
        /\ pipe' = [pipe EXCEPT ![s] = <<[of |-> input[s][1], end |-> FALSE]>>]
        /\ UNCHANGED <<state, input, child>>
    BY <1>4 DEF Bash!Line
  <2>2. input[s][1] \in Commands
    BY <1>1, <2>1
  <2>3. pipe' \in [Bash!Shells -> Seq(Items)]
    <3>1. [of |-> input[s][1], end |-> FALSE] \in Items
      BY <2>2 DEF Items
    <3>2. <<[of |-> input[s][1], end |-> FALSE]>> \in Seq(Items)
      BY <3>1
    <3>3. QED
      BY <1>1, <2>1, <3>2
  <2>4. Bash!TypeOK'
    BY <1>0, <2>1, <2>3 DEF Bash!TypeOK, Items
  <2>5. Bash!ShellIsKnown' /\ ProcessIsShell'
    BY <1>0, <2>1 DEF Bash!ShellIsKnown, ProcessIsShell, HasShell
  <2>6. ASSUME NEW c \in Commands, bashAt[c] = "reading"
        PROVE  PipeIsOf(shell[c], c)'
    <3>1. PipeIsOf(shell[c], c) /\ shell[c] \in Bash!Shells
      BY <2>6 DEF PipesAreOwn, ProcessIsShell, HasShell
    <3>2. CASE shell[c] = s
      <4>1. input[s] = <<c>>
        BY <2>1, <3>1, <3>2 DEF PipeIsOf
      <4>2. pipe'[s] = <<[of |-> c, end |-> FALSE]>>
        <5>1. input[s][1] = c
          BY <4>1
        <5>2. QED
          BY <1>1, <2>1, <5>1
      <4>3. QED
        BY <1>0, <2>1, <3>2, <4>1, <4>2 DEF PipeIsOf
    <3>3. CASE shell[c] # s
      BY <1>0, <1>1, <2>1, <3>1, <3>3 DEF PipeIsOf
    <3>4. QED
      BY <3>2, <3>3
  <2>7. PipesAreOwn'
    BY <1>0, <1>1, <2>1, <2>6 DEF PipesAreOwn, HasShell, Bash!Gone
  <2>8. QED
    BY <1>2, <2>4, <2>5, <2>7
<1>5. CASE Bash!Mark(s)
  <2>1. /\ input[s] # <<>> /\ state[s] \in {"up", "signalled"}
        /\ pipe' = [pipe EXCEPT ![s] = Append(@, [of |-> input[s][1], end |-> TRUE])]
        /\ input' = [input EXCEPT ![s] = Tail(@)]
        /\ UNCHANGED <<state, child>>
    BY <1>5 DEF Bash!Mark
  <2>2. input[s][1] \in Commands /\ Tail(input[s]) \in Seq(Commands)
    BY <1>1, <2>1
  <2>3. pipe' \in [Bash!Shells -> Seq(Items)] /\ input' \in [Bash!Shells -> Seq(Commands)]
    <3>1. [of |-> input[s][1], end |-> TRUE] \in Items
      BY <2>2 DEF Items
    <3>2. Append(pipe[s], [of |-> input[s][1], end |-> TRUE]) \in Seq(Items)
      BY <1>1, <3>1
    <3>3. QED
      BY <1>1, <2>1, <2>2, <3>2
  <2>4. Bash!TypeOK'
    BY <1>0, <2>1, <2>3 DEF Bash!TypeOK, Items
  <2>5. Bash!ShellIsKnown' /\ ProcessIsShell'
    BY <1>0, <2>1 DEF Bash!ShellIsKnown, ProcessIsShell, HasShell
  <2>6. ASSUME NEW c \in Commands, bashAt[c] = "reading"
        PROVE  PipeIsOf(shell[c], c)'
    <3>1. PipeIsOf(shell[c], c) /\ shell[c] \in Bash!Shells
      BY <2>6 DEF PipesAreOwn, ProcessIsShell, HasShell
    <3>2. CASE shell[c] = s
      <4>1. input[s] = <<c>>
        BY <2>1, <3>1, <3>2 DEF PipeIsOf
      <4>2. input'[s] = <<>> /\ pipe'[s] = Append(pipe[s], [of |-> c, end |-> TRUE])
        BY <1>1, <2>1, <4>1
      <4>3. pipe[s] \in Seq(Items) /\ \A i \in 1 .. Len(pipe[s]) : pipe[s][i].of = c /\ ~pipe[s][i].end
        BY <1>1, <3>1, <3>2, <4>1 DEF PipeIsOf
      <4>4. \A i \in 1 .. Len(pipe'[s]) :
               pipe'[s][i].of = c /\ (pipe'[s][i].end => i = Len(pipe'[s]))
        BY <4>2, <4>3
      <4>5. QED
        BY <1>0, <3>2, <4>2, <4>4 DEF PipeIsOf
    <3>3. CASE shell[c] # s
      BY <1>0, <1>1, <2>1, <3>1, <3>3 DEF PipeIsOf
    <3>4. QED
      BY <3>2, <3>3
  <2>7. PipesAreOwn'
    BY <1>0, <1>1, <2>1, <2>6 DEF PipesAreOwn, HasShell, Bash!Gone
  <2>8. QED
    BY <1>2, <2>4, <2>5, <2>7
<1>6. QED
  BY <1>3, <1>4, <1>5

(* The command leaves the lock. *)
LEMMA LeaveCommand ==
    ASSUME Bash!ShellAssumption, CommandInv, NEW c \in Commands,
           NEW how \in {"none", "output", "died", "deadline", "cancelled"}, Bash!Leave(c, how)
    PROVE  /\ bashQueue' \in Seq(Commands) /\ IsInjective(bashQueue')
           /\ bashAt' = [bashAt EXCEPT ![c] = "done"] /\ output' = [output EXCEPT ![c] = how]
           /\ bashAt' \in [Commands -> {"idle", "waiting", "reading", "resetting", "done"}]
           /\ output' \in [Commands -> {"none", "output", "died", "deadline", "cancelled"}]
           /\ CommandsQueue'
<1>1. /\ bashQueue \in Seq(Commands) /\ IsInjective(bashQueue) /\ CommandsQueue
      /\ bashAt \in [Commands -> {"idle", "waiting", "reading", "resetting", "done"}]
      /\ output \in [Commands -> {"none", "output", "died", "deadline", "cancelled"}]
  BY CommandTypes DEF CommandInv
<1>2. PICK i \in 1 .. Len(bashQueue) : bashQueue[i] = c /\ bashQueue' = RemoveAt(bashQueue, i)
  <2>1. DOMAIN bashQueue = 1 .. Len(bashQueue)
    BY <1>1
  <2>2. \E i \in DOMAIN bashQueue : bashQueue[i] = c /\ bashQueue' = RemoveAt(bashQueue, i)
    BY Zenon DEF Bash!Leave, Bash!RemoveAt, RemoveAt
  <2>3. QED
    BY <2>1, <2>2
<1>3. /\ bashAt' = [bashAt EXCEPT ![c] = "done"] /\ output' = [output EXCEPT ![c] = how]
  BY DEF Bash!Leave, Bash!Goto
<1>4. /\ bashQueue' \in Seq(Commands) /\ IsInjective(bashQueue')
      /\ \A e : Contains(bashQueue', e) <=> Contains(bashQueue, e) /\ e # c
  BY <1>1, <1>2, RemoveAtQueue
<1>5. ASSUME NEW d \in Commands, HasShell(d)'
      PROVE  bashQueue'[1] = d
  <2>1. d # c /\ HasShell(d)
    BY <1>1, <1>3, <1>5 DEF HasShell
  <2>2. bashQueue[1] = d
    BY <1>1, <2>1 DEF CommandsQueue
  <2>3. 1 < i /\ 1 \in 1 .. Len(bashQueue) - 1
    BY <1>1, <1>2, <2>1, <2>2
  <2>4. QED
    BY <1>1, <1>2, <2>2, <2>3, RemoveAtProperties
<1>6. CommandsQueue'
  BY <1>1, <1>3, <1>4, <1>5 DEF CommandsQueue
<1>7. QED
  BY <1>1, <1>3, <1>4, <1>6

LEMMA AskIInv ==
    ASSUME Bash!ShellAssumption, CommandInv, NEW c \in Commands, Bash!Ask(c)
    PROVE  CommandInv'
<1> USE DEF CommandInv
<1>0. /\ bashAt[c] = "idle" /\ bashQueue' = Append(bashQueue, c)
      /\ bashAt' = [bashAt EXCEPT ![c] = "waiting"]
      /\ UNCHANGED <<process, state, input, child, pipe, shell, seen, output, cleanup, bashCancels>>
  BY DEF Bash!Ask, Bash!Goto, Bash!pipes
<1>1. /\ bashQueue \in Seq(Commands) /\ IsInjective(bashQueue)
      /\ bashAt \in [Commands -> {"idle", "waiting", "reading", "resetting", "done"}]
  BY CommandTypes
<1>2. ~Contains(bashQueue, c)
  BY <1>0 DEF CommandsQueue
<1>3. /\ bashQueue' \in Seq(Commands) /\ IsInjective(bashQueue')
      /\ \A e : Contains(bashQueue', e) <=> Contains(bashQueue, e) \/ e = c
  BY <1>0, <1>1, <1>2, AppendQueue
<1>4. Bash!TypeOK'
  BY <1>0, <1>1, <1>3 DEF Bash!TypeOK, Bash!IsInjective, IsInjective
<1>5. \A d \in Commands : HasShell(d)' <=> HasShell(d)
  BY <1>0, <1>1 DEF HasShell
<1>6. CommandsQueue'
  <2>1. ASSUME NEW d \in Commands, HasShell(d)
        PROVE  bashQueue'[1] = d
    <3>1. Contains(bashQueue, d) /\ bashQueue[1] = d
      BY <2>1 DEF CommandsQueue, HasShell
    <3>2. 1 \in 1 .. Len(bashQueue)
      BY <1>1, <3>1 DEF Contains
    <3>3. QED
      BY <1>0, <1>1, <3>1, <3>2
  <2>2. QED
    BY <1>0, <1>1, <1>3, <1>5, <2>1 DEF CommandsQueue
<1>7. \A d \in Commands : bashAt'[d] \in {"reading", "done"} <=> bashAt[d] \in {"reading", "done"}
  BY <1>0, <1>1
<1>8. \A d \in Commands : bashAt'[d] = "reading" <=> bashAt[d] = "reading"
  BY <1>0, <1>1
<1>9. \A d \in Commands : bashAt[d] = "done" => bashAt'[d] = "done"
  BY <1>0, <1>1
<1>10. Bash!ShellIsKnown' /\ ProcessIsShell' /\ PipesAreOwn' /\ SeenIsOwn'
  BY <1>0, <1>5, <1>8, <1>9
     DEF Bash!ShellIsKnown, ProcessIsShell, PipesAreOwn, PipeIsOf, SeenIsOwn, Bash!Gone
<1>11. QED
  BY <1>4, <1>6, <1>10

(* A new shell has printed nothing, and one that is still there has nothing  *)
(* left of the commands before. *)
LEMMA BashBeginIInv ==
    ASSUME Bash!ShellAssumption, CommandInv, NEW c \in Commands, Bash!Begin(c)
    PROVE  CommandInv'
<1> USE DEF CommandInv
<1>1. /\ bashQueue \in Seq(Commands) /\ 0 \notin Bash!Shells
      /\ process \in Bash!Shells \union {0}
      /\ state \in [Bash!Shells -> {"unborn", "up", "signalled", "exited", "down"}]
      /\ input \in [Bash!Shells -> Seq(Commands)]
      /\ pipe \in [Bash!Shells -> Seq(Items)]
      /\ bashAt \in [Commands -> {"idle", "waiting", "reading", "resetting", "done"}]
      /\ shell \in [Commands -> Bash!Shells \union {0}]
      /\ output \in [Commands -> {"none", "output", "died", "deadline", "cancelled"}]
  BY CommandTypes
<1>2. PICK s \in Bash!Shells :
         /\ \/ Bash!Gone /\ state[s] = "unborn" /\ state' = [state EXCEPT ![s] = "up"]
            \/ ~Bash!Gone /\ s = process /\ UNCHANGED state
         /\ process' = s /\ shell' = [shell EXCEPT ![c] = s]
         /\ input' = [input EXCEPT ![s] = Append(@, c)]
  BY Zenon DEF Bash!Begin, Bash!Unborn
<1>3. /\ bashAt[c] = "waiting" /\ bashQueue[1] = c
      /\ bashAt' = [bashAt EXCEPT ![c] = "reading"]
      /\ UNCHANGED <<bashQueue, child, pipe, seen, output, cleanup, bashCancels>>
  BY DEF Bash!Begin, Bash!Goto
<1>4. \A d \in Commands : ~HasShell(d)
  BY <1>3 DEF CommandsQueue, HasShell
<1>5. input[s] = <<>> /\ pipe[s] = <<>>
  BY <1>2, <1>4 DEF PipesAreOwn
<1>6. \A d \in Commands : HasShell(d)' <=> d = c
  BY <1>1, <1>3, <1>4 DEF HasShell
<1>7. Bash!TypeOK'
  <2>1. state' \in [Bash!Shells -> {"unborn", "up", "signalled", "exited", "down"}]
    BY <1>1, <1>2
  <2>2. Append(input[s], c) \in Seq(Commands)
    BY <1>1
  <2>3. input' \in [Bash!Shells -> Seq(Commands)]
    BY <1>1, <1>2, <2>2
  <2>4. shell' \in [Commands -> Bash!Shells \union {0}]
        /\ bashAt' \in [Commands -> {"idle", "waiting", "reading", "resetting", "done"}]
    BY <1>1, <1>2, <1>3
  <2>5. QED
    BY <1>2, <1>3, <2>1, <2>3, <2>4 DEF Bash!TypeOK
<1>8. Bash!ShellIsKnown'
  BY <1>1, <1>2 DEF Bash!ShellIsKnown, Bash!Gone
<1>9. CommandsQueue'
  BY <1>1, <1>3, <1>6 DEF CommandsQueue
<1>10. ProcessIsShell'
  BY <1>1, <1>2, <1>6 DEF ProcessIsShell
<1>11. input'[s] = <<c>> /\ pipe'[s] = <<>> /\ shell'[c] = s
  BY <1>1, <1>2, <1>3, <1>5
<1>12. PipesAreOwn'
  <2>1. PipeIsOf(s, c)'
    BY <1>11 DEF PipeIsOf
  <2>2. \A d \in Commands : bashAt'[d] = "reading" => d = c
    BY <1>6 DEF HasShell
  <2>3. ASSUME NEW t \in Bash!Shells, state'[t] = "unborn"
        PROVE  input'[t] = <<>> /\ pipe'[t] = <<>>
    <3>1. t # s /\ state[t] = "unborn"
      BY <1>1, <1>2, <2>3 DEF ProcessIsShell
    <3>2. QED
      BY <1>1, <1>2, <1>3, <3>1 DEF PipesAreOwn
  <2>4. QED
    BY <1>6, <1>11, <2>1, <2>2, <2>3 DEF PipesAreOwn
<1>13. SeenIsOwn'
  BY <1>1, <1>3 DEF SeenIsOwn
<1>14. QED
  BY <1>7, <1>8, <1>9, <1>10, <1>12, <1>13

LEMMA BashReadIInv ==
    ASSUME Bash!ShellAssumption, CommandInv, NEW c \in Commands, Bash!Read(c)
    PROVE  CommandInv'
<1> USE DEF CommandInv
<1> DEFINE s == shell[c]
           item == pipe[s][1]
<1>1. /\ bashQueue \in Seq(Commands) /\ IsInjective(bashQueue) /\ 0 \notin Bash!Shells
      /\ process \in Bash!Shells \union {0}
      /\ state \in [Bash!Shells -> {"unborn", "up", "signalled", "exited", "down"}]
      /\ input \in [Bash!Shells -> Seq(Commands)]
      /\ pipe \in [Bash!Shells -> Seq(Items)]
      /\ bashAt \in [Commands -> {"idle", "waiting", "reading", "resetting", "done"}]
      /\ shell \in [Commands -> Bash!Shells \union {0}]
      /\ seen \in [Commands -> SUBSET Commands]
      /\ output \in [Commands -> {"none", "output", "died", "deadline", "cancelled"}]
  BY CommandTypes
<1>2. /\ bashAt[c] = "reading" /\ pipe[s] # <<>>
      /\ seen' = [seen EXCEPT ![c] = @ \union {item.of}]
      /\ pipe' = [pipe EXCEPT ![s] = Tail(@)]
      /\ UNCHANGED <<process, state, input, child, shell, cleanup, bashCancels>>
      /\ IF item.end THEN Bash!Leave(c, "output") ELSE UNCHANGED <<bashQueue, output, bashAt>>
  BY DEF Bash!Read
<1>3. HasShell(c) /\ s \in Bash!Shells /\ PipeIsOf(s, c) /\ process \in {0, s}
  BY <1>2 DEF HasShell, ProcessIsShell, PipesAreOwn
<1>4. /\ Len(pipe[s]) \in Nat \ {0} /\ pipe'[s] \in Seq(Items) /\ Len(pipe'[s]) = Len(pipe[s]) - 1
      /\ \A i \in 1 .. Len(pipe'[s]) : pipe'[s][i] = pipe[s][i + 1]
      /\ pipe' \in [Bash!Shells -> Seq(Items)]
  <2>1. pipe[s] \in Seq(Items) /\ pipe'[s] = Tail(pipe[s])
    BY <1>1, <1>2, <1>3
  <2> DEFINE q == pipe[s]
  <2>2. q \in Seq(Items) /\ q # <<>>
    BY <1>2, <2>1
  <2> HIDE DEF q
  <2>3. /\ Len(q) \in Nat \ {0} /\ Tail(q) \in Seq(Items) /\ Len(Tail(q)) = Len(q) - 1
        /\ \A i \in 1 .. Len(Tail(q)) : Tail(q)[i] = q[i + 1]
    BY <2>2, HeadTailProperties, EmptySeq
  <2>4. pipe' \in [Bash!Shells -> Seq(Items)]
    BY <1>1, <1>2, <2>3 DEF q
  <2>5. QED
    BY <2>1, <2>3, <2>4 DEF q
<1>5. item.of = c /\ (item.end => Len(pipe[s]) = 1 /\ input[s] = <<>>)
  <2>1. 1 \in 1 .. Len(pipe[s])
    BY <1>4
  <2>2. item.of = c /\ (item.end => 1 = Len(pipe[s]) /\ input[s] = <<>>)
    BY <1>3, <2>1 DEF PipeIsOf
  <2>3. QED
    BY <2>2
<1>6. PipeIsOf(s, c)'
  <2>1. \A i \in 1 .. Len(pipe'[s]) : i + 1 \in 1 .. Len(pipe[s])
    BY <1>4
  <2>2. QED
    BY <1>2, <1>3, <1>4, <2>1 DEF PipeIsOf
<1>7. seen' \in [Commands -> SUBSET Commands] /\ seen'[c] = {c}
      /\ \A d \in Commands : d # c => seen'[d] = seen[d]
  BY <1>1, <1>2, <1>5 DEF SeenIsOwn
<1>8. \A t \in Bash!Shells : t # s => pipe'[t] = pipe[t]
  BY <1>1, <1>2
<1>9. \A d \in Commands : HasShell(d) => d = c
  BY <1>3, OneHasShell
<1> HIDE DEF item
<1>10. CASE ~item.end
  <2>1. UNCHANGED <<bashQueue, output, bashAt>>
    BY <1>2, <1>10
  <2>2. Bash!TypeOK'
    BY <1>2, <1>4, <1>7, <2>1 DEF Bash!TypeOK, Items
  <2>3. Bash!ShellIsKnown' /\ CommandsQueue' /\ ProcessIsShell'
    BY <1>2, <2>1 DEF Bash!ShellIsKnown, CommandsQueue, ProcessIsShell, HasShell
  <2>4. PipesAreOwn'
    <3>1. \A d \in Commands : bashAt'[d] = "reading" => d = c
      BY <1>9, <2>1 DEF HasShell
    <3>2. HasShell(c)'
      BY <1>3, <2>1 DEF HasShell
    <3>3. state[s] # "unborn"
      BY <1>2, <1>3 DEF PipesAreOwn
    <3>4. QED
      BY <1>2, <1>6, <1>8, <3>1, <3>2, <3>3 DEF PipesAreOwn
  <2>5. SeenIsOwn'
    BY <1>2, <1>7, <2>1 DEF SeenIsOwn
  <2>6. QED
    BY <2>2, <2>3, <2>4, <2>5
<1>11. CASE item.end
  <2>1. Bash!Leave(c, "output")
    BY <1>2, <1>11
  <2>2. /\ bashQueue' \in Seq(Commands) /\ IsInjective(bashQueue')
        /\ bashAt' = [bashAt EXCEPT ![c] = "done"] /\ output' = [output EXCEPT ![c] = "output"]
        /\ bashAt' \in [Commands -> {"idle", "waiting", "reading", "resetting", "done"}]
        /\ output' \in [Commands -> {"none", "output", "died", "deadline", "cancelled"}]
        /\ CommandsQueue'
    BY <2>1, LeaveCommand
  <2>3. Bash!TypeOK'
    BY <1>2, <1>4, <1>7, <2>2 DEF Bash!TypeOK, Items, Bash!IsInjective, IsInjective
  <2>4. \A d \in Commands : ~HasShell(d)'
    BY <1>1, <1>9, <2>2 DEF HasShell
  <2>5. Bash!ShellIsKnown' /\ ProcessIsShell'
    BY <1>2, <2>4 DEF Bash!ShellIsKnown, ProcessIsShell
  <2>6. input'[s] = <<>> /\ pipe'[s] = <<>>
    <3>1. Len(pipe'[s]) = 0
      BY <1>4, <1>5, <1>11
    <3>2. QED
      BY <1>2, <1>4, <1>5, <1>11, <3>1, EmptySeq
  <2>7. PipesAreOwn'
    <3>1. \A d \in Commands : bashAt'[d] # "reading"
      BY <2>4 DEF HasShell
    <3>2. \A t \in Bash!Shells : state'[t] = "unborn" => input'[t] = <<>> /\ pipe'[t] = <<>>
      BY <1>2, <1>8, <2>6 DEF PipesAreOwn
    <3>3. ~Bash!Gone' => process' = s
      BY <1>2, <1>3 DEF Bash!Gone
    <3>4. QED
      BY <2>6, <3>1, <3>2, <3>3 DEF PipesAreOwn
  <2>8. SeenIsOwn'
    BY <1>1, <1>7, <2>2 DEF SeenIsOwn
  <2>9. QED
    BY <2>2, <2>3, <2>5, <2>7, <2>8
<1>12. QED
  BY <1>10, <1>11

(* A signal: it leaves the shell the process, or what has come to an end.   *)
LEMMA SignalledIs ==
    ASSUME Bash!ShellAssumption, CommandInv, ~Bash!Gone, state' = Bash!Signalled
    PROVE  /\ process \in Bash!Shells /\ state[process] # "down"
           /\ state' \in [Bash!Shells -> {"unborn", "up", "signalled", "exited", "down"}]
           /\ \A t \in Bash!Shells :
                 /\ state'[t] = "unborn" <=> state[t] = "unborn"
                 /\ state'[t] \in {"up", "signalled"} => state[t] \in {"up", "signalled"}
                 /\ state'[t] = "down" <=> state[t] = "down"
<1>1. /\ process \in Bash!Shells \union {0}
      /\ state \in [Bash!Shells -> {"unborn", "up", "signalled", "exited", "down"}]
  BY CommandTypes
<1>2. QED
  BY <1>1 DEF Bash!Gone, Bash!Signalled

(* _reset_process up to its wait. *)
LEMMA ResetIInv ==
    ASSUME Bash!ShellAssumption, CommandInv, NEW c \in Commands, bashAt[c] = "reading",
           NEW how \in {"died", "deadline", "cancelled"}, Bash!Reset(c, how),
           UNCHANGED <<input, child, pipe, shell, seen, cleanup>>, bashCancels' \in 0 .. MaxCancels
    PROVE  CommandInv'
<1> USE DEF CommandInv
<1>1. /\ bashQueue \in Seq(Commands) /\ IsInjective(bashQueue) /\ 0 \notin Bash!Shells
      /\ process \in Bash!Shells \union {0}
      /\ bashAt \in [Commands -> {"idle", "waiting", "reading", "resetting", "done"}]
      /\ output \in [Commands -> {"none", "output", "died", "deadline", "cancelled"}]
  BY CommandTypes
<1>2. HasShell(c) /\ \A d \in Commands : HasShell(d) => d = c
  <2>1. HasShell(c)
    BY DEF HasShell
  <2>2. QED
    BY <2>1, OneHasShell
<1>3. output[c] # "output"
  BY DEF SeenIsOwn
<1>4. CASE Bash!Gone
  <2>1. process' = 0 /\ Bash!Leave(c, how) /\ UNCHANGED state
    BY <1>4 DEF Bash!Reset
  <2>2. /\ bashQueue' \in Seq(Commands) /\ IsInjective(bashQueue')
        /\ bashAt' = [bashAt EXCEPT ![c] = "done"] /\ output' = [output EXCEPT ![c] = how]
        /\ bashAt' \in [Commands -> {"idle", "waiting", "reading", "resetting", "done"}]
        /\ output' \in [Commands -> {"none", "output", "died", "deadline", "cancelled"}]
        /\ CommandsQueue'
    BY <2>1, LeaveCommand
  <2>3. Bash!TypeOK'
    BY <2>1, <2>2 DEF Bash!TypeOK, Bash!IsInjective, IsInjective
  <2>4. \A d \in Commands : ~HasShell(d)'
    BY <1>1, <1>2, <2>2 DEF HasShell
  <2>5. Bash!ShellIsKnown'
    BY <1>1, <1>4, <2>1 DEF Bash!ShellIsKnown, Bash!Gone
  <2>6. ProcessIsShell'
    BY <2>1, <2>4 DEF ProcessIsShell
  <2>7. PipesAreOwn'
    <3>1. \A d \in Commands : bashAt'[d] # "reading"
      BY <2>4 DEF HasShell
    <3>2. Bash!Gone'
      BY <2>1 DEF Bash!Gone
    <3>3. QED
      BY <2>1, <3>1, <3>2 DEF PipesAreOwn
  <2>8. SeenIsOwn'
    BY <1>1, <2>2 DEF SeenIsOwn
  <2>9. QED
    BY <2>2, <2>3, <2>5, <2>6, <2>7, <2>8
<1>5. CASE ~Bash!Gone
  <2>1. /\ state' = Bash!Signalled /\ output' = [output EXCEPT ![c] = how]
        /\ bashAt' = [bashAt EXCEPT ![c] = "resetting"] /\ UNCHANGED <<process, bashQueue>>
    BY <1>5 DEF Bash!Reset, Bash!Goto
  <2>2. /\ process \in Bash!Shells /\ state[process] # "down"
        /\ state' \in [Bash!Shells -> {"unborn", "up", "signalled", "exited", "down"}]
        /\ \A t \in Bash!Shells :
              /\ state'[t] = "unborn" <=> state[t] = "unborn"
              /\ state'[t] \in {"up", "signalled"} => state[t] \in {"up", "signalled"}
    BY <1>5, <2>1, SignalledIs
  <2>3. Bash!TypeOK'
    BY <1>1, <2>1, <2>2 DEF Bash!TypeOK
  <2>4. \A d \in Commands : HasShell(d)' <=> HasShell(d)
    BY <1>1, <2>1 DEF HasShell
  <2>5. CommandsQueue'
    BY <1>1, <2>1, <2>4 DEF CommandsQueue
  <2>6. Bash!ShellIsKnown' /\ ProcessIsShell'
    BY <2>1, <2>2, <2>4 DEF Bash!ShellIsKnown, ProcessIsShell
  <2>7. PipesAreOwn'
    <3>1. \A d \in Commands : bashAt'[d] # "reading"
      BY <1>1, <1>2, <2>1 DEF HasShell
    <3>2. HasShell(c)'
      BY <1>2, <2>4
    <3>3. QED
      BY <2>2, <3>1, <3>2 DEF PipesAreOwn
  <2>8. SeenIsOwn'
    BY <1>1, <1>3, <2>1 DEF SeenIsOwn
  <2>9. QED
    BY <2>3, <2>5, <2>6, <2>7, <2>8
<1>6. QED
  BY <1>4, <1>5

(* The end of a reset: whatever is the process by now is gone, with all      *)
(* that it has printed. *)
LEMMA DropIs ==
    ASSUME Bash!ShellAssumption, CommandInv, Bash!Drop
    PROVE  /\ process' = 0
           /\ state' \in [Bash!Shells -> {"unborn", "up", "signalled", "exited", "down"}]
           /\ input' \in [Bash!Shells -> Seq(Commands)] /\ child' \in [Bash!Shells -> BOOLEAN]
           /\ pipe' \in [Bash!Shells -> Seq(Items)]
           /\ \A t \in Bash!Shells : state'[t] \notin {"up", "signalled"}
           /\ \A t \in Bash!Shells : state'[t] = "unborn" => state[t] = "unborn"
           /\ \A t \in Bash!Shells : \/ input'[t] = <<>> /\ pipe'[t] = <<>>
                                     \/ input'[t] = input[t] /\ pipe'[t] = pipe[t]
<1>1. /\ process \in Bash!Shells \union {0} /\ 0 \notin Bash!Shells
      /\ state \in [Bash!Shells -> {"unborn", "up", "signalled", "exited", "down"}]
      /\ input \in [Bash!Shells -> Seq(Commands)] /\ child \in [Bash!Shells -> BOOLEAN]
      /\ pipe \in [Bash!Shells -> Seq(Items)]
      /\ Bash!ShellIsKnown
  BY CommandTypes DEF CommandInv
<1>2. CASE process = 0
  <2>1. process' = 0 /\ UNCHANGED <<state, input, child, pipe>>
    BY <1>2 DEF Bash!Drop, Bash!pipes
  <2>2. QED
    BY <1>1, <1>2, <2>1 DEF Bash!ShellIsKnown
<1>3. CASE process # 0
  <2>1. /\ process' = 0 /\ state' = [state EXCEPT ![process] = "down"]
        /\ input' = [input EXCEPT ![process] = <<>>]
        /\ child' = [child EXCEPT ![process] = FALSE]
        /\ pipe' = [pipe EXCEPT ![process] = <<>>]
    BY <1>3 DEF Bash!Drop, Bash!Closed
  <2>2. <<>> \in Seq(Commands) /\ <<>> \in Seq(Items) /\ FALSE \in BOOLEAN
    BY EmptySeq
  <2>3. input' \in [Bash!Shells -> Seq(Commands)] /\ pipe' \in [Bash!Shells -> Seq(Items)]
    BY <1>1, <2>1, <2>2
  <2>4. child' \in [Bash!Shells -> BOOLEAN]
    BY <1>1, <2>1, <2>2
  <2>5. /\ state' \in [Bash!Shells -> {"unborn", "up", "signalled", "exited", "down"}]
        /\ \A t \in Bash!Shells : state'[t] \notin {"up", "signalled"}
        /\ \A t \in Bash!Shells : state'[t] = "unborn" => state[t] = "unborn"
    BY <1>1, <2>1 DEF Bash!ShellIsKnown
  <2>6. \A t \in Bash!Shells : \/ input'[t] = <<>> /\ pipe'[t] = <<>>
                               \/ input'[t] = input[t] /\ pipe'[t] = pipe[t]
    <3>1. ASSUME NEW t \in Bash!Shells, t = process
          PROVE  input'[t] = <<>> /\ pipe'[t] = <<>>
      BY <1>1, <2>1, <3>1
    <3>2. ASSUME NEW t \in Bash!Shells, t # process
          PROVE  input'[t] = input[t] /\ pipe'[t] = pipe[t]
      BY <1>1, <2>1, <3>2
    <3>3. QED
      BY <3>1, <3>2
  <2>7. QED
    BY <2>1, <2>3, <2>4, <2>5, <2>6
<1>4. QED
  BY <1>2, <1>3

LEMMA DropKeeps ==
    ASSUME Bash!ShellAssumption, CommandInv, Bash!Drop, UNCHANGED shell,
           \A c \in Commands : HasShell(c)' => bashAt'[c] = bashAt[c]
    PROVE  Bash!ShellIsKnown' /\ ProcessIsShell' /\ PipesAreOwn'
<1> USE DEF CommandInv
<1>1. /\ process' = 0
      /\ \A t \in Bash!Shells : state'[t] \notin {"up", "signalled"}
      /\ \A t \in Bash!Shells : state'[t] = "unborn" => state[t] = "unborn"
      /\ \A t \in Bash!Shells : \/ input'[t] = <<>> /\ pipe'[t] = <<>>
                                \/ input'[t] = input[t] /\ pipe'[t] = pipe[t]
  BY DropIs
<1>2. Bash!ShellIsKnown'
  BY <1>1 DEF Bash!ShellIsKnown
<1>3. ProcessIsShell'
  BY <1>1 DEF ProcessIsShell, HasShell
<1>4. ASSUME NEW c \in Commands, bashAt'[c] = "reading"
      PROVE  PipeIsOf(shell[c], c)'
  <2>1. bashAt[c] = "reading" /\ shell[c] \in Bash!Shells /\ PipeIsOf(shell[c], c)
    BY <1>4 DEF HasShell, ProcessIsShell, PipesAreOwn
  <2>2. CASE input'[shell[c]] = <<>> /\ pipe'[shell[c]] = <<>>
    BY <2>2 DEF PipeIsOf
  <2>3. CASE input'[shell[c]] = input[shell[c]] /\ pipe'[shell[c]] = pipe[shell[c]]
    BY <2>1, <2>3 DEF PipeIsOf
  <2>4. QED
    BY <1>1, <2>1, <2>2, <2>3
<1>5. PipesAreOwn'
  BY <1>1, <1>4 DEF PipesAreOwn, Bash!Gone
<1>6. QED
  BY <1>2, <1>3, <1>5

LEMMA ResetOverIInv ==
    ASSUME Bash!ShellAssumption, CommandInv, NEW c \in Commands, Bash!ResetOver(c)
    PROVE  CommandInv'
<1> USE DEF CommandInv
<1>1. /\ bashAt[c] = "resetting" /\ Bash!Drop /\ Bash!Leave(c, output[c])
      /\ UNCHANGED <<shell, seen, cleanup, bashCancels>>
  BY DEF Bash!ResetOver
<1>2. /\ bashAt \in [Commands -> {"idle", "waiting", "reading", "resetting", "done"}]
      /\ output \in [Commands -> {"none", "output", "died", "deadline", "cancelled"}]
  BY CommandTypes
<1>3. /\ bashQueue' \in Seq(Commands) /\ IsInjective(bashQueue')
      /\ bashAt' = [bashAt EXCEPT ![c] = "done"] /\ output' = [output EXCEPT ![c] = output[c]]
      /\ bashAt' \in [Commands -> {"idle", "waiting", "reading", "resetting", "done"}]
      /\ output' \in [Commands -> {"none", "output", "died", "deadline", "cancelled"}]
      /\ CommandsQueue'
  BY <1>1, <1>2, LeaveCommand
<1>4. Bash!TypeOK'
  BY <1>1, <1>3, DropIs DEF Bash!TypeOK, Items, Bash!IsInjective, IsInjective
<1>5. Bash!ShellIsKnown' /\ ProcessIsShell' /\ PipesAreOwn'
  BY <1>1, <1>2, <1>3, DropKeeps DEF HasShell
<1>6. SeenIsOwn'
  BY <1>1, <1>2, <1>3 DEF SeenIsOwn
<1>7. QED
  BY <1>3, <1>4, <1>5, <1>6

(* A cancellation ends a wait at once, and else resets the shell. *)
LEMMA BashCancelIInv ==
    ASSUME Bash!ShellAssumption, CommandInv, NEW c \in Commands, Bash!Cancel(c)
    PROVE  CommandInv'
<1> USE DEF CommandInv
<1>1. /\ bashCancels' \in 0 .. MaxCancels
      /\ UNCHANGED <<input, child, pipe, shell, seen, cleanup>>
  BY CommandTypes DEF Bash!Cancel, Bash!pipes
<1>2. CASE bashAt[c] = "reading" /\ Bash!Reset(c, "cancelled")
  BY <1>1, <1>2, ResetIInv
<1>3. CASE bashAt[c] = "waiting" /\ Bash!Leave(c, "cancelled") /\ UNCHANGED <<process, state>>
  <2>1. /\ bashAt \in [Commands -> {"idle", "waiting", "reading", "resetting", "done"}]
        /\ output \in [Commands -> {"none", "output", "died", "deadline", "cancelled"}]
    BY CommandTypes
  <2>2. /\ bashQueue' \in Seq(Commands) /\ IsInjective(bashQueue')
        /\ bashAt' = [bashAt EXCEPT ![c] = "done"]
        /\ output' = [output EXCEPT ![c] = "cancelled"]
        /\ bashAt' \in [Commands -> {"idle", "waiting", "reading", "resetting", "done"}]
        /\ output' \in [Commands -> {"none", "output", "died", "deadline", "cancelled"}]
        /\ CommandsQueue'
    BY <1>3, LeaveCommand
  <2>3. Bash!TypeOK'
    BY <1>1, <1>3, <2>2 DEF Bash!TypeOK, Bash!IsInjective, IsInjective
  <2>4. \A d \in Commands : HasShell(d)' <=> HasShell(d)
    BY <1>3, <2>1, <2>2 DEF HasShell
  <2>5. \A d \in Commands : bashAt'[d] = "reading" <=> bashAt[d] = "reading"
    BY <1>3, <2>1, <2>2
  <2>6. Bash!ShellIsKnown' /\ ProcessIsShell' /\ PipesAreOwn'
    BY <1>1, <1>3, <2>4, <2>5
       DEF Bash!ShellIsKnown, ProcessIsShell, PipesAreOwn, PipeIsOf, Bash!Gone
  <2>7. SeenIsOwn'
    BY <1>1, <2>1, <2>2 DEF SeenIsOwn
  <2>8. QED
    BY <2>2, <2>3, <2>6, <2>7
<1>4. QED
  BY <1>2, <1>3 DEF Bash!Cancel

(* cleanup, which takes no lock. *)
LEMMA CleanIInv ==
    ASSUME Bash!ShellAssumption, CommandInv, Bash!CleanUp \/ Bash!CleanedUp
    PROVE  CommandInv'
<1> USE DEF CommandInv
<1>1. UNCHANGED <<bashQueue, bashAt, shell, seen, output, bashCancels>>
      /\ cleanup' \in {"no", "waiting", "over"}
  BY DEF Bash!CleanUp, Bash!CleanedUp
<1>2. /\ process \in Bash!Shells \union {0} /\ 0 \notin Bash!Shells
      /\ state \in [Bash!Shells -> {"unborn", "up", "signalled", "exited", "down"}]
  BY CommandTypes
<1>3. CommandsQueue' /\ SeenIsOwn'
  BY <1>1 DEF CommandsQueue, SeenIsOwn, HasShell
<1>4. CASE Bash!CleanedUp
  <2>1. Bash!Drop
    BY <1>4 DEF Bash!CleanedUp
  <2>2. Bash!TypeOK'
    BY <1>1, <2>1, DropIs DEF Bash!TypeOK, Items
  <2>3. Bash!ShellIsKnown' /\ ProcessIsShell' /\ PipesAreOwn'
    BY <1>1, <2>1, DropKeeps
  <2>4. QED
    BY <1>3, <2>2, <2>3
<1>5. CASE Bash!CleanUp /\ Bash!Gone
  <2>1. process' = 0 /\ UNCHANGED <<state, input, child, pipe>>
    BY <1>5 DEF Bash!CleanUp, Bash!pipes
  <2>2. Bash!TypeOK'
    BY <1>1, <2>1 DEF Bash!TypeOK
  <2>3. Bash!ShellIsKnown' /\ ProcessIsShell'
    BY <1>1, <1>2, <1>5, <2>1 DEF Bash!ShellIsKnown, ProcessIsShell, HasShell, Bash!Gone
  <2>4. PipesAreOwn'
    BY <1>1, <2>1 DEF PipesAreOwn, PipeIsOf, HasShell, Bash!Gone
  <2>5. QED
    BY <1>3, <2>2, <2>3, <2>4
<1>6. CASE Bash!CleanUp /\ ~Bash!Gone
  <2>1. state' = Bash!Signalled /\ UNCHANGED <<process, input, child, pipe>>
    BY <1>6 DEF Bash!CleanUp, Bash!pipes
  <2>2. /\ process \in Bash!Shells /\ state[process] # "down"
        /\ state' \in [Bash!Shells -> {"unborn", "up", "signalled", "exited", "down"}]
        /\ \A t \in Bash!Shells :
              /\ state'[t] = "unborn" <=> state[t] = "unborn"
              /\ state'[t] \in {"up", "signalled"} => state[t] \in {"up", "signalled"}
              /\ state'[t] = "down" <=> state[t] = "down"
    BY <1>6, <2>1, SignalledIs
  <2>3. Bash!TypeOK'
    BY <1>1, <2>1, <2>2 DEF Bash!TypeOK
  <2>4. Bash!ShellIsKnown' /\ ProcessIsShell'
    BY <1>1, <2>1, <2>2 DEF Bash!ShellIsKnown, ProcessIsShell, HasShell
  <2>5. PipesAreOwn'
    BY <1>1, <1>6, <2>1, <2>2 DEF PipesAreOwn, PipeIsOf, HasShell
  <2>6. QED
    BY <1>3, <2>3, <2>4, <2>5
<1>7. QED
  BY <1>4, <1>5, <1>6

LEMMA CommandNextIInv ==
    ASSUME Bash!ShellAssumption, CommandInv, [Bash!Next]_(Bash!vars)
    PROVE  CommandInv'
<1>1. ASSUME NEW c \in Commands, Bash!Eof(c) \/ Bash!TimeOut(c)
      PROVE  CommandInv'
  <2>1. PICK how \in {"died", "deadline", "cancelled"} : bashAt[c] = "reading" /\ Bash!Reset(c, how)
    BY <1>1 DEF Bash!Eof, Bash!TimeOut
  <2>2. UNCHANGED <<input, child, pipe, shell, seen, cleanup>> /\ bashCancels' \in 0 .. MaxCancels
    BY <1>1, CommandTypes DEF Bash!Eof, Bash!TimeOut, Bash!pipes
  <2>3. QED
    BY <2>1, <2>2, ResetIInv
<1>2. CASE UNCHANGED Bash!vars
  <2>1. UNCHANGED <<bashQueue, process, state, input, child, pipe, bashAt, shell, seen, output,
                    cleanup, bashCancels>>
    BY <1>2 DEF Bash!vars
  <2>2. Bash!TypeOK' /\ Bash!ShellIsKnown'
    BY <2>1 DEF CommandInv, Bash!TypeOK, Bash!ShellIsKnown
  <2>3. CommandsQueue' /\ ProcessIsShell' /\ PipesAreOwn' /\ SeenIsOwn'
    BY <2>1 DEF CommandInv, CommandsQueue, ProcessIsShell, PipesAreOwn, PipeIsOf, SeenIsOwn, HasShell,
                Bash!Gone
  <2>4. QED
    BY <2>2, <2>3 DEF CommandInv
<1>3. QED
  BY <1>1, <1>2, ShellsStep, AskIInv, BashBeginIInv, BashReadIInv, ResetOverIInv, BashCancelIInv,
     CleanIInv, Zenon DEF Bash!Next

LEMMA CommandsAreSafeInv ==
    ASSUME CommandInv
    PROVE  CommandsAreSafe
  BY DEF CommandInv, CommandsAreSafe, SeenIsOwn, Bash!OwnOutput

-----------------------------------------------------------------------------
(* The client of an MCP server.                                            *)

RequestInv ==
    /\ Mcp!TypeOK /\ Mcp!AnswerIsOwn
    /\ \A r \in Requests : at[r] \in {"waiting", "reading"} <=> Contains(rpcQueue, r)
    /\ \A r \in Requests : at[r] # "done" => read[r] < MaxLines
    /\ \A i \in 1 .. Len(lines) : lines[i].is = "other" => lines[i].of = NoRequest

LEMMA RequestTypes ==
    ASSUME Mcp!McpAssumption, Mcp!TypeOK
    PROVE  /\ MaxLines \in Nat \ {0} /\ MaxNoise \in Nat /\ MaxRequestCancels \in Nat
           /\ NoRequest \notin Requests
           /\ rpcQueue \in Seq(Requests) /\ IsInjective(rpcQueue)
           /\ server \in {"up", "down"} /\ asked \subseteq Requests
           /\ lines \in Seq([of : Requests \union {NoRequest}, is : {"output", "error", "other"}])
           /\ at \in [Requests -> {"idle", "waiting", "reading", "done"}]
           /\ read \in [Requests -> 0 .. MaxLines]
           /\ answer \in [Requests -> [is : {"none", "output", "error", "nothing", "cancelled"},
                                       of : Requests \union {NoRequest}]]
           /\ noise \in 0 .. MaxNoise /\ cancels \in 0 .. MaxRequestCancels
  BY DEF Mcp!McpAssumption, Mcp!TypeOK, Mcp!IsInjective, IsInjective

(* The request leaves the lock, with its answer if it has one. *)
LEMMA LeaveRequest ==
    ASSUME Mcp!McpAssumption, RequestInv, NEW r \in Requests,
           NEW is \in {"output", "error", "nothing", "cancelled"},
           NEW of \in Requests \union {NoRequest},
           is \in {"output", "error"} => of = r,
           Mcp!Leave(r, is, of)
    PROVE  /\ rpcQueue' \in Seq(Requests) /\ Mcp!IsInjective(rpcQueue')
           /\ at' \in [Requests -> {"idle", "waiting", "reading", "done"}]
           /\ answer' \in [Requests -> [is : {"none", "output", "error", "nothing", "cancelled"},
                                        of : Requests \union {NoRequest}]]
           /\ Mcp!AnswerIsOwn'
           /\ \A q \in Requests : at'[q] \in {"waiting", "reading"} <=> Contains(rpcQueue', q)
           /\ \A q \in Requests : at'[q] # "done" => q # r /\ at[q] # "done"
<1>0. Mcp!TypeOK /\ Mcp!AnswerIsOwn
      /\ \A q \in Requests : at[q] \in {"waiting", "reading"} <=> Contains(rpcQueue, q)
  BY DEF RequestInv
<1>1. /\ rpcQueue \in Seq(Requests) /\ IsInjective(rpcQueue)
      /\ at \in [Requests -> {"idle", "waiting", "reading", "done"}]
      /\ answer \in [Requests -> [is : {"none", "output", "error", "nothing", "cancelled"},
                                  of : Requests \union {NoRequest}]]
  BY <1>0, RequestTypes
<1>2. PICK i \in 1 .. Len(rpcQueue) : rpcQueue[i] = r /\ rpcQueue' = RemoveAt(rpcQueue, i)
  <2>1. DOMAIN rpcQueue = 1 .. Len(rpcQueue)
    BY <1>1
  <2>2. \E i \in DOMAIN rpcQueue : rpcQueue[i] = r /\ rpcQueue' = RemoveAt(rpcQueue, i)
    BY Zenon DEF Mcp!Leave, Mcp!RemoveAt, RemoveAt
  <2>3. QED
    BY <2>1, <2>2
<1>3. /\ at' = [at EXCEPT ![r] = "done"]
      /\ answer' = [answer EXCEPT ![r] = [is |-> is, of |-> of]]
  BY DEF Mcp!Leave
<1>4. /\ rpcQueue' \in Seq(Requests) /\ IsInjective(rpcQueue')
      /\ \A e : Contains(rpcQueue', e) <=> Contains(rpcQueue, e) /\ e # r
  BY <1>1, <1>2, RemoveAtQueue
<1>5. Mcp!IsInjective(rpcQueue')
  BY <1>4 DEF Mcp!IsInjective, IsInjective
<1>6. Mcp!AnswerIsOwn'
  BY <1>0, <1>1, <1>3 DEF Mcp!AnswerIsOwn
<1>7. QED
  BY <1>0, <1>1, <1>3, <1>4, <1>5, <1>6

(* What the server says is at the end of the lines. *)
LEMMA LineRequest ==
    ASSUME Mcp!McpAssumption, RequestInv,
           NEW of \in Requests \union {NoRequest}, NEW is \in {"output", "error", "other"},
           is = "other" => of = NoRequest,
           Mcp!Line(of, is)
    PROVE  /\ lines' \in Seq([of : Requests \union {NoRequest}, is : {"output", "error", "other"}])
           /\ \A i \in 1 .. Len(lines') : lines'[i].is = "other" => lines'[i].of = NoRequest
<1>1. lines \in Seq([of : Requests \union {NoRequest}, is : {"output", "error", "other"}])
      /\ \A i \in 1 .. Len(lines) : lines[i].is = "other" => lines[i].of = NoRequest
  BY RequestTypes DEF RequestInv
<1>2. lines' = Append(lines, [of |-> of, is |-> is])
  BY DEF Mcp!Line
<1>3. QED
  BY <1>1, <1>2

LEMMA RequestInitIInv ==
    ASSUME Mcp!McpAssumption, Mcp!Init
    PROVE  RequestInv
<1>1. rpcQueue \in Seq(Requests) /\ IsInjective(rpcQueue) /\ \A e : ~Contains(rpcQueue, e)
  BY EmptyQueue DEF Mcp!Init
<1>2. Mcp!TypeOK
  BY <1>1 DEF Mcp!TypeOK, Mcp!Init, Mcp!McpAssumption, Mcp!IsInjective, IsInjective
<1>3. QED
  BY <1>1, <1>2 DEF RequestInv, Mcp!Init, Mcp!AnswerIsOwn, Mcp!McpAssumption

LEMMA RequestNextIInv ==
    ASSUME Mcp!McpAssumption, RequestInv, [Mcp!Next]_(Mcp!vars)
    PROVE  RequestInv'
<1>0. /\ Mcp!TypeOK /\ Mcp!AnswerIsOwn
      /\ \A r \in Requests : at[r] \in {"waiting", "reading"} <=> Contains(rpcQueue, r)
      /\ \A r \in Requests : at[r] # "done" => read[r] < MaxLines
      /\ \A i \in 1 .. Len(lines) : lines[i].is = "other" => lines[i].of = NoRequest
  BY DEF RequestInv
<1>1. /\ MaxLines \in Nat \ {0} /\ MaxNoise \in Nat /\ MaxRequestCancels \in Nat
      /\ NoRequest \notin Requests
      /\ rpcQueue \in Seq(Requests) /\ IsInjective(rpcQueue)
      /\ server \in {"up", "down"} /\ asked \subseteq Requests
      /\ lines \in Seq([of : Requests \union {NoRequest}, is : {"output", "error", "other"}])
      /\ at \in [Requests -> {"idle", "waiting", "reading", "done"}]
      /\ read \in [Requests -> 0 .. MaxLines]
      /\ noise \in 0 .. MaxNoise /\ cancels \in 0 .. MaxRequestCancels
  BY <1>0, RequestTypes
<1>2. ASSUME Mcp!Say
      PROVE  RequestInv'
  <2>1. /\ lines' \in Seq([of : Requests \union {NoRequest}, is : {"output", "error", "other"}])
        /\ \A i \in 1 .. Len(lines') : lines'[i].is = "other" => lines'[i].of = NoRequest
    BY <1>2, LineRequest DEF Mcp!Say
  <2>2. UNCHANGED <<rpcQueue, server, asked, at, read, answer, cancels>> /\ noise' \in 0 .. MaxNoise
    BY <1>1, <1>2 DEF Mcp!Say
  <2>3. QED
    BY <1>0, <2>1, <2>2 DEF RequestInv, Mcp!TypeOK, Mcp!AnswerIsOwn
<1>3. ASSUME Mcp!Die
      PROVE  RequestInv'
  BY <1>0, <1>3 DEF RequestInv, Mcp!Die, Mcp!TypeOK, Mcp!AnswerIsOwn
<1>4. ASSUME NEW r \in Requests, Mcp!Reply(r)
      PROVE  RequestInv'
  <2>1. /\ lines' \in Seq([of : Requests \union {NoRequest}, is : {"output", "error", "other"}])
        /\ \A i \in 1 .. Len(lines') : lines'[i].is = "other" => lines'[i].of = NoRequest
    BY <1>4, LineRequest DEF Mcp!Reply
  <2>2. UNCHANGED <<rpcQueue, server, at, read, answer, noise, cancels>> /\ asked' \subseteq Requests
    BY <1>1, <1>4 DEF Mcp!Reply
  <2>3. QED
    BY <1>0, <2>1, <2>2 DEF RequestInv, Mcp!TypeOK, Mcp!AnswerIsOwn
<1>5. ASSUME NEW r \in Requests, Mcp!Ask(r)
      PROVE  RequestInv'
  <2>1. /\ at[r] = "idle" /\ rpcQueue' = Append(rpcQueue, r)
        /\ at' = [at EXCEPT ![r] = "waiting"]
        /\ UNCHANGED <<server, asked, lines, read, answer, noise, cancels>>
    BY <1>5 DEF Mcp!Ask
  <2>2. ~Contains(rpcQueue, r)
    BY <1>0, <2>1
  <2>3. /\ rpcQueue' \in Seq(Requests) /\ IsInjective(rpcQueue')
        /\ \A e : Contains(rpcQueue', e) <=> Contains(rpcQueue, e) \/ e = r
    BY <1>1, <2>1, <2>2, AppendQueue
  <2>4. \A q \in Requests : at'[q] \in {"waiting", "reading"} <=> Contains(rpcQueue', q)
    BY <1>0, <1>1, <2>1, <2>3
  <2>5. Mcp!TypeOK'
    BY <1>0, <1>1, <2>1, <2>3 DEF Mcp!TypeOK, Mcp!IsInjective, IsInjective
  <2>6. QED
    BY <1>0, <1>1, <2>1, <2>4, <2>5 DEF RequestInv, Mcp!AnswerIsOwn
<1>6. ASSUME NEW r \in Requests, Mcp!Send(r)
      PROVE  RequestInv'
  <2>1. at[r] = "waiting" /\ UNCHANGED <<server, lines, read, noise, cancels>>
    BY <1>6 DEF Mcp!Send
  <2>2. CASE /\ asked' = IF server = "up" THEN asked \union {r} ELSE asked
             /\ at' = [at EXCEPT ![r] = "reading"]
             /\ UNCHANGED <<rpcQueue, answer>>
    <3>1. Mcp!TypeOK'
      BY <1>0, <1>1, <2>1, <2>2 DEF Mcp!TypeOK
    <3>2. QED
      BY <1>0, <1>1, <2>1, <2>2, <3>1 DEF RequestInv, Mcp!AnswerIsOwn
  <2>3. CASE Mcp!Leave(r, "error", r) /\ UNCHANGED asked
    <3>1. UNCHANGED <<server, asked, lines, read, noise, cancels>>
      BY <2>1, <2>3
    <3>2. QED
      BY <1>0, <2>3, <3>1, LeaveRequest DEF RequestInv, Mcp!TypeOK
  <2>4. QED
    BY <1>6, <2>2, <2>3 DEF Mcp!Send
<1>7. ASSUME NEW r \in Requests, Mcp!Read(r)
      PROVE  RequestInv'
  <2>1. /\ at[r] = "reading" /\ lines # <<>> /\ lines' = Tail(lines)
        /\ read' = [read EXCEPT ![r] = @ + 1]
        /\ UNCHANGED <<server, asked, noise, cancels>>
    BY <1>7 DEF Mcp!Read
  <2>2. /\ lines' \in Seq([of : Requests \union {NoRequest}, is : {"output", "error", "other"}])
        /\ \A i \in 1 .. Len(lines') : lines'[i].is = "other" => lines'[i].of = NoRequest
        /\ lines[1] \in [of : Requests \union {NoRequest}, is : {"output", "error", "other"}]
        /\ lines[1].is = "other" => lines[1].of = NoRequest
    <3>1. /\ Len(lines) \in Nat \ {0} /\ Len(lines') = Len(lines) - 1
          /\ \A i \in 1 .. Len(lines') : lines'[i] = lines[i + 1]
          /\ lines' \in Seq([of : Requests \union {NoRequest}, is : {"output", "error", "other"}])
      BY <1>1, <2>1, HeadTailProperties, EmptySeq
    <3>2. 1 \in 1 .. Len(lines) /\ \A i \in 1 .. Len(lines') : i + 1 \in 1 .. Len(lines)
      BY <3>1
    <3>3. lines[1] \in [of : Requests \union {NoRequest}, is : {"output", "error", "other"}]
      BY <1>1, <3>2, ElementOfSeq
    <3>4. QED
      BY <1>0, <3>1, <3>2, <3>3
  <2>3. read'[r] = read[r] + 1 /\ read[r] < MaxLines /\ read[r] \in Nat
        /\ read' \in [Requests -> 0 .. MaxLines] /\ \A q \in Requests : q # r => read'[q] = read[q]
    BY <1>0, <1>1, <2>1
  <2>4. ASSUME NEW is \in {"output", "error", "nothing", "cancelled"},
               NEW of \in Requests \union {NoRequest},
               is \in {"output", "error"} => of = r,
               Mcp!Leave(r, is, of)
        PROVE  RequestInv'
    <3>1. /\ rpcQueue' \in Seq(Requests) /\ Mcp!IsInjective(rpcQueue')
          /\ at' \in [Requests -> {"idle", "waiting", "reading", "done"}]
          /\ answer' \in [Requests -> [is : {"none", "output", "error", "nothing", "cancelled"},
                                       of : Requests \union {NoRequest}]]
          /\ Mcp!AnswerIsOwn'
          /\ \A q \in Requests : at'[q] \in {"waiting", "reading"} <=> Contains(rpcQueue', q)
          /\ \A q \in Requests : at'[q] # "done" => q # r /\ at[q] # "done"
      BY <2>4, LeaveRequest
    <3>2. Mcp!TypeOK'
      BY <1>1, <2>1, <2>2, <2>3, <3>1 DEF Mcp!TypeOK
    <3>3. QED
      BY <1>0, <2>2, <2>3, <3>1, <3>2 DEF RequestInv
  <2>5. CASE lines[1].of = r
    <3>1. Mcp!Leave(r, lines[1].is, r) /\ lines[1].is \in {"output", "error"}
      BY <1>1, <1>7, <2>2, <2>5 DEF Mcp!Read
    <3>2. QED
      BY <2>4, <3>1
  <2>6. CASE lines[1].of # r /\ read'[r] = MaxLines
    BY <1>7, <2>4, <2>6 DEF Mcp!Read
  <2>7. CASE lines[1].of # r /\ read'[r] # MaxLines
    <3>1. UNCHANGED <<rpcQueue, answer, at>>
      BY <1>7, <2>7 DEF Mcp!Read
    <3>2. Mcp!TypeOK'
      BY <1>0, <2>1, <2>2, <2>3, <3>1 DEF Mcp!TypeOK
    <3>3. \A q \in Requests : at'[q] # "done" => read'[q] < MaxLines
      BY <1>0, <1>1, <2>3, <2>7, <3>1
    <3>4. QED
      BY <1>0, <2>2, <3>1, <3>2, <3>3 DEF RequestInv, Mcp!AnswerIsOwn
  <2>8. QED
    BY <2>5, <2>6, <2>7
<1>8. ASSUME NEW r \in Requests, Mcp!GiveUp(r) \/ Mcp!Cancel(r)
      PROVE  RequestInv'
  <2>1. PICK is \in {"nothing", "cancelled"} : Mcp!Leave(r, is, NoRequest)
    BY <1>8 DEF Mcp!GiveUp, Mcp!Cancel
  <2>2. UNCHANGED <<server, asked, lines, read, noise>> /\ cancels' \in 0 .. MaxRequestCancels
    BY <1>1, <1>8 DEF Mcp!GiveUp, Mcp!Cancel
  <2>3. /\ rpcQueue' \in Seq(Requests) /\ Mcp!IsInjective(rpcQueue')
        /\ at' \in [Requests -> {"idle", "waiting", "reading", "done"}]
        /\ answer' \in [Requests -> [is : {"none", "output", "error", "nothing", "cancelled"},
                                     of : Requests \union {NoRequest}]]
        /\ Mcp!AnswerIsOwn'
        /\ \A q \in Requests : at'[q] \in {"waiting", "reading"} <=> Contains(rpcQueue', q)
        /\ \A q \in Requests : at'[q] # "done" => q # r /\ at[q] # "done"
    BY <2>1, LeaveRequest
  <2>4. QED
    BY <1>0, <2>2, <2>3 DEF RequestInv, Mcp!TypeOK
<1>9. CASE UNCHANGED Mcp!vars
  BY <1>0, <1>9 DEF RequestInv, Mcp!vars, Mcp!TypeOK, Mcp!AnswerIsOwn
<1>10. QED
  BY <1>2, <1>3, <1>4, <1>5, <1>6, <1>7, <1>8, <1>9 DEF Mcp!Next

-----------------------------------------------------------------------------
(* All of them in one state.                                               *)

LEMMA ToolsParts == Async!AsyncAssumption /\ Bash!ShellAssumption /\ Mcp!McpAssumption
  BY ToolsAssumption

(* A step of the whole is a step of each part, or leaves it as it is. *)
LEMMA ToolsSteps ==
    ASSUME [ToolsNext]_toolVars
    PROVE  /\ [Next]_vars /\ [Async!Next]_(Async!vars)
           /\ [Bash!Next]_(Bash!vars) /\ [Mcp!Next]_(Mcp!vars)
<1>1. UNCHANGED async => UNCHANGED Async!vars
  BY DEF async, Async!vars, Async!lockVars
<1>2. UNCHANGED bash => UNCHANGED Bash!vars
  BY DEF bash, Bash!vars
<1>3. UNCHANGED mcp => UNCHANGED Mcp!vars
  BY DEF mcp, Mcp!vars
<1>4. CASE ToolsNext
  BY <1>1, <1>2, <1>3, <1>4, Zenon DEF ToolsNext
<1>5. CASE UNCHANGED toolVars
  <2>1. UNCHANGED vars /\ UNCHANGED async /\ UNCHANGED bash /\ UNCHANGED mcp
    BY <1>5 DEF toolVars
  <2>2. QED
    BY <1>1, <1>2, <1>3, <2>1
<1>6. QED
  BY <1>4, <1>5

(* Conflicting calls of AsyncParallelToolExecutor never run at once, and     *)
(* what was locked for reading is free when all calls have answered: for any *)
(* number of calls, declarations, timeouts, threads and attempts, although   *)
(* the thread that releases a lock is seldom the one that has acquired it.   *)
THEOREM TheTasksAreSafe == ToolsSpec => []TasksAreSafe
<1>1. ToolsInit => TaskInv
  BY ToolsParts, TaskInitIInv DEF ToolsInit
<1>2. TaskInv /\ [ToolsNext]_toolVars => TaskInv'
  BY ToolsParts, ToolsSteps, TaskNextIInv
<1>3. TaskInv => TasksAreSafe
  BY ToolsParts, TasksAreSafeInv
<1>4. QED
  BY <1>1, <1>2, <1>3, PTL DEF ToolsSpec

(* What the bash tool returns as the output of a command was printed by that *)
(* command, and the one shell that runs is the one it knows: for any number  *)
(* of commands and shells, whichever of them hang, die or run into their     *)
(* timeout.                                                                *)
THEOREM TheCommandsAreSafe == ToolsSpec => []CommandsAreSafe
<1>1. ToolsInit => CommandInv
  BY ToolsParts, CommandInitIInv DEF ToolsInit
<1>2. CommandInv /\ [ToolsNext]_toolVars => CommandInv'
  BY ToolsParts, ToolsSteps, CommandNextIInv
<1>3. CommandInv => CommandsAreSafe
  BY CommandsAreSafeInv
<1>4. QED
  BY <1>1, <1>2, <1>3, PTL DEF ToolsSpec

(* The answer that a request to an MCP server gets is its own, whatever else *)
(* the server says, however late it answers and whoever stops waiting.      *)
THEOREM TheRequestsAreSafe == ToolsSpec => []RequestsAreSafe
<1>1. ToolsInit => RequestInv
  BY ToolsParts, RequestInitIInv DEF ToolsInit
<1>2. RequestInv /\ [ToolsNext]_toolVars => RequestInv'
  BY ToolsParts, ToolsSteps, RequestNextIInv
<1>3. RequestInv => RequestsAreSafe
  BY DEF RequestInv, RequestsAreSafe
<1>4. QED
  BY <1>1, <1>2, <1>3, PTL DEF ToolsSpec

(* All of these together: what the run of the executor checks on its small   *)
(* instance.                                                               *)
THEOREM TheToolsAreSafe == ToolsSpec => []ToolsAreSafe
<1>1. ToolsAreSafe <=> TasksAreSafe /\ CommandsAreSafe /\ RequestsAreSafe
  BY DEF ToolsAreSafe
<1>2. QED
  BY <1>1, TheTasksAreSafe, TheCommandsAreSafe, TheRequestsAreSafe, PTL
=============================================================================
