---------------------------- MODULE TaskDag_proofs ----------------------------
(***************************************************************************)
(* Proofs about TaskDag, for every plan, every number of nodes, retries,   *)
(* crashes and calls of the agent.                                         *)
(*                                                                         *)
(* The heart is Outranked: in a graph in which dependencies look back, a   *)
(* node unblocks strictly more nodes than a node that depends on it.  The  *)
(* inductive invariant adds to the safety properties what the planner has  *)
(* written when it dies (Drafted) and that an agent that gives nothing up  *)
(* leaves no node failed, skipped or blocked (Clean).                      *)
(***************************************************************************)
EXTENDS TaskDag, FiniteSetTheorems, TLAPS

Drafted ==
    /\ phase = "adding" => Existing = 1 .. at - 1
    /\ phase = "wiring" => Existing = 1 .. Planned
    /\ phase \in {"adding", "wiring"} => \A n \in Existing : rows[n].status = "ready"

Clean ==
    strays = 0 => \A n \in Existing :
        rows[n].status \in {"pending", "ready", "active", "completed", "retryable"}

Inv == TypeOK /\ Drafted /\ Clean /\ FinishedInOrder /\ NoFakeProgress

LEMMA NodesAreNumbers == Nodes \subseteq Nat \ {0} /\ IsFiniteSet(Nodes)
  <1> Cardinality(Nodes) \in Nat  BY FS_CardinalityType, PlanAssumption DEF PlanAssumption
  <1> QED  BY PlanAssumption DEF PlanAssumption

\* A node unblocks more nodes than one that depends on it.
LEMMA Outranked ==
  ASSUME TypeOK, NEW n \in Existing, NEW d \in Existing, d \in rows[n].deps
  PROVE  UnlockValue(d) > UnlockValue(n)
  <1>1. Dependents(n) \subseteq Dependents(d)
    <2> SUFFICES ASSUME NEW m \in Dependents(n), NEW S \in SUBSET Existing,
                        \A k \in Existing : rows[k].deps \intersect (S \union {d}) # {} => k \in S
                 PROVE  m \in S
      BY DEF Dependents
    <2>1. n \in S  OBVIOUS
    <2>2. \A k \in Existing : rows[k].deps \intersect (S \union {n}) # {} => k \in S  BY <2>1
    <2> QED  BY <2>2 DEF Dependents
  <1>2. n \in Dependents(d)  BY DEF Dependents
  <1>3. n \notin Dependents(n)
    <2> DEFINE S == {k \in Existing : k > n}
    <2>1. ASSUME NEW k \in Existing, rows[k].deps \intersect (S \union {n}) # {}
          PROVE  k \in S
      <3>1. PICK x \in rows[k].deps : x \in S \union {n}  BY <2>1
      <3>2. x \in Nodes /\ x >= n  BY <3>1, NodesAreNumbers DEF Existing
      <3>3. x # Ghost  BY <3>2, PlanAssumption DEF PlanAssumption
      <3>4. x < k  BY <3>1, <3>3 DEF TypeOK
      <3> QED  BY <3>2, <3>4, NodesAreNumbers DEF Existing
    <2>2. n \notin S
      <3>1. n \in Nat  BY NodesAreNumbers DEF Existing
      <3>2. ~(n > n)  BY <3>1
      <3> QED  BY <3>2
    <2> QED  BY <2>1, <2>2 DEF Dependents
  <1>4. IsFiniteSet(Dependents(d))
    BY FS_Subset, NodesAreNumbers DEF Dependents, Existing
  <1> HIDE DEF Dependents
  <1>5. /\ IsFiniteSet(Dependents(n))
        /\ Cardinality(Dependents(n)) <= Cardinality(Dependents(d))
        /\ Cardinality(Dependents(n)) # Cardinality(Dependents(d))
    BY <1>1, <1>2, <1>3, <1>4, FS_Subset
  <1>6. Cardinality(Dependents(n)) \in Nat /\ Cardinality(Dependents(d)) \in Nat
    BY <1>4, <1>5, FS_CardinalityType
  <1> QED  BY <1>5, <1>6 DEF UnlockValue

\* The invariant implies that the next node can be worked on.
LEMMA NextWorkable == Inv => NextIsWorkable
  <1> SUFFICES ASSUME Inv, strays = 0, NEW n \in Nodes, IsNext(n),
                      NEW d \in rows[n].deps \intersect Existing, rows[d].status # "completed"
               PROVE  FALSE
    BY DEF NextIsWorkable, Done
  <1> USE DEF Inv
  <1>1. n \in Existing  BY DEF IsNext, Candidates
  <1>2. d # n
    <2>1. d # Ghost /\ d < n  BY <1>1, PlanAssumption DEF TypeOK, Existing, PlanAssumption
    <2> QED  BY <2>1, NodesAreNumbers
  <1>3. rows[d].status \in {"pending", "ready", "active", "retryable"}  BY DEF Clean
  <1>4. d \in Candidates
    <2>1. \A k \in Nodes \union {Ghost} : ~Is(k, {"failed", "skipped"})  BY DEF Clean, Is
    <2>2. rows[d].deps \subseteq Nodes \union {Ghost}  BY DEF TypeOK, Existing, Row
    <2>3. ~ \E k \in rows[d].deps : Is(k, {"failed", "skipped"})  BY <2>1, <2>2
    <2> QED  BY <1>3, <2>3 DEF Candidates, Resolved, Recomputed
  <1>5. rows[n].status # "active"  BY <1>1 DEF FinishedInOrder, Done
  <1>6. Precedes(n, d)  BY <1>2, <1>4 DEF IsNext
  <1>7. UnlockValue(d) > UnlockValue(n)  BY <1>1, Outranked
  <1>8. UnlockValue(n) \in Nat /\ UnlockValue(d) \in Nat
    BY FS_Subset, FS_CardinalityType, NodesAreNumbers DEF UnlockValue, Dependents, Existing
  <1> HIDE DEF UnlockValue
  <1> QED  BY <1>5, <1>6, <1>7, <1>8 DEF Precedes

\* What a write of one row does to the graph.
LEMMA WriteRow ==
  ASSUME TypeOK, NEW n \in Nodes, NEW row \in Row, Write(n, row)
  PROVE  /\ rows' \in [Nodes -> Row \union {None}]
         /\ \A k \in Nodes : rows'[k] = IF k = n THEN row ELSE rows[k]
         /\ Existing' = Existing \union {n}
  <1>1. rows' \in [Nodes -> Row \union {None}]  BY DEF TypeOK, Write
  <1>2. \A k \in Nodes : rows'[k] = IF k = n THEN row ELSE rows[k]  BY DEF TypeOK, Write
  <1>3. row # None  BY RowAssumption
  <1> QED  BY <1>1, <1>2, <1>3 DEF Existing

\* Dependencies look back in a written row, too.
LEMMA WriteBack ==
  ASSUME TypeOK, NEW n \in Nodes, NEW row \in Row, Write(n, row), 1 .. n - 1 \subseteq Existing,
         \A d \in row.deps \ {Ghost} : d < n
  PROVE  /\ \A k \in Existing' : 1 .. k - 1 \subseteq Existing'
         /\ \A k \in Existing' : \A d \in rows'[k].deps \ {Ghost} : d < k
  BY WriteRow DEF TypeOK, Existing

Reported == {"active", "completed", "retryable", "failed", "skipped"}

Suggestion == strays' = strays \/ (strays < MaxStrays /\ strays' = strays + 1)

\* A call about a node writes nothing or one row with the same dependencies.
LEMMA Calls ==
  ASSUME TypeOK, NEW n \in Nodes, Start(n) \/ Complete(n) \/ Fail(n) \/ Skip(n)
  PROVE  /\ n \in Existing /\ Working /\ Suggestion
         /\ \/ rows' = rows
            \/ \E row \in Row : /\ Write(n, row)
                                /\ row.deps = rows[n].deps
                                /\ row.status \in Reported
  <1>1. n \in Existing /\ Working /\ Suggestion
    BY DEF Start, Complete, Fail, Skip, Is, Suggested, Suggestion
  <1>2. rows[n] \in Row  BY <1>1 DEF TypeOK, Existing
  <1>3. \A s \in Reported : /\ [rows[n] EXCEPT !.status = s] \in Row
                            /\ [rows[n] EXCEPT !.status = s].deps = rows[n].deps
                            /\ [rows[n] EXCEPT !.status = s].status = s
    BY <1>2 DEF Row, Statuses, Reported
  <1>4. CASE Start(n)
    <2> DEFINE row == [status |-> "active", deps |-> rows[n].deps, attempts |-> rows[n].attempts + 1]
    <2>1. row \in Row /\ row.deps = rows[n].deps /\ row.status \in Reported
      BY <1>2 DEF Row, Statuses, Reported
    <2>2. Write(n, row)  BY <1>4 DEF Start
    <2> HIDE DEF row
    <2> QED  BY <1>1, <2>1, <2>2
  <1>5. CASE Complete(n)  BY <1>1, <1>3, <1>5 DEF Complete, Reported
  <1>6. CASE Fail(n)  BY <1>1, <1>3, <1>6 DEF Fail, Reported
  <1>7. CASE Skip(n)  BY <1>1, <1>3, <1>7 DEF Skip, Reported
  <1> QED  BY <1>4, <1>5, <1>6, <1>7

LEMMA PlannedAreNodes == 1 .. Planned \subseteq Nodes /\ Planned \in Nat \ {0}
  <1> Cardinality(Nodes) \in Nat  BY FS_CardinalityType, PlanAssumption DEF PlanAssumption
  <1> QED  BY PlanAssumption DEF PlanAssumption

\* The planner, the process and the calls of the agent keep the types, and
\* dependencies that look back.
LEMMA TypeStep == Inv /\ [Next]_vars => TypeOK'
  <1> SUFFICES ASSUME Inv, [Next]_vars  PROVE TypeOK'
    OBVIOUS
  <1> USE NodesAreNumbers, PlannedAreNodes DEF Inv
  <1>1. \A n \in Existing : rows[n] \in Row  BY DEF TypeOK, Existing
  <1>2. CASE AddPlanned
    <2> DEFINE row == [status |-> "ready", deps |-> {}, attempts |-> 0]
    <2>1. row \in Row /\ row.deps = {}  BY DEF Row, Statuses
    <2>2. 1 .. at - 1 \subseteq Existing /\ at \in Nodes
      BY <1>2 DEF AddPlanned, Drafted, TypeOK
    <2>3. Write(at, row)  BY <1>2 DEF AddPlanned
    <2> HIDE DEF row
    <2> QED  BY WriteRow, WriteBack, <1>2, <2>1, <2>2, <2>3 DEF AddPlanned, TypeOK
  <1>3. CASE Wire
    <2> DEFINE row == [rows[at] EXCEPT !.deps = Deps[at]]
    <2>1. at \in Existing /\ at \in 1 .. Planned  BY <1>3 DEF Wire, Drafted, TypeOK
    <2>2. Deps[at] \subseteq Nodes /\ \A d \in Deps[at] : d < at
      BY <2>1, PlanAssumption DEF PlanAssumption
    <2>3. row \in Row /\ row.deps = Deps[at]  BY <1>1, <2>1, <2>2 DEF Row, TypeOK
    <2>4. Write(at, row)  BY <1>3 DEF Wire
    <2> HIDE DEF row
    <2>5. 1 .. at - 1 \subseteq Existing /\ at \in Nodes  BY <2>1 DEF TypeOK, Existing
    <2> QED  BY WriteRow, WriteBack, <1>3, <2>1, <2>2, <2>3, <2>4, <2>5 DEF Wire, TypeOK
  <1>4. CASE Sync
    <2>1. rows' = rows /\ Existing' = Existing  BY <1>4 DEF Sync, Existing
    <2>2. progress' \subseteq Existing'  BY <1>4, <2>1 DEF Sync
    <2>3. phase' = "working" /\ UNCHANGED <<at, strays, crashes>>  BY <1>4 DEF Sync
    <2>4. /\ \A k \in Existing' : 1 .. k - 1 \subseteq Existing'
          /\ \A k \in Existing' : \A d \in rows'[k].deps \ {Ghost} : d < k
      BY <2>1 DEF TypeOK
    <2> QED  BY <2>1, <2>2, <2>3, <2>4 DEF TypeOK
  <1>5. CASE Crash
    <2>1. rows' = rows /\ Existing' = Existing  BY <1>5 DEF Crash, Existing
    <2>2. crashes' \in 0 .. MaxCrashes  BY <1>5, PlanAssumption DEF Crash, TypeOK, PlanAssumption
    <2> QED  BY <1>5, <2>1, <2>2 DEF Crash, TypeOK
  <1>6. CASE Resume
    <2>1. rows' = rows /\ Existing' = Existing  BY <1>6 DEF Resume, Existing
    <2>2. phase' \in {"adding", "working"} /\ at' = 1  BY <1>6 DEF Resume
    <2> QED  BY <1>6, <2>1, <2>2 DEF Resume, TypeOK
  <1>7. ASSUME NEW n \in Nodes, NEW deps \in SUBSET (Existing \union {Ghost}), Add(n, deps)
        PROVE  TypeOK'
    <2> DEFINE row == [status |-> Recomputed("pending", deps), deps |-> deps, attempts |-> 0]
    <2>1. row \in Row /\ row.deps = deps  BY DEF Row, Statuses, Recomputed, Existing
    <2>2. Write(n, row) /\ 1 .. n - 1 = Existing  BY <1>7 DEF Add
    <2> HIDE DEF row
    <2>3. \A d \in deps \ {Ghost} : d < n  BY <2>2
    <2> QED  BY WriteRow, WriteBack, <1>7, <2>1, <2>2, <2>3 DEF Add, Working, TypeOK
  <1>8. ASSUME NEW n \in Nodes, Start(n) \/ Complete(n) \/ Fail(n) \/ Skip(n)
        PROVE  TypeOK'
    <2>1. n \in Existing /\ Working /\ Suggestion  BY <1>8, Calls
    <2>2. strays' \in 0 .. MaxStrays  BY <2>1, PlanAssumption DEF Suggestion, TypeOK, PlanAssumption
    <2>3. CASE rows' = rows  BY <2>1, <2>2, <2>3 DEF TypeOK, Existing, Working
    <2>4. CASE \E row \in Row : Write(n, row) /\ row.deps = rows[n].deps
      <3>1. PICK row \in Row : Write(n, row) /\ row.deps = rows[n].deps  BY <2>4
      <3>2. 1 .. n - 1 \subseteq Existing /\ \A d \in row.deps \ {Ghost} : d < n
        BY <2>1, <3>1 DEF TypeOK
      <3> QED  BY WriteRow, WriteBack, <2>1, <2>2, <3>1, <3>2 DEF TypeOK, Working
    <2> QED  BY <1>8, <2>3, <2>4, Calls
  <1>9. CASE UNCHANGED vars  BY <1>9 DEF vars, TypeOK, Existing
  <1> QED  BY <1>2, <1>3, <1>4, <1>5, <1>6, <1>7, <1>8, <1>9 DEF Next, Planner

\* What the planner has written when it dies, and what it goes on from.
LEMMA DraftStep == Inv /\ [Next]_vars => Drafted'
  <1> SUFFICES ASSUME Inv, [Next]_vars  PROVE Drafted'
    OBVIOUS
  <1> USE NodesAreNumbers, PlannedAreNodes DEF Inv
  <1>1. CASE AddPlanned
    <2> DEFINE row == [status |-> "ready", deps |-> {}, attempts |-> 0]
    <2>1. row \in Row /\ row.status = "ready"  BY DEF Row, Statuses
    <2>2. Write(at, row) /\ at \in Nodes  BY <1>1 DEF AddPlanned, TypeOK
    <2> HIDE DEF row
    <2>3. /\ Existing' = (1 .. at - 1) \union {at}
          /\ \A k \in Existing' : rows'[k].status = "ready"
      BY WriteRow, <1>1, <2>1, <2>2 DEF AddPlanned, Drafted, Existing
    <2>4. (1 .. at - 1) \union {at} = 1 .. at  BY DEF TypeOK
    <2>5. at + 1 - 1 = at  BY DEF TypeOK
    <2> QED  BY <1>1, <2>3, <2>4, <2>5 DEF AddPlanned, Drafted
  <1>2. CASE Wire
    <2> DEFINE row == [rows[at] EXCEPT !.deps = Deps[at]]
    <2>1. at \in Existing /\ at \in 1 .. Planned  BY <1>2 DEF Wire, Drafted, TypeOK
    <2>2. rows[at] \in Row /\ Deps[at] \subseteq Nodes
      BY <2>1, PlanAssumption DEF PlanAssumption, TypeOK, Existing
    <2>3. row \in Row /\ row.status = "ready"
      BY <1>2, <2>1, <2>2 DEF Row, Wire, Drafted
    <2>4. Write(at, row)  BY <1>2 DEF Wire
    <2> HIDE DEF row
    <2> QED  BY WriteRow, <1>2, <2>1, <2>3, <2>4 DEF Wire, Drafted, Existing
  <1>3. CASE Sync  BY <1>3 DEF Sync, Drafted
  <1>4. CASE Crash  BY <1>4 DEF Crash, Drafted
  <1>5. CASE Resume
    <2>1. rows' = rows /\ Existing' = Existing  BY <1>5 DEF Resume, Existing
    <2>2. at' - 1 = 0  BY <1>5 DEF Resume
    <2>3. phase' = "working" \/ (phase' = "adding" /\ Existing = {})  BY <1>5 DEF Resume
    <2> QED  BY <2>1, <2>2, <2>3 DEF Drafted
  <1>6. ASSUME NEW n \in Nodes, NEW deps \in SUBSET (Existing \union {Ghost}), Add(n, deps)
        PROVE  Drafted'
    BY <1>6 DEF Add, Working, Drafted
  <1>7. ASSUME NEW n \in Nodes, Start(n) \/ Complete(n) \/ Fail(n) \/ Skip(n)
        PROVE  Drafted'
    BY <1>7, Calls DEF Working, Drafted
  <1>8. CASE UNCHANGED vars  BY <1>8 DEF vars, Drafted, Existing
  <1> QED  BY <1>1, <1>2, <1>3, <1>4, <1>5, <1>6, <1>7, <1>8 DEF Next, Planner

\* What a suggested call does: it starts, completes or retries the next node,
\* and leaves the rest of the graph alone.
LEMMA SuggestedCalls ==
  ASSUME Inv, NEW n \in Nodes, Start(n) \/ Complete(n) \/ Fail(n) \/ Skip(n), strays' = 0
  PROVE  /\ strays = 0 /\ n \in Existing
         /\ \/ rows' = rows
            \/ \E row \in Row :
                 /\ Write(n, row) /\ row.deps = rows[n].deps
                 /\ row.status \in {"active", "completed", "retryable"}
                 /\ Done(n)
                 /\ row.status = "completed" \/ rows[n].status # "completed"
  <1> USE DEF Inv
  <1>1. strays \in Nat /\ n \in Existing  BY Calls, PlanAssumption DEF TypeOK, PlanAssumption
  <1>2. \A this \in BOOLEAN : Suggested(this) => this /\ strays = 0
    BY <1>1 DEF Suggested
  <1>3. NextIsWorkable  BY NextWorkable
  <1>4. rows[n] \in Row  BY <1>1 DEF TypeOK, Existing
  <1>5. CASE Start(n)
    <2> DEFINE row == [status |-> "active", deps |-> rows[n].deps, attempts |-> rows[n].attempts + 1]
    <2>1. row \in Row /\ row.deps = rows[n].deps /\ row.status = "active"
      BY <1>4 DEF Row, Statuses
    <2>2. Write(n, row) /\ Suggested(IsNext(n)) /\ rows[n].status # "completed"
      BY <1>5 DEF Start, Is
    <2> HIDE DEF row
    <2>3. IsNext(n) /\ strays = 0  BY <2>2, <1>1 DEF Suggested
    <2> QED  BY <1>1, <1>3, <2>1, <2>2, <2>3 DEF NextIsWorkable
  <1>6. CASE Complete(n)
    <2> DEFINE row == [rows[n] EXCEPT !.status = "completed"]
    <2>1. row \in Row /\ row.deps = rows[n].deps /\ row.status = "completed"
      BY <1>4 DEF Row, Statuses
    <2>2. (Write(n, row) \/ rows' = rows) /\ Suggested(IsNext(n))
      BY <1>6 DEF Complete
    <2> HIDE DEF row
    <2>3. IsNext(n) /\ strays = 0  BY <2>2, <1>1 DEF Suggested
    <2> QED  BY <1>1, <1>3, <2>1, <2>2, <2>3 DEF NextIsWorkable
  <1>7. CASE Fail(n)
    <2> DEFINE row == [rows[n] EXCEPT !.status = "retryable"]
    <2>1. row \in Row /\ row.deps = rows[n].deps /\ row.status = "retryable"
      BY <1>4 DEF Row, Statuses
    <2>2. ~Suggested(FALSE)  BY <1>1 DEF Suggested
    <2>3. Write(n, row) /\ Suggested(IsNext(n) /\ rows[n].status = "active")
      BY <1>7, <2>2 DEF Fail
    <2> HIDE DEF row
    <2>4. IsNext(n) /\ rows[n].status = "active" /\ strays = 0
      BY <2>3, <1>1 DEF Suggested
    <2> QED  BY <1>1, <1>3, <2>1, <2>3, <2>4 DEF NextIsWorkable
  <1>8. ~Skip(n)  BY <1>1 DEF Skip, Suggested
  <1> QED  BY <1>5, <1>6, <1>7, <1>8

\* The new node of Add waits for nodes that are there, and nobody for it.
LEMMA Added ==
  ASSUME Inv, NEW n \in Nodes, NEW deps \in SUBSET (Existing \union {Ghost}), Add(n, deps)
  PROVE  /\ n \notin Existing /\ strays' = strays
         /\ Existing' = Existing \union {n}
         /\ \A k \in Existing : rows'[k] = rows[k] /\ n \notin rows[k].deps
         /\ rows'[n].status = Recomputed("pending", deps)
  <1> DEFINE row == [status |-> Recomputed("pending", deps), deps |-> deps, attempts |-> 0]
  <1>1. row \in Row /\ row.status = Recomputed("pending", deps)
    BY DEF Row, Statuses, Recomputed, Existing
  <1>2. Write(n, row) /\ n \notin Existing /\ 1 .. n - 1 = Existing /\ strays' = strays
    BY DEF Add
  <1> HIDE DEF row
  <1>3. \A k \in Existing : n \notin rows[k].deps
    <2> SUFFICES ASSUME NEW k \in Existing, n \in rows[k].deps  PROVE FALSE
      OBVIOUS
    <2>1. n # Ghost  BY PlanAssumption DEF PlanAssumption
    <2>2. n < k /\ k < n  BY <1>2, <2>1, NodesAreNumbers DEF Inv, TypeOK
    <2> QED  BY <2>2, NodesAreNumbers DEF Existing
  <1> QED  BY <1>1, <1>2, <1>3, WriteRow DEF Inv, Existing

\* What the planner writes: a row that is ready.
LEMMA Drafting ==
  ASSUME Inv, Planner
  PROVE  /\ strays' = strays /\ progress' = progress
         /\ Existing \subseteq Existing'
         /\ \A k \in Existing' : rows'[k].status = "ready"
  <1>1. strays' = strays /\ progress' = progress  BY DEF Planner, AddPlanned, Wire
  <1>2. phase' = "syncing" => phase = "wiring"  BY DEF Planner, AddPlanned, Wire
  <1>3. at \in Nodes  BY PlannedAreNodes DEF Inv, TypeOK
  <1>4. Existing \subseteq Existing' /\ \A k \in Existing' : rows'[k].status = "ready"
    <2>1. CASE AddPlanned
      <3> DEFINE row == [status |-> "ready", deps |-> {}, attempts |-> 0]
      <3>1. row \in Row /\ row.status = "ready"  BY DEF Row, Statuses
      <3>2. Write(at, row) /\ phase = "adding"  BY <2>1 DEF AddPlanned
      <3> HIDE DEF row
      <3> QED  BY WriteRow, <1>3, <3>1, <3>2 DEF Inv, Drafted, Existing
    <2>2. CASE Wire
      <3> DEFINE row == [rows[at] EXCEPT !.deps = Deps[at]]
      <3>1. at \in Existing /\ phase = "wiring"  BY <2>2 DEF Wire, Inv, Drafted, TypeOK
      <3>2. rows[at] \in Row /\ Deps[at] \subseteq Nodes
        BY <3>1, PlanAssumption, PlannedAreNodes DEF PlanAssumption, Inv, TypeOK, Existing
      <3>3. row \in Row /\ row.status = "ready"
        BY <3>1, <3>2 DEF Row, Inv, Drafted
      <3>4. Write(at, row)  BY <2>2 DEF Wire
      <3> HIDE DEF row
      <3> QED  BY WriteRow, <1>3, <3>1, <3>3, <3>4 DEF Inv, Drafted, Existing
    <2> QED  BY <2>1, <2>2 DEF Planner
  <1> QED  BY <1>1, <1>4

\* Crashes, resumptions and copies leave the graph alone.
LEMMA Idle ==
  ASSUME Sync \/ Crash \/ Resume \/ UNCHANGED vars
  PROVE  rows' = rows /\ strays' = strays /\ Existing' = Existing
  BY DEF Sync, Crash, Resume, vars, Existing

\* An agent that gives nothing up leaves nothing failed, skipped or blocked.
LEMMA CleanStep == Inv /\ [Next]_vars => Clean'
  <1> SUFFICES ASSUME Inv, [Next]_vars, strays' = 0, NEW k \in Existing'
               PROVE  rows'[k].status \in {"pending", "ready", "active", "completed", "retryable"}
    BY DEF Clean
  <1>1. CASE Planner  BY <1>1, Drafting
  <1>2. CASE Sync \/ Crash \/ Resume \/ UNCHANGED vars  BY <1>2, Idle DEF Inv, Clean
  <1>3. ASSUME NEW n \in Nodes, NEW deps \in SUBSET (Existing \union {Ghost}), Add(n, deps)
        PROVE  rows'[k].status \in {"pending", "ready", "active", "completed", "retryable"}
    <2>1. strays = 0  BY <1>3, Added
    <2>2. \A d \in deps : ~Is(d, {"failed", "skipped"})  BY <2>1 DEF Inv, Clean, Is
    <2>3. Recomputed("pending", deps) \in {"pending", "ready"}  BY <2>2 DEF Recomputed
    <2> QED  BY <1>3, <2>1, <2>3, Added DEF Inv, Clean
  <1>4. ASSUME NEW n \in Nodes, Start(n) \/ Complete(n) \/ Fail(n) \/ Skip(n)
        PROVE  rows'[k].status \in {"pending", "ready", "active", "completed", "retryable"}
    BY <1>4, SuggestedCalls, WriteRow DEF Inv, Clean, Existing
  <1> QED  BY <1>1, <1>2, <1>3, <1>4 DEF Next

\* What is completed stays so, and only the next node is begun.
LEMMA OrderStep == Inv /\ [Next]_vars => FinishedInOrder'
  <1> SUFFICES ASSUME Inv, [Next]_vars, strays' = 0, NEW k \in Existing',
                      rows'[k].status \in {"active", "retryable", "completed"},
                      NEW d \in rows'[k].deps \intersect Existing'
               PROVE  rows'[d].status = "completed"
    BY DEF FinishedInOrder, Done
  <1>1. CASE Planner  BY <1>1, Drafting
  <1>2. CASE Sync \/ Crash \/ Resume \/ UNCHANGED vars
    BY <1>2, Idle DEF Inv, FinishedInOrder, Done
  <1>3. ASSUME NEW n \in Nodes, NEW deps \in SUBSET (Existing \union {Ghost}), Add(n, deps)
        PROVE  rows'[d].status = "completed"
    <2>1. strays = 0  BY <1>3, Added
    <2>2. rows'[n].status \in {"pending", "ready", "blocked"}
      BY <1>3, Added DEF Recomputed
    <2>3. k # n /\ k \in Existing /\ d \in Existing  BY <1>3, <2>2, Added
    <2> QED  BY <1>3, <2>1, <2>3, Added DEF Inv, FinishedInOrder, Done
  <1>4. ASSUME NEW n \in Nodes, Start(n) \/ Complete(n) \/ Fail(n) \/ Skip(n)
        PROVE  rows'[d].status = "completed"
    <2>1. strays = 0 /\ n \in Existing  BY <1>4, SuggestedCalls
    <2>2. CASE rows' = rows  BY <2>1, <2>2 DEF Inv, FinishedInOrder, Done, Existing
    <2>3. ASSUME NEW row \in Row, Write(n, row), row.deps = rows[n].deps, Done(n),
                 row.status = "completed" \/ rows[n].status # "completed"
          PROVE  rows'[d].status = "completed"
      <3>1. Existing' = Existing /\ \A m \in Existing : rows'[m] = IF m = n THEN row ELSE rows[m]
        BY <2>1, <2>3, WriteRow DEF Inv, Existing
      <3>2. rows[d].status = "completed"
        BY <2>1, <2>3, <3>1 DEF Inv, FinishedInOrder, Done
      <3> QED  BY <2>3, <3>1, <3>2
    <2> QED  BY <1>4, <2>2, <2>3, SuggestedCalls
  <1> QED  BY <1>1, <1>2, <1>3, <1>4 DEF Next

\* A row leaves pending, ready and blocked for good.
LEMMA ProgressStep == Inv /\ [Next]_vars => NoFakeProgress'
  <1> SUFFICES ASSUME Inv, [Next]_vars, NEW k \in progress', k \in Existing',
                      rows'[k].status \in {"pending", "ready", "blocked"}
               PROVE  FALSE
    BY DEF NoFakeProgress, Is
  <1>0. \A m \in progress : m \in Existing /\ rows[m].status \notin {"pending", "ready", "blocked"}
    BY DEF Inv, TypeOK, NoFakeProgress, Is
  <1>1. CASE AddPlanned
    <2>1. phase = "adding" /\ progress' = progress  BY <1>1 DEF AddPlanned
    <2> QED  BY <1>0, <2>1 DEF Inv, Drafted
  <1>2. CASE Wire
    <2>1. phase = "wiring" /\ progress' = progress  BY <1>2 DEF Wire
    <2> QED  BY <1>0, <2>1 DEF Inv, Drafted
  <1>3. CASE Sync  BY <1>3 DEF Sync
  <1>4. CASE Crash \/ Resume \/ UNCHANGED vars
    BY <1>0, <1>4, Idle DEF Crash, Resume, vars
  <1>5. ASSUME NEW n \in Nodes, NEW deps \in SUBSET (Existing \union {Ghost}), Add(n, deps)
        PROVE  FALSE
    BY <1>0, <1>5, Added DEF Add, Working
  <1>6. ASSUME NEW n \in Nodes, Start(n) \/ Complete(n) \/ Fail(n) \/ Skip(n)
        PROVE  FALSE
    <2>1. progress' = progress /\ n \in Existing  BY <1>6, Calls DEF Inv, Working
    <2>2. CASE rows' = rows  BY <1>0, <2>1, <2>2
    <2>3. ASSUME NEW row \in Row, Write(n, row), row.status \in Reported
          PROVE  FALSE
      BY <1>0, <2>1, <2>3, WriteRow DEF Reported, Inv, Existing
    <2> QED  BY <1>6, <2>2, <2>3, Calls DEF Inv
  <1> QED  BY <1>1, <1>2, <1>3, <1>4, <1>5, <1>6 DEF Next, Planner

\* The strengthened invariant holds in every reachable state.
THEOREM Invariance == Spec => []Inv
  <1>1. Init => Inv
    <2> SUFFICES ASSUME Init  PROVE Inv
      OBVIOUS
    <2>1. Existing = {}  BY DEF Init, Existing
    <2>2. rows \in [Nodes -> Row \union {None}]  BY DEF Init
    <2>3. at \in 1 .. Planned /\ 1 .. at - 1 = {}  BY PlannedAreNodes DEF Init
    <2> QED
      BY <2>1, <2>2, <2>3, PlanAssumption
      DEF Init, Inv, TypeOK, Drafted, Clean, FinishedInOrder, NoFakeProgress, PlanAssumption
  <1>2. Inv /\ [Next]_vars => Inv'
    BY TypeStep, DraftStep, CleanStep, OrderStep, ProgressStep DEF Inv
  <1> QED  BY <1>1, <1>2, PTL DEF Spec

\* Types, and dependencies that look back, whatever the agent adds and
\* wherever the planner dies.
THEOREM TypeCorrect == Spec => []TypeOK
  BY Invariance, PTL DEF Inv

\* While the agent follows `next` and gives nothing up, the node that
\* prioritized_order puts first has its dependencies completed.
THEOREM TheNextNodeIsWorkable == Spec => []NextIsWorkable
  <1>1. Inv => NextIsWorkable  BY NextWorkable
  <1> QED  BY <1>1, Invariance, PTL

\* ... and so the plan is worked off in the order of its dependencies.
THEOREM TheOrderIsKept == Spec => []FinishedInOrder
  BY Invariance, PTL DEF Inv

\* The task's copy of the progress never runs ahead of the graph.
THEOREM TheProgressIsReal == Spec => []NoFakeProgress
  BY Invariance, PTL DEF Inv

\* complete_node never completes a node over an unfinished dependency, nor the
\* dependency with it.
THEOREM CompletionsAreReal == Spec => NoFakeCompletion
  <1> DEFINE Real ==
        \A n \in Existing :
          rows'[n] # rows[n] /\ rows'[n].status = "completed" =>
            /\ \A d \in rows[n].deps \intersect Existing : Is(d, {"completed", "skipped"})
            /\ \A d \in Existing \ {n} : rows'[d] = rows[d]
  <1>1. Inv /\ [Next]_vars => [Real]_vars
    <2> SUFFICES ASSUME Inv, Next, NEW k \in Existing,
                        rows'[k] # rows[k], rows'[k].status = "completed"
                 PROVE  /\ \A d \in rows[k].deps \intersect Existing : Is(d, {"completed", "skipped"})
                        /\ \A d \in Existing \ {k} : rows'[d] = rows[d]
      OBVIOUS
    <2>1. ~Planner  BY Drafting
    <2>2. ~(Sync \/ Crash \/ Resume)  BY Idle
    <2>3. \A n \in Nodes : \A deps \in SUBSET (Existing \union {Ghost}) : ~Add(n, deps)
      BY Added
    <2>4. PICK n \in Nodes : Start(n) \/ Complete(n) \/ Fail(n) \/ Skip(n)
      BY <2>1, <2>2, <2>3 DEF Next
    <2>5. n \in Existing /\ k = n /\ \A d \in Existing \ {n} : rows'[d] = rows[d]
      BY <2>4, Calls, WriteRow DEF Inv, Existing
    <2>6. rows[n] \in Row /\ rows'[n].status = "completed"  BY <2>5 DEF Inv, TypeOK, Existing
    <2>7. ~Start(n)  BY <2>6 DEF Start, Write, Inv, TypeOK
    <2>8. ~Fail(n)  BY <2>6 DEF Fail, Write, Inv, TypeOK, Row
    <2>9. ~Skip(n)  BY <2>6 DEF Skip, Write, Inv, TypeOK, Row
    <2>10. Complete(n)  BY <2>4, <2>7, <2>8, <2>9
    <2>11. Unmet(n) = {}  BY <2>5, <2>10 DEF Complete
    <2> QED  BY <2>5, <2>11 DEF Unmet
  <1> QED  BY <1>1, Invariance, PTL DEF Spec, NoFakeCompletion
===============================================================================
