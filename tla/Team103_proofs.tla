---------------------------- MODULE Team103_proofs ----------------------------
(***************************************************************************)
(* Proofs about Team103, for any number of runs that share a team, any     *)
(* tasks, files, dependencies (also cyclic ones), limits and cancellations.*)
(*                                                                         *)
(* Worker ids say nothing between runs, and a worker of one run may delete *)
(* the ownership that a namesake of another run relies on.  That workers   *)
(* of one run still exclude each other rests on Burst: the claims of a     *)
(* wave are made without a step of anybody else in between, and before the *)
(* first of them nobody of that run is at work.                            *)
(***************************************************************************)
EXTENDS Team103, FiniteSetTheorems, TLAPS

Burst ==
    \A j \in Jobs : pc[j] = "created" =>
        /\ \A i \in Jobs : pc[i] = "created" => Run[i] = Run[j]
        /\ \A i \in JobsOf(Run[j]) :
            AtWork(i) => old = {} /\ \A f \in Files[i] : owner[f] = Worker[i]

Inv ==
    /\ TypeOK /\ Burst
    /\ OneAtAFile /\ WavesInOrder /\ SlotsAreCounted /\ OnlyCancelledLeaks

LEMMA Constants ==
  /\ \A j \in Jobs : Run[j] \in Runs /\ Key(j) \in Keys /\ Worker[j] \in Values(Worker)
  /\ \A j \in Jobs : Files[j] \subseteq AllFiles
  /\ \A j, k \in Jobs : Run[j] = Run[k] /\ Worker[j] = Worker[k] => j = k
  /\ None \notin Jobs /\ None \notin Values(Worker)
  BY TeamAssumption DEF TeamAssumption, Keys, Values, AllFiles

\* What the limit can be.
LEMMA LimitRange ==
  ASSUME TypeOK
  PROVE  Limit \in 1 .. MaxWorkers
  BY TeamAssumption DEF TypeOK, Limit, AtMost, AtLeast, TeamAssumption

LEMMA Halved ==
  ASSUME TypeOK
  PROVE  AtLeast(1, cur \div 2) \in 1 .. AtLeast(Start, Hi)
  <1>1. cur \in Nat \ {0} /\ AtLeast(Start, Hi) \in Nat \ {0} /\ cur <= AtLeast(Start, Hi)
    BY TeamAssumption DEF TypeOK, AtLeast, TeamAssumption
  <1>2. \A n \in Nat : n \div 2 \in Nat /\ n \div 2 <= n  OBVIOUS
  <1> QED  BY <1>1, <1>2 DEF AtLeast

LEMMA Raised ==
  ASSUME TypeOK, NEW more \in {1, 2}
  PROVE  (IF cur < Hi THEN AtMost(Hi, cur + more) ELSE cur) \in 1 .. AtLeast(Start, Hi)
  BY TeamAssumption DEF TypeOK, AtLeast, AtMost, TeamAssumption

\* A sweep and a release only take away.
LEMMA Taken ==
  ASSUME TypeOK
  PROVE  /\ SweptClaims \in [Keys -> Jobs \union {None}]
         /\ \A k \in Keys : SweptClaims[k] \in {None, claims[k]}
         /\ SweptOwner \in [AllFiles -> Values(Worker) \union {None}]
         /\ \A f \in AllFiles : SweptOwner[f] \in {None, owner[f]}
         /\ old = {} => SweptOwner = owner
  BY DEF TypeOK, SweptClaims, SweptOwner

LEMMA Released ==
  ASSUME TypeOK, NEW j \in Jobs, Release(j)
  PROVE  /\ claims' \in [Keys -> Jobs \union {None}]
         /\ \A k \in Keys : claims'[k] = IF k = Key(j) THEN None ELSE claims[k]
         /\ owner' \in [AllFiles -> Values(Worker) \union {None}]
         /\ \A f \in AllFiles :
                owner'[f] = IF f \in Files[j] /\ owner[f] = Worker[j] THEN None ELSE owner[f]
         /\ old' = old \ {Key(j)}
  BY Constants DEF TypeOK, Release

\* How one coroutine moves.
LEMMA Moves ==
  ASSUME TypeOK, NEW j \in Jobs, NEW s, pc' = [pc EXCEPT ![j] = s]
  PROVE  \A i \in Jobs : pc'[i] = IF i = j THEN s ELSE pc[i]
  BY DEF TypeOK

\* What a claim does to the registry.
LEMMA Claimed ==
  ASSUME TypeOK, NEW j \in Jobs, Claim(j)
  PROVE  /\ claims' \in [Keys -> Jobs \union {None}]
         /\ owner' \in [AllFiles -> Values(Worker) \union {None}]
         /\ old' = {}
         /\ pc[j] = "created" /\ planned' = planned /\ active' = active /\ cancelled' = cancelled
         /\ \/ /\ pc' = [pc EXCEPT ![j] = "cached"] \/ pc' = [pc EXCEPT ![j] = "skipped"]
               /\ \A k \in Keys : claims'[k] \in {None, claims[k]}
               /\ owner' = SweptOwner
            \/ /\ pc' = [pc EXCEPT ![j] = "waiting"]
               /\ \A k \in Keys : claims'[k] \in {None, claims[k], j}
               /\ \A k \in Keys : claims'[k] = j => k = Key(j) \/ claims[k] = j
               /\ \A f \in Files[j] : SweptOwner[f] \in {None, Worker[j]}
               /\ \A f \in AllFiles :
                    owner'[f] = IF f \in Files[j] THEN Worker[j] ELSE SweptOwner[f]
  <1> USE Taken, Constants
  <1>1. CASE Refuse(j)
    BY <1>1 DEF Claim, Refuse
  <1>2. CASE Grant(j) /\ ~Locked(j)
    <2>1. \A f \in Files[j] : SweptOwner[f] \in {None, Worker[j]}  BY <1>2 DEF Locked
    <2>2. /\ claims' \in [Keys -> Jobs \union {None}]
          /\ \A k \in Keys : claims'[k] = IF k = Key(j) THEN j ELSE SweptClaims[k]
      BY <1>2 DEF Grant
    <2>3. /\ owner' \in [AllFiles -> Values(Worker) \union {None}]
          /\ \A f \in AllFiles :
                owner'[f] = IF f \in Files[j] THEN Worker[j] ELSE SweptOwner[f]
      BY <1>2 DEF Grant
    <2> QED  BY <1>2, <2>1, <2>2, <2>3 DEF Claim, Grant
  <1> QED  BY <1>1, <1>2 DEF Claim

\* What opening a wave does.
LEMMA Opened ==
  ASSUME TypeOK, NEW r \in Runs, NextWave(r)
  PROVE  \E wave \in SUBSET (JobsOf(r) \ planned[r]) :
            /\ OpenWave(r, wave)
            /\ \/ wave = Ready(r) /\ forced' = forced
               \/ forced' = forced \union wave
            /\ \A i \in Jobs : pc'[i] = IF i \in wave THEN "created" ELSE pc[i]
            /\ \A i \in wave : Run[i] = r /\ pc[i] = "planned"
            /\ \A i \in Jobs : pc[i] # "created" /\ (i \in planned[r] => pc[i] \in Over)
  <1>1. PICK wave \in SUBSET (JobsOf(r) \ planned[r]) :
            /\ OpenWave(r, wave)
            /\ (wave = Ready(r) /\ forced' = forced) \/ forced' = forced \union wave
    <2>1. CASE OpenWave(r, Ready(r)) /\ forced' = forced
      BY <2>1 DEF Ready
    <2>2. CASE \E j \in JobsOf(r) \ planned[r] : OpenWave(r, {j}) /\ forced' = forced \union {j}
      BY <2>2
    <2> QED  BY <2>1, <2>2 DEF NextWave
  <1>2. \A i \in Jobs : pc'[i] = IF i \in wave THEN "created" ELSE pc[i]
    BY <1>1 DEF OpenWave
  <1>3. \A i \in wave : Run[i] = r /\ pc[i] = "planned"
    BY DEF JobsOf, TypeOK
  <1>4. \A i \in Jobs : pc[i] # "created" /\ (i \in planned[r] => pc[i] \in Over)
    BY DEF NextWave, Quiet
  <1> QED  BY <1>1, <1>2, <1>3, <1>4

\* The steps that neither open a wave nor claim.
Onward ==
    \/ \E r \in Runs : Cancel(r)
    \/ \E j \in Jobs : Admit(j) \/ Attempt(j) \/ Retry(j)
    \/ \E k \in Keys : Age(k)

LEMMA OnwardMoves ==
  ASSUME TypeOK, Onward
  PROVE  /\ planned' = planned /\ forced' = forced /\ cancelled \subseteq cancelled'
         /\ \A i \in Jobs :
                /\ pc'[i] # "created"
                /\ AtWork(i)' => AtWork(i)
                /\ pc[i] \in Over => pc'[i] \in Over
                /\ pc'[i] = "planned" <=> pc[i] = "planned"
  <1> USE DEF Over, Claiming, AtWork, Quiet
  <1>1. CASE \E r \in Runs : Cancel(r)
    BY <1>1 DEF Cancel
  <1>2. CASE \E j \in Jobs : Admit(j) \/ Attempt(j) \/ Retry(j)
    BY <1>2, Moves DEF Admit, Attempt, Succeed, Fault, FinalFault, Retry
  <1>3. CASE \E k \in Keys : Age(k)
    BY <1>3 DEF Age
  <1> QED  BY <1>1, <1>2, <1>3 DEF Onward

LEMMA Steps ==
  ASSUME Next
  PROVE  (\E r \in Runs : NextWave(r)) \/ (\E j \in Jobs : Claim(j)) \/ Onward
  BY DEF Next, Onward

-----------------------------------------------------------------------------
(* One lemma per conjunct of Inv. *)

LEMMA BurstStep ==
  ASSUME TypeOK, Burst, Next
  PROVE  Burst'
  <1>1. ASSUME NEW r \in Runs, NextWave(r)  PROVE Burst'
    <2>1. PICK wave \in SUBSET (JobsOf(r) \ planned[r]) :
            /\ \A i \in Jobs : pc'[i] = IF i \in wave THEN "created" ELSE pc[i]
            /\ \A i \in wave : Run[i] = r /\ pc[i] = "planned"
            /\ \A i \in Jobs : pc[i] # "created" /\ (i \in planned[r] => pc[i] \in Over)
      BY <1>1, Opened
    <2>2. \A i \in JobsOf(r) : ~AtWork(i)'
      BY <2>1 DEF AtWork, Claiming, Over, JobsOf, TypeOK
    <2> QED  BY <2>1, <2>2 DEF Burst, JobsOf
  <1>2. ASSUME NEW j \in Jobs, Claim(j)  PROVE Burst'
    <2> SUFFICES ASSUME NEW h \in Jobs, pc'[h] = "created"
                 PROVE  /\ \A i \in Jobs : pc'[i] = "created" => Run[i] = Run[h]
                        /\ \A i \in JobsOf(Run[h]) :
                             AtWork(i)' => old' = {} /\ \A f \in Files[i] : owner'[f] = Worker[i]
      BY DEF Burst, JobsOf
    <2>1. /\ pc[j] = "created" /\ old' = {}
          /\ \A i \in Jobs : i # j => pc'[i] = pc[i]
          /\ pc'[j] # "created"
      BY <1>2, Claimed, Moves
    <2>2. pc[h] = "created" /\ Run[h] = Run[j]
      BY <2>1 DEF Burst
    <2>3. ASSUME NEW i \in JobsOf(Run[h]), AtWork(i)', NEW f \in Files[i]
          PROVE  owner'[f] = Worker[i]
      <3>1. f \in AllFiles /\ i \in Jobs  BY Constants DEF JobsOf
      <3>2. CASE i = j
        BY <1>2, <2>3, <3>1, <3>2, Claimed, Moves DEF AtWork, Claiming
      <3>3. CASE i # j
        <4>1. AtWork(i) BY <2>1, <2>3, <3>1, <3>3 DEF AtWork
        <4>2. old = {} /\ owner[f] = Worker[i] /\ SweptOwner = owner
          BY <4>1, <2>2, Taken DEF Burst
        <4>3. Worker[i] # None /\ Worker[i] # Worker[j]
          BY <2>2, <3>1, <3>3, Constants DEF JobsOf
        <4> QED  BY <1>2, <3>1, <4>2, <4>3, Claimed
      <3> QED  BY <3>2, <3>3
    <2> QED  BY <2>1, <2>2, <2>3 DEF Burst
  <1>3. CASE Onward
    BY <1>3, OnwardMoves DEF Burst
  <1> QED  BY <1>1, <1>2, <1>3, Steps

LEMMA OneAtAFileStep ==
  ASSUME TypeOK, Burst, OneAtAFile, Next
  PROVE  OneAtAFile'
  <1>1. ASSUME NEW r \in Runs, NextWave(r)  PROVE OneAtAFile'
    <2>1. \A i \in Jobs : AtWork(i)' => AtWork(i)
      BY <1>1, Opened DEF AtWork, Claiming
    <2> QED  BY <2>1 DEF OneAtAFile
  <1>2. ASSUME NEW j \in Jobs, Claim(j)  PROVE OneAtAFile'
    <2>1. \A i \in Jobs : i # j /\ AtWork(i)' => AtWork(i)
      BY <1>2, Claimed, Moves DEF AtWork
    <2>2. ASSUME NEW i \in Jobs, i # j, Run[i] = Run[j], AtWork(i), AtWork(j)'
          PROVE  Files[i] \intersect Files[j] = {}
      <3> SUFFICES ASSUME NEW f \in Files[i] \intersect Files[j] PROVE FALSE
        OBVIOUS
      <3>1. SweptOwner[f] \in {None, Worker[j]}
        BY <1>2, <2>2, Claimed, Moves DEF AtWork, Claiming
      <3>2. pc[j] = "created"  BY <1>2, Claimed
      <3>3. owner[f] = Worker[i] /\ SweptOwner = owner
        BY <2>2, <3>2, Taken DEF Burst, JobsOf
      <3> QED  BY <2>2, <3>1, <3>3, Constants
    <2> QED  BY <2>1, <2>2 DEF OneAtAFile
  <1>3. CASE Onward
    BY <1>3, OnwardMoves DEF OneAtAFile
  <1> QED  BY <1>1, <1>2, <1>3, Steps

LEMMA WavesInOrderStep ==
  ASSUME TypeOK, WavesInOrder, Next
  PROVE  WavesInOrder'
  <1>1. ASSUME NEW r \in Runs, NextWave(r)  PROVE WavesInOrder'
    <2>1. PICK wave \in SUBSET (JobsOf(r) \ planned[r]) :
            /\ (wave = Ready(r) /\ forced' = forced) \/ forced' = forced \union wave
            /\ \A i \in Jobs : pc'[i] = IF i \in wave THEN "created" ELSE pc[i]
            /\ \A i \in wave : Run[i] = r /\ pc[i] = "planned"
            /\ \A i \in Jobs : i \in planned[r] => pc[i] \in Over
      BY <1>1, Opened
    <2>2. \A i \in Jobs : pc[i] \in Over => pc'[i] \in Over
      BY <2>1 DEF Over
    <2>3. ASSUME NEW j \in Jobs \ forced', pc'[j] # "planned",
                 NEW t \in Needs[j] \intersect Titles(JobsOf(Run[j]))
          PROVE  \E k \in JobsOf(Run[j]) : Title[k] = t /\ pc'[k] \in Over
      <3>1. CASE j \in wave
        <4>1. j \in Ready(r) /\ Run[j] = r  BY <2>1, <2>3, <3>1
        <4>2. t \in Titles(planned[r])  BY <2>3, <4>1 DEF Ready
        <4>3. PICK k \in planned[r] : Title[k] = t  BY <4>2 DEF Titles
        <4>4. k \in JobsOf(r) /\ pc[k] \in Over  BY <2>1 DEF TypeOK, JobsOf
        <4> QED  BY <2>2, <4>1, <4>3, <4>4 DEF JobsOf
      <3>2. CASE j \notin wave
        <4>1. j \in Jobs \ forced /\ pc[j] # "planned"  BY <2>1, <2>3, <3>2
        <4> QED  BY <2>2, <2>3, <4>1 DEF WavesInOrder, JobsOf
      <3> QED  BY <3>1, <3>2
    <2> QED  BY <2>3 DEF WavesInOrder, JobsOf
  <1>2. ASSUME NEW j \in Jobs, Claim(j)  PROVE WavesInOrder'
    <2>1. /\ forced' = forced
          /\ \A i \in Jobs : pc[i] \in Over => pc'[i] \in Over
          /\ \A i \in Jobs : pc'[i] # "planned" => pc[i] # "planned"
      BY <1>2, Claimed, Moves DEF Over, Claim
    <2> QED  BY <2>1 DEF WavesInOrder, JobsOf
  <1>3. CASE Onward
    BY <1>3, OnwardMoves DEF WavesInOrder, JobsOf
  <1> QED  BY <1>1, <1>2, <1>3, Steps
Slots(r) == {j \in JobsOf(r) : pc[j] \in {"working", "backoff"}}

LEMMA SlotsFinite ==
  ASSUME NEW r, NEW S, S \subseteq JobsOf(r)
  PROVE  IsFiniteSet(S)
  BY FS_Subset, TeamAssumption DEF JobsOf, TeamAssumption

LEMMA SlotsStep ==
  ASSUME TypeOK, SlotsAreCounted, Next
  PROVE  SlotsAreCounted'
  <1> DEFINE Counted(r) ==
        /\ active'[r] = Cardinality(Slots(r)')
        /\ active'[r] <= MaxWorkers
  <1> SUFFICES \A r \in Runs : Counted(r)
    BY DEF SlotsAreCounted, Slots, JobsOf
  <1>0. \A r \in Runs : /\ active[r] = Cardinality(Slots(r)) /\ active[r] <= MaxWorkers
                        /\ active[r] \in Nat
    BY DEF SlotsAreCounted, Slots, TypeOK
  <1> USE <1>0
  <1>1. ASSUME active' = active,
               \A i \in Jobs : pc'[i] \in {"working", "backoff"} <=> pc[i] \in {"working", "backoff"}
        PROVE  \A r \in Runs : Counted(r)
    <2>1. \A r \in Runs : Slots(r)' = Slots(r)  BY <1>1 DEF Slots, JobsOf
    <2> QED  BY <1>1, <2>1
  <1>2. ASSUME NEW r \in Runs, NextWave(r)  PROVE \A q \in Runs : Counted(q)
    <2>1. active' = active  BY <1>2 DEF NextWave, OpenWave
    <2> QED  BY <1>1, <1>2, <2>1, Opened
  <1>3. ASSUME NEW j \in Jobs, Claim(j)  PROVE \A q \in Runs : Counted(q)
    BY <1>1, <1>3, Claimed, Moves
  <1>4. ASSUME NEW j \in Jobs, Admit(j)  PROVE \A q \in Runs : Counted(q)
    <2>1. /\ Run[j] \in Runs /\ j \notin Slots(Run[j]) /\ active[Run[j]] < Limit
          /\ Limit \in 1 .. MaxWorkers /\ MaxWorkers \in Nat
      BY <1>4, Constants, LimitRange, TeamAssumption DEF Admit, Slots, TeamAssumption
    <2>2. \A r \in Runs : active'[r] = IF r = Run[j] THEN active[r] + 1 ELSE active[r]
      BY <1>4 DEF Admit, TypeOK
    <2>3. \A i \in Jobs : pc'[i] = IF i = j THEN "working" ELSE pc[i]
      BY <1>4, Moves DEF Admit
    <2>4. \A r \in Runs : Slots(r)' = IF r = Run[j] THEN Slots(r) \union {j} ELSE Slots(r)
      BY <2>3 DEF Slots, JobsOf
    <2>5. Cardinality(Slots(Run[j]) \union {j}) = Cardinality(Slots(Run[j])) + 1
      <3>1. IsFiniteSet(Slots(Run[j]))  BY SlotsFinite DEF Slots
      <3> QED  BY <2>1, <3>1, FS_AddElement
    <2>6. active[Run[j]] + 1 <= MaxWorkers  BY <2>1
    <2> QED  BY <2>1, <2>2, <2>4, <2>5, <2>6
  <1>5. ASSUME NEW j \in Jobs, Succeed(j) \/ FinalFault(j)  PROVE \A q \in Runs : Counted(q)
    <2>1. Run[j] \in Runs /\ j \in Slots(Run[j])
      BY <1>5, Constants DEF Succeed, FinalFault, Slots, JobsOf
    <2>2. \A r \in Runs : active'[r] = IF r = Run[j] THEN active[r] - 1 ELSE active[r]
      BY <1>5 DEF Succeed, FinalFault, Leave, TypeOK
    <2>3. \A i \in Jobs : i # j => pc'[i] = pc[i]
      BY <1>5, Moves DEF Succeed, FinalFault
    <2>4. pc'[j] \in {"done", "failed"}
      <3>1. CASE Succeed(j)  BY <3>1 DEF Succeed, TypeOK
      <3>2. CASE FinalFault(j)  BY <3>2 DEF FinalFault, TypeOK
      <3> QED  BY <1>5, <3>1, <3>2
    <2>5. \A r \in Runs : Slots(r)' = IF r = Run[j] THEN Slots(r) \ {j} ELSE Slots(r)
      BY <2>3, <2>4 DEF Slots, JobsOf
    <2>6. Cardinality(Slots(Run[j]) \ {j}) = Cardinality(Slots(Run[j])) - 1
      <3>1. IsFiniteSet(Slots(Run[j]))  BY SlotsFinite DEF Slots
      <3> QED  BY <2>1, <3>1, FS_RemoveElement
    <2>7. \A r \in Runs : active[r] - 1 <= MaxWorkers
      BY TeamAssumption DEF TeamAssumption
    <2> QED  BY <2>1, <2>2, <2>5, <2>6, <2>7
  <1>6. ASSUME NEW j \in Jobs, Fault(j) \/ Retry(j)  PROVE \A q \in Runs : Counted(q)
    <2>1. active' = active /\ pc[j] \in {"working", "backoff"}  BY <1>6 DEF Fault, Retry
    <2>2. \A i \in Jobs : i # j => pc'[i] = pc[i]  BY <1>6, Moves DEF Fault, Retry
    <2>3. pc'[j] \in {"working", "backoff"}  BY <1>6, Moves DEF Fault, Retry
    <2> QED  BY <1>1, <2>1, <2>2, <2>3
  <1>7. ASSUME NEW q \in Runs, Cancel(q)  PROVE \A r \in Runs : Counted(r)
    <2>1. \A r \in Runs : active'[r] = IF r = q THEN 0 ELSE active[r]
      BY <1>7 DEF Cancel, TypeOK
    <2>2. Slots(q)' = {}
      BY <1>7 DEF Cancel, Slots, JobsOf, AtWork, Claiming
    <2>3. \A r \in Runs : r # q => Slots(r)' = Slots(r)
      BY <1>7 DEF Cancel, Slots, JobsOf
    <2>4. Cardinality({}) = 0 /\ 0 <= MaxWorkers
      BY FS_EmptySet, TeamAssumption DEF TeamAssumption
    <2> QED  BY <2>1, <2>2, <2>3, <2>4
  <1>8. ASSUME NEW k \in Keys, Age(k)  PROVE \A r \in Runs : Counted(r)
    BY <1>1, <1>8 DEF Age
  <1> QED  BY <1>2, <1>3, <1>4, <1>5, <1>6, <1>7, <1>8 DEF Next, Attempt

LEMMA LeaksStep ==
  ASSUME TypeOK, OnlyCancelledLeaks, Next
  PROVE  OnlyCancelledLeaks'
  <1> DEFINE Accounted(j) == pc[j] \in Claiming \/ Run[j] \in cancelled
  <1> DEFINE Kept(j) == pc'[j] \in Claiming \/ Run[j] \in cancelled'
  <1>0. /\ \A k \in Keys : claims[k] # None => claims[k] \in Jobs /\ Accounted(claims[k])
        /\ \A f \in AllFiles : owner[f] # None =>
                \E j \in Jobs : Worker[j] = owner[f] /\ f \in Files[j] /\ Accounted(j)
    BY DEF OnlyCancelledLeaks, AtWork, TypeOK
  <1>1. ASSUME claims' = claims, owner' = owner, \A j \in Jobs : Accounted(j) => Kept(j)
        PROVE  OnlyCancelledLeaks'
    BY <1>0, <1>1 DEF OnlyCancelledLeaks, AtWork
  <1>2. ASSUME NEW r \in Runs, NextWave(r)  PROVE OnlyCancelledLeaks'
    <2>1. claims' = claims /\ owner' = owner /\ cancelled' = cancelled
      BY <1>2 DEF NextWave, OpenWave, registry
    <2>2. \A j \in Jobs : pc[j] \in Claiming => pc'[j] \in Claiming
      BY <1>2, Opened DEF Claiming
    <2> QED  BY <1>1, <2>1, <2>2
  <1>3. ASSUME NEW r \in Runs, Cancel(r)  PROVE OnlyCancelledLeaks'
    <2>1. claims' = claims /\ owner' = owner  BY <1>3 DEF Cancel, registry
    <2>2. \A j \in Jobs : Accounted(j) => Kept(j)
      BY <1>3 DEF Cancel, JobsOf, AtWork
    <2> QED  BY <1>1, <2>1, <2>2
  <1>4. ASSUME NEW j \in Jobs, Claim(j)  PROVE OnlyCancelledLeaks'
    <2>1. \A i \in Jobs : Accounted(i) => Kept(i)
      <3>1. cancelled' = cancelled /\ pc[j] = "created" /\ \A i \in Jobs : i # j => pc'[i] = pc[i]
        BY <1>4, Claimed, Moves
      <3> QED  BY <3>1 DEF Claiming
    <2>2. CASE /\ \A k \in Keys : claims'[k] \in {None, claims[k]}
               /\ owner' = SweptOwner
      <3>1. \A f \in AllFiles : owner'[f] # None => owner'[f] = owner[f]
        BY <2>2, Taken
      <3>2. \A k \in Keys : claims'[k] # None => claims'[k] = claims[k]
        BY <2>2
      <3>3. \A k \in Keys : claims'[k] # None => claims'[k] \in Jobs /\ Kept(claims'[k])
        BY <1>0, <2>1, <3>2
      <3>4. \A f \in AllFiles : owner'[f] # None =>
                \E i \in Jobs : Worker[i] = owner'[f] /\ f \in Files[i] /\ Kept(i)
        BY <1>0, <2>1, <3>1
      <3> QED  BY <3>3, <3>4 DEF OnlyCancelledLeaks, AtWork
    <2>3. CASE /\ pc' = [pc EXCEPT ![j] = "waiting"]
               /\ \A k \in Keys : claims'[k] \in {None, claims[k], j}
               /\ \A f \in AllFiles :
                    owner'[f] = IF f \in Files[j] THEN Worker[j] ELSE SweptOwner[f]
      <3>1. pc'[j] \in Claiming  BY <2>3 DEF Claiming, TypeOK
      <3>2. \A f \in AllFiles : owner'[f] # None =>
                owner'[f] = owner[f] \/ (f \in Files[j] /\ owner'[f] = Worker[j])
        BY <2>3, Taken
      <3>3. \A k \in Keys : claims'[k] # None => claims'[k] \in Jobs /\ Kept(claims'[k])
        BY <1>0, <2>1, <2>3, <3>1
      <3>4. \A f \in AllFiles : owner'[f] # None =>
                \E i \in Jobs : Worker[i] = owner'[f] /\ f \in Files[i] /\ Kept(i)
        BY <1>0, <2>1, <3>1, <3>2
      <3> QED  BY <3>3, <3>4 DEF OnlyCancelledLeaks, AtWork
    <2> QED  BY <1>4, <2>2, <2>3, Claimed
  <1>5. ASSUME NEW j \in Jobs, Succeed(j) \/ FinalFault(j)  PROVE OnlyCancelledLeaks'
    <2>1. Release(j) /\ cancelled' = cancelled  BY <1>5 DEF Succeed, FinalFault
    <2>2. \A i \in Jobs \ {j} : Accounted(i) => Kept(i)
      BY <1>5, <2>1, Moves DEF Succeed, FinalFault, Claiming
    <2>3. \A k \in Keys : claims'[k] # None => claims'[k] = claims[k] /\ claims[k] # j
      BY <2>1, Released DEF TypeOK
    <2>4. \A f \in AllFiles : owner'[f] # None =>
              owner'[f] = owner[f] /\ (f \in Files[j] => Worker[j] # owner[f])
      BY <2>1, Released
    <2>5. ASSUME NEW f \in AllFiles, owner'[f] # None
          PROVE  \E i \in Jobs : Worker[i] = owner'[f] /\ f \in Files[i] /\ Kept(i)
      <3>1. PICK i \in Jobs : Worker[i] = owner[f] /\ f \in Files[i] /\ Accounted(i)
        BY <1>0, <2>4, <2>5
      <3> QED  BY <2>2, <2>4, <2>5, <3>1
    <2> QED  BY <1>0, <2>2, <2>3, <2>5 DEF OnlyCancelledLeaks, AtWork
  <1>6. ASSUME NEW j \in Jobs, Admit(j) \/ Fault(j) \/ Retry(j)  PROVE OnlyCancelledLeaks'
    <2>1. claims' = claims /\ owner' = owner /\ cancelled' = cancelled
      BY <1>6 DEF Admit, Fault, Retry, registry
    <2>2. \A i \in Jobs : pc[i] \in Claiming => pc'[i] \in Claiming
      BY <1>6 DEF Admit, Fault, Retry, Claiming, TypeOK
    <2> QED  BY <1>1, <2>1, <2>2
  <1>7. ASSUME NEW k \in Keys, Age(k)  PROVE OnlyCancelledLeaks'
    <2>1. claims' = claims /\ owner' = owner /\ cancelled' = cancelled /\ pc' = pc
      BY <1>7 DEF Age
    <2> QED  BY <1>1, <2>1
  <1> QED  BY <1>2, <1>3, <1>4, <1>5, <1>6, <1>7 DEF Next, Attempt
LEMMA TypeStep ==
  ASSUME TypeOK, SlotsAreCounted, Next
  PROVE  TypeOK'
  <1> USE Constants
  <1>1. ASSUME NEW r \in Runs, NextWave(r)  PROVE TypeOK'
    <2>1. PICK wave \in SUBSET (JobsOf(r) \ planned[r]) :
            /\ OpenWave(r, wave)
            /\ (wave = Ready(r) /\ forced' = forced) \/ forced' = forced \union wave
            /\ \A i \in Jobs : pc'[i] = IF i \in wave THEN "created" ELSE pc[i]
            /\ \A i \in wave : Run[i] = r /\ pc[i] = "planned"
      BY <1>1, Opened
    <2>2. wave \subseteq JobsOf(r) /\ wave \subseteq Jobs  BY DEF JobsOf
    <2>3. /\ planned' \in [Runs -> SUBSET Jobs]
          /\ \A q \in Runs : planned'[q] = IF q = r THEN planned[q] \union wave ELSE planned[q]
      BY <2>1, <2>2 DEF OpenWave, TypeOK
    <2>4. \A q \in Runs : planned'[q] \subseteq JobsOf(q)
      BY <2>2, <2>3 DEF TypeOK
    <2>5. pc' \in [Jobs -> {"planned", "created"} \union Claiming \union Over]
      BY <2>1 DEF OpenWave, TypeOK
    <2>6. \A i \in Jobs : pc'[i] = "planned" <=> i \notin planned'[Run[i]]
      BY <2>1, <2>3 DEF TypeOK, JobsOf
    <2>7. forced' \subseteq Jobs  BY <2>1, <2>2 DEF TypeOK
    <2>8. UNCHANGED <<tries, claims, old, owner, cache, active, cur, cancelled>>
      BY <2>1 DEF OpenWave, registry
    <2> QED  BY <2>3, <2>4, <2>5, <2>6, <2>7, <2>8 DEF TypeOK
  <1>2. ASSUME NEW j \in Jobs, NEW s \in {"waiting", "working", "backoff"} \union Over,
               pc[j] \notin {"planned"}, pc' = [pc EXCEPT ![j] = s],
               planned' = planned
        PROVE  /\ pc' \in [Jobs -> {"planned", "created"} \union Claiming \union Over]
               /\ \A i \in Jobs : pc'[i] = "planned" <=> i \notin planned'[Run[i]]
    <2>1. \A i \in Jobs : pc'[i] = IF i = j THEN s ELSE pc[i]  BY <1>2 DEF TypeOK
    <2>2. s # "planned" /\ s \in Claiming \union Over  BY DEF Over, Claiming
    <2> QED  BY <1>2, <2>1, <2>2 DEF TypeOK
  <1>3. ASSUME NEW j \in Jobs, Claim(j)  PROVE TypeOK'
    <2>1. \A k \in Keys : claims'[k] # None => Key(claims'[k]) = k
      <3>1. CASE \A k \in Keys : claims'[k] \in {None, claims[k]}
        BY <3>1 DEF TypeOK
      <3>2. CASE /\ \A k \in Keys : claims'[k] \in {None, claims[k], j}
                 /\ \A k \in Keys : claims'[k] = j => k = Key(j) \/ claims[k] = j
        BY <3>2 DEF TypeOK
      <3> QED  BY <1>3, <3>1, <3>2, Claimed
    <2>2. \E s \in {"waiting", "cached", "skipped"} : pc' = [pc EXCEPT ![j] = s]
      BY <1>3, Claimed
    <2>3. pc[j] # "planned" /\ planned' = planned  BY <1>3, Claimed
    <2>4. /\ pc' \in [Jobs -> {"planned", "created"} \union Claiming \union Over]
          /\ \A i \in Jobs : pc'[i] = "planned" <=> i \notin planned'[Run[i]]
      BY <1>2, <2>2, <2>3 DEF Over
    <2>5. UNCHANGED <<planned, forced, tries, cache, active, cur, cancelled>>
      BY <1>3 DEF Claim
    <2> QED  BY <1>3, <2>1, <2>4, <2>5, Claimed DEF TypeOK
  <1>4. ASSUME NEW j \in Jobs, Admit(j)  PROVE TypeOK'
    <2>1. pc[j] # "planned" /\ pc' = [pc EXCEPT ![j] = "working"] /\ planned' = planned
      BY <1>4 DEF Admit
    <2>2. active' \in [Runs -> Nat]  BY <1>4 DEF Admit, TypeOK
    <2> QED  BY <1>2, <1>4, <2>1, <2>2 DEF Admit, registry, TypeOK
  <1>5. ASSUME NEW j \in Jobs, Release(j)
        PROVE  /\ claims' \in [Keys -> Jobs \union {None}]
               /\ \A k \in Keys : claims'[k] # None => Key(claims'[k]) = k
               /\ old' \subseteq {k \in Keys : claims'[k] # None}
               /\ owner' \in [AllFiles -> Values(Worker) \union {None}]
    BY <1>5, Released DEF TypeOK
  <1>6. ASSUME NEW j \in Jobs, Leave(j), pc[j] = "working"
        PROVE  active' \in [Runs -> Nat]
    <2>1. active[Run[j]] \in Nat \ {0}
      <3>1. j \in Slots(Run[j]) /\ active[Run[j]] = Cardinality(Slots(Run[j]))
        BY <1>6 DEF SlotsAreCounted, Slots, JobsOf
      <3>2. IsFiniteSet(Slots(Run[j]))  BY SlotsFinite DEF Slots
      <3>3. Cardinality(Slots(Run[j])) # 0  BY <3>1, <3>2, FS_EmptySet
      <3> QED  BY <3>1, <3>3 DEF TypeOK
    <2> QED  BY <1>6, <2>1 DEF Leave, TypeOK
  <1>7. ASSUME NEW j \in Jobs, Succeed(j)  PROVE TypeOK'
    <2>1. pc[j] = "working" /\ pc' = [pc EXCEPT ![j] = "done"] /\ planned' = planned
      BY <1>7 DEF Succeed
    <2>2. active' \in [Runs -> Nat]  BY <1>6, <1>7, <2>1 DEF Succeed
    <2>3. cur' \in 1 .. AtLeast(Start, Hi)  BY <1>7, Raised DEF Succeed
    <2>4. cache' \subseteq Keys  BY <1>7 DEF Succeed, TypeOK
    <2>5. /\ pc' \in [Jobs -> {"planned", "created"} \union Claiming \union Over]
          /\ \A i \in Jobs : pc'[i] = "planned" <=> i \notin planned'[Run[i]]
      BY <1>2, <2>1 DEF Over
    <2>6. Release(j) /\ UNCHANGED <<planned, forced, tries, cancelled>>  BY <1>7 DEF Succeed
    <2> QED  BY <1>5, <2>2, <2>3, <2>4, <2>5, <2>6 DEF TypeOK
  <1>8. ASSUME NEW j \in Jobs, FinalFault(j)  PROVE TypeOK'
    <2>1. pc[j] = "working" /\ pc' = [pc EXCEPT ![j] = "failed"] /\ planned' = planned
      BY <1>8 DEF FinalFault
    <2>2. active' \in [Runs -> Nat]  BY <1>6, <1>8, <2>1 DEF FinalFault
    <2>3. cur' \in 1 .. AtLeast(Start, Hi)  BY <1>8, Halved DEF FinalFault
    <2>4. /\ pc' \in [Jobs -> {"planned", "created"} \union Claiming \union Over]
          /\ \A i \in Jobs : pc'[i] = "planned" <=> i \notin planned'[Run[i]]
      BY <1>2, <2>1 DEF Over
    <2>5. Release(j) /\ UNCHANGED <<planned, forced, tries, cache, cancelled>>
      BY <1>8 DEF FinalFault
    <2> QED  BY <1>5, <2>2, <2>3, <2>4, <2>5 DEF TypeOK
  <1>9. ASSUME NEW j \in Jobs, Fault(j)  PROVE TypeOK'
    <2>1. pc[j] = "working" /\ pc' = [pc EXCEPT ![j] = "backoff"] /\ planned' = planned
      BY <1>9 DEF Fault
    <2>2. tries' \in [Jobs -> 0 .. MaxRetries]
      BY <1>9, TeamAssumption DEF Fault, TypeOK, TeamAssumption
    <2>3. cur' \in 1 .. AtLeast(Start, Hi)  BY <1>9, Halved DEF Fault
    <2>4. /\ pc' \in [Jobs -> {"planned", "created"} \union Claiming \union Over]
          /\ \A i \in Jobs : pc'[i] = "planned" <=> i \notin planned'[Run[i]]
      BY <1>2, <2>1
    <2>5. UNCHANGED <<planned, forced, claims, old, owner, cache, active, cancelled>>
      BY <1>9 DEF Fault, registry
    <2> QED  BY <2>2, <2>3, <2>4, <2>5 DEF TypeOK
  <1>10. ASSUME NEW j \in Jobs, Retry(j)  PROVE TypeOK'
    <2>1. pc[j] = "backoff" /\ pc' = [pc EXCEPT ![j] = "working"] /\ planned' = planned
      BY <1>10 DEF Retry
    <2>2. /\ pc' \in [Jobs -> {"planned", "created"} \union Claiming \union Over]
          /\ \A i \in Jobs : pc'[i] = "planned" <=> i \notin planned'[Run[i]]
      BY <1>2, <2>1
    <2>3. UNCHANGED <<planned, forced, tries, claims, old, owner, cache, active, cur, cancelled>>
      BY <1>10 DEF Retry, registry
    <2> QED  BY <2>2, <2>3 DEF TypeOK
  <1>11. ASSUME NEW r \in Runs, Cancel(r)  PROVE TypeOK'
    <2>1. \A i \in Jobs : pc'[i] = IF i \in JobsOf(r) /\ AtWork(i) THEN "cancelled" ELSE pc[i]
      BY <1>11 DEF Cancel
    <2>2. /\ pc' \in [Jobs -> {"planned", "created"} \union Claiming \union Over]
          /\ \A i \in Jobs : pc'[i] = "planned" <=> pc[i] = "planned"
      BY <1>11, <2>1 DEF Cancel, Over, AtWork, Claiming, TypeOK
    <2>3. active' \in [Runs -> Nat] /\ cancelled' \subseteq Cancellable
      BY <1>11 DEF Cancel, TypeOK
    <2>4. UNCHANGED <<planned, forced, tries, claims, old, owner, cache, cur>>
      BY <1>11 DEF Cancel, registry
    <2> QED  BY <2>2, <2>3, <2>4 DEF TypeOK
  <1>12. ASSUME NEW k \in Keys, Age(k)  PROVE TypeOK'
    BY <1>12 DEF Age, TypeOK
  <1> QED
    BY <1>1, <1>3, <1>4, <1>7, <1>8, <1>9, <1>10, <1>11, <1>12 DEF Next, Attempt

-----------------------------------------------------------------------------

LEMMA InvInit == Init => Inv
  <1> SUFFICES ASSUME Init PROVE Inv
    OBVIOUS
  <1>1. TypeOK
    <2>1. 0 \in 0 .. MaxRetries /\ Start \in 1 .. AtLeast(Start, Hi)
      BY TeamAssumption DEF AtLeast, TeamAssumption
    <2> QED  BY <2>1, Constants DEF Init, TypeOK
  <1>2. \A j \in Jobs : pc[j] = "planned"  BY DEF Init
  <1>3. SlotsAreCounted
    <2>1. \A r \in Runs : {j \in JobsOf(r) : pc[j] \in {"working", "backoff"}} = {}
      BY <1>2 DEF JobsOf
    <2>2. Cardinality({}) = 0  BY FS_EmptySet
    <2>3. \A r \in Runs : active[r] = 0  BY DEF Init
    <2>4. 0 <= MaxWorkers  BY TeamAssumption DEF TeamAssumption
    <2> QED  BY <2>1, <2>2, <2>3, <2>4 DEF SlotsAreCounted
  <1>4. OnlyCancelledLeaks  BY DEF Init, OnlyCancelledLeaks
  <1>5. Burst /\ OneAtAFile /\ WavesInOrder
    BY <1>2 DEF Burst, OneAtAFile, WavesInOrder, AtWork, Claiming
  <1> QED  BY <1>1, <1>3, <1>4, <1>5 DEF Inv

LEMMA InvNext == Inv /\ [Next]_vars => Inv'
  <1> SUFFICES ASSUME Inv, [Next]_vars PROVE Inv'
    OBVIOUS
  <1>1. CASE Next
    BY <1>1, TypeStep, BurstStep, OneAtAFileStep, WavesInOrderStep, SlotsStep, LeaksStep
       DEF Inv
  <1>2. CASE UNCHANGED vars
    BY <1>2 DEF vars, Inv, TypeOK, Burst, OneAtAFile, WavesInOrder, SlotsAreCounted,
                OnlyCancelledLeaks, AtWork, JobsOf
  <1> QED  BY <1>1, <1>2

\* Everything below holds in every reachable state, for any number of runs.
THEOREM Invariance == Spec => []Inv
  BY InvInit, InvNext, PTL DEF Spec

\* Types: a job has a wave as soon as its coroutine exists, claims are filed
\* under the key of the job that made them, and the limit stays in its range.
THEOREM TypeCorrect == Spec => []TypeOK
  <1>1. Inv => TypeOK  BY DEF Inv
  <1> QED  BY <1>1, Invariance, PTL

\* Two workers of one run never have a file in common.
THEOREM FilesAreExclusive == Spec => []OneAtAFile
  <1>1. Inv => OneAtAFile  BY DEF Inv
  <1> QED  BY <1>1, Invariance, PTL

\* Dependencies have ended before a job starts, unless a cycle was broken.
THEOREM WavesAreOrdered == Spec => []WavesInOrder
  <1>1. Inv => WavesInOrder  BY DEF Inv
  <1> QED  BY <1>1, Invariance, PTL

\* No failure, retry or cancellation loses or invents a slot.
THEOREM SlotsAreNeverLost == Spec => []SlotsAreCounted
  <1>1. Inv => SlotsAreCounted  BY DEF Inv
  <1> QED  BY <1>1, Invariance, PTL

\* Only cancelled runs leave claims and file ownership behind.
THEOREM NothingElseLeaks == Spec => []OnlyCancelledLeaks
  <1>1. Inv => OnlyCancelledLeaks  BY DEF Inv
  <1> QED  BY <1>1, Invariance, PTL
=============================================================================
