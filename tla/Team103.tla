-------------------------------- MODULE Team103 --------------------------------
(***************************************************************************)
(* The scheduler of the engineer team (class Team103 in                    *)
(* app/team103/scheduler.py) with the registry of claims and file locks    *)
(* (DedupRegistry in app/v4/dedup.py).                                     *)
(*                                                                         *)
(* get_team103 (app/v4/wiring.py) keeps one team per engine, so concurrent *)
(* calls of run share the registry and the concurrency limit; the number   *)
(* of occupied slots is a local of each run.  A worker id is made of the   *)
(* position of a task and its role, so two runs have workers of the same   *)
(* id.                                                                     *)
(*                                                                         *)
(* One event loop executes everything.  The coroutines of a wave are       *)
(* scheduled together and each claims in its first step, so no other step  *)
(* comes between the claims of a wave.  The lock around the slot counter   *)
(* is never held across an await: looking at the limit and taking a slot   *)
(* are one step.                                                           *)
(***************************************************************************)
EXTENDS Integers, FiniteSets

CONSTANTS
    Runs,           \* calls of Team103.run
    Jobs,           \* the tasks of all runs, a job is one task of one run
    Run,            \* the run of a job
    Title,          \* the title of a job; depends_on names titles
    Needs,          \* the titles that a job depends on
    Files,          \* the files that a job declares
    Worker,         \* the id of the worker of a job
    None,           \* no job, no worker
    Start, Hi,      \* the concurrency limit: initial and greatest value
    MaxWorkers,
    MaxRetries,
    Cancellable     \* the runs that may be cancelled

Values(f) == {f[x] : x \in DOMAIN f}

Key(j) == <<Title[j], Files[j]>>
Keys == {Key(j) : j \in Jobs}
AllFiles == UNION Values(Files)

JobsOf(r) == {j \in Jobs : Run[j] = r}
Titles(S) == {Title[j] : j \in S}

ASSUME TeamAssumption ==
    /\ IsFiniteSet(Jobs)
    /\ Run \in [Jobs -> Runs] /\ DOMAIN Title = Jobs /\ DOMAIN Needs = Jobs
    /\ DOMAIN Files = Jobs /\ DOMAIN Worker = Jobs
    /\ None \notin Jobs /\ None \notin Values(Worker)
    /\ \A j, k \in Jobs : Run[j] = Run[k] /\ Worker[j] = Worker[k] => j = k
    /\ Start \in Nat \ {0} /\ Hi \in Nat \ {0} /\ MaxWorkers \in Nat \ {0}
    /\ MaxRetries \in Nat
    /\ Cancellable \subseteq Runs

VARIABLES
    planned,    \* the jobs in the waves of a run so far
    forced,     \* history: the jobs that got their wave because of a cycle
    pc,         \* where the coroutine of a job is
    tries,      \* failed attempts of a job
    claims,     \* claims: the job that claimed a key
    old,        \* the keys whose claims are older than stale_s
    owner,      \* file_owner: the worker that owns a file
    cache,      \* result_cache: the keys with a result
    active,     \* the occupied slots of a run
    cur,        \* _AIMD.cur
    cancelled   \* the runs that were cancelled

vars == <<planned, forced, pc, tries, claims, old, owner, cache, active, cur, cancelled>>

registry == <<claims, old, owner, cache>>

Over == {"done", "failed", "skipped", "cached", "cancelled"}
Claiming == {"waiting", "working", "backoff"}

AtWork(j) == pc[j] \in Claiming

Init ==
    /\ planned = [r \in Runs |-> {}]
    /\ forced = {}
    /\ pc = [j \in Jobs |-> "planned"]
    /\ tries = [j \in Jobs |-> 0]
    /\ claims = [k \in Keys |-> None]
    /\ old = {}
    /\ owner = [f \in AllFiles |-> None]
    /\ cache = {}
    /\ active = [r \in Runs |-> 0]
    /\ cur = Start
    /\ cancelled = {}

\* No wave is between its gather and its last claim.
Quiet == \A j \in Jobs : pc[j] # "created"

-----------------------------------------------------------------------------
(* _waves: computed beforehand in the code, wave by wave here. *)

Ready(r) ==
    {j \in JobsOf(r) \ planned[r] :
        Needs[j] \intersect Titles(JobsOf(r)) \subseteq Titles(planned[r])}

OpenWave(r, wave) ==
    /\ planned' = [planned EXCEPT ![r] = @ \union wave]
    /\ pc' = [j \in Jobs |-> IF j \in wave THEN "created" ELSE pc[j]]
    /\ UNCHANGED <<tries, registry, active, cur, cancelled>>

\* Faulty variant: the next wave starts when a job of the last one is done.
NextWaveEarly(r) ==
    /\ Quiet /\ r \notin cancelled
    /\ planned[r] = {} \/ \E j \in planned[r] : pc[j] \in Over
    /\ Ready(r) # {} /\ OpenWave(r, Ready(r)) /\ UNCHANGED forced

\* gather has returned: every coroutine of the wave before has ended.
\* If no job is ready, there is a cycle, and the one with the least priority
\* value is taken; priorities are not modelled.
NextWave(r) ==
    /\ Quiet /\ r \notin cancelled
    /\ \A j \in planned[r] : pc[j] \in Over
    /\ \/ Ready(r) # {} /\ OpenWave(r, Ready(r)) /\ UNCHANGED forced
       \/ /\ Ready(r) = {}
          /\ \E j \in JobsOf(r) \ planned[r] :
                OpenWave(r, {j}) /\ forced' = forced \union {j}

-----------------------------------------------------------------------------
(* DedupRegistry. *)

\* _sweep_stale, which try_claim calls first.
SweptClaims == [k \in Keys |-> IF k \in old THEN None ELSE claims[k]]

SweptOwner ==
    [f \in AllFiles |->
        IF \E k \in old : f \in Files[claims[k]] /\ owner[f] = Worker[claims[k]]
        THEN None ELSE owner[f]]

\* Faulty variant: file locks are not looked at.
LockedNever(j) == FALSE

Locked(j) == \E f \in Files[j] : SweptOwner[f] \notin {None, Worker[j]}

Refuse(j) ==
    /\ pc' = [pc EXCEPT ![j] = IF Key(j) \in cache THEN "cached" ELSE "skipped"]
    /\ claims' = SweptClaims
    /\ owner' = SweptOwner

Grant(j) ==
    /\ pc' = [pc EXCEPT ![j] = "waiting"]
    /\ claims' = [SweptClaims EXCEPT ![Key(j)] = j]
    /\ owner' = [f \in AllFiles |-> IF f \in Files[j] THEN Worker[j] ELSE SweptOwner[f]]

\* The first step of _one: try_claim.
Claim(j) ==
    /\ pc[j] = "created"
    /\ IF SweptClaims[Key(j)] # None \/ Locked(j) THEN Refuse(j) ELSE Grant(j)
    /\ old' = {}
    /\ UNCHANGED <<planned, forced, tries, cache, active, cur, cancelled>>

\* release drops the claim of the key, whoever made it.
Release(j) ==
    /\ claims' = [claims EXCEPT ![Key(j)] = None]
    /\ old' = old \ {Key(j)}
    /\ owner' = [f \in AllFiles |->
                    IF f \in Files[j] /\ owner[f] = Worker[j] THEN None ELSE owner[f]]

\* A claim gets older than stale_s (300 s; an attempt may take 600 s).  The
\* heartbeat in run is sent by "hb", which has no claim.
Age(k) ==
    /\ Quiet
    /\ claims[k] # None /\ k \notin old
    /\ old' = old \union {k}
    /\ UNCHANGED <<planned, forced, pc, tries, claims, owner, cache, active, cur, cancelled>>

-----------------------------------------------------------------------------
(* _one after the claim. *)

AtMost(m, n) == IF m < n THEN m ELSE n
AtLeast(m, n) == IF m > n THEN m ELSE n

Limit == AtLeast(1, AtMost(cur, MaxWorkers))

\* _acquire_slot
Admit(j) ==
    /\ Quiet
    /\ pc[j] = "waiting"
    /\ active[Run[j]] < Limit
    /\ active' = [active EXCEPT ![Run[j]] = @ + 1]
    /\ pc' = [pc EXCEPT ![j] = "working"]
    /\ UNCHANGED <<planned, forced, tries, registry, cur, cancelled>>

Leave(j) == active' = [active EXCEPT ![Run[j]] = @ - 1]

\* The engine returns in time: faster than 5 s, or slower.
Succeed(j) ==
    /\ Quiet
    /\ pc[j] = "working"
    /\ pc' = [pc EXCEPT ![j] = "done"]
    /\ \E more \in {1, 2} : cur' = IF cur < Hi THEN AtMost(Hi, cur + more) ELSE cur
    /\ cache' = cache \union {Key(j)}
    /\ Release(j) /\ Leave(j)
    /\ UNCHANGED <<planned, forced, tries, cancelled>>

\* A timeout or an exception, followed by the pause before the next attempt ...
Fault(j) ==
    /\ Quiet
    /\ pc[j] = "working" /\ tries[j] < MaxRetries
    /\ tries' = [tries EXCEPT ![j] = @ + 1]
    /\ pc' = [pc EXCEPT ![j] = "backoff"]
    /\ cur' = AtLeast(1, cur \div 2)
    /\ UNCHANGED <<planned, forced, registry, active, cancelled>>

Retry(j) ==
    /\ Quiet
    /\ pc[j] = "backoff"
    /\ pc' = [pc EXCEPT ![j] = "working"]
    /\ UNCHANGED <<planned, forced, tries, registry, active, cur, cancelled>>

\* Faulty variants: a failed job keeps its claim; a failed job keeps its slot.
FinalFaultClaimed(j) ==
    /\ Quiet
    /\ pc[j] = "working" /\ tries[j] = MaxRetries
    /\ pc' = [pc EXCEPT ![j] = "failed"]
    /\ cur' = AtLeast(1, cur \div 2)
    /\ Leave(j)
    /\ UNCHANGED <<planned, forced, tries, registry, cancelled>>

FinalFaultActive(j) ==
    /\ Quiet
    /\ pc[j] = "working" /\ tries[j] = MaxRetries
    /\ pc' = [pc EXCEPT ![j] = "failed"]
    /\ cur' = AtLeast(1, cur \div 2)
    /\ Release(j)
    /\ UNCHANGED <<planned, forced, tries, cache, active, cancelled>>

\* ... or by the end.
FinalFault(j) ==
    /\ Quiet
    /\ pc[j] = "working" /\ tries[j] = MaxRetries
    /\ pc' = [pc EXCEPT ![j] = "failed"]
    /\ cur' = AtLeast(1, cur \div 2)
    /\ Release(j) /\ Leave(j)
    /\ UNCHANGED <<planned, forced, tries, cache, cancelled>>

\* run is cancelled: every coroutine of the wave ends with CancelledError; the
\* slots are given back (finally), the claims are not.
Cancel(r) ==
    /\ Quiet
    /\ r \in Cancellable \ cancelled
    /\ \E j \in JobsOf(r) : AtWork(j)
    /\ cancelled' = cancelled \union {r}
    /\ pc' = [j \in Jobs |-> IF j \in JobsOf(r) /\ AtWork(j) THEN "cancelled" ELSE pc[j]]
    /\ active' = [active EXCEPT ![r] = 0]
    /\ UNCHANGED <<planned, forced, tries, registry, cur>>

Attempt(j) == Succeed(j) \/ Fault(j) \/ FinalFault(j)

Next ==
    \/ \E r \in Runs : NextWave(r) \/ Cancel(r)
    \/ \E j \in Jobs : Claim(j) \/ Admit(j) \/ Attempt(j) \/ Retry(j)
    \/ \E k \in Keys : Age(k)

Spec == Init /\ [][Next]_vars

\* The event loop runs what is due: wait_for ends every attempt, the pauses
\* end, and those who wait for a slot look again every millisecond.
FairSpec ==
    /\ Spec
    /\ \A r \in Runs : WF_vars(NextWave(r)) /\ WF_vars(\E j \in JobsOf(r) : Admit(j))
    /\ \A j \in Jobs : WF_vars(Claim(j)) /\ WF_vars(Attempt(j)) /\ WF_vars(Retry(j))

-----------------------------------------------------------------------------

\* Types; what has been planned and what has not.
TypeOK ==
    /\ planned \in [Runs -> SUBSET Jobs]
    /\ \A r \in Runs : planned[r] \subseteq JobsOf(r)
    /\ forced \subseteq Jobs
    /\ pc \in [Jobs -> {"planned", "created"} \union Claiming \union Over]
    /\ \A j \in Jobs : pc[j] = "planned" <=> j \notin planned[Run[j]]
    /\ tries \in [Jobs -> 0 .. MaxRetries]
    /\ claims \in [Keys -> Jobs \union {None}]
    /\ \A k \in Keys : claims[k] # None => Key(claims[k]) = k
    /\ old \subseteq {k \in Keys : claims[k] # None}
    /\ owner \in [AllFiles -> Values(Worker) \union {None}]
    /\ cache \subseteq Keys
    /\ active \in [Runs -> Nat]
    /\ cur \in 1 .. AtLeast(Start, Hi)
    /\ cancelled \subseteq Cancellable

\* Two workers of one run are never at work on the same file, although all of
\* a wave start at once, and although another run has workers of the same ids
\* and releases what they own ("file-conflict serialization").
OneAtAFile ==
    \A j, k \in Jobs :
        j # k /\ Run[j] = Run[k] /\ AtWork(j) /\ AtWork(k) => Files[j] \intersect Files[k] = {}

\* A job starts only after jobs with the titles it depends on have ended,
\* unless a cycle had to be broken for it.
WavesInOrder ==
    \A j \in Jobs \ forced :
        pc[j] # "planned" =>
            \A t \in Needs[j] \intersect Titles(JobsOf(Run[j])) :
                \E k \in JobsOf(Run[j]) : Title[k] = t /\ pc[k] \in Over

\* The slots that a run counts as occupied are those of its workers, so that
\* failures, retries and cancellations never wedge the pool; and they never
\* exceed the pool.
SlotsAreCounted ==
    \A r \in Runs :
        /\ active[r] = Cardinality({j \in JobsOf(r) : pc[j] \in {"working", "backoff"}})
        /\ active[r] <= MaxWorkers

\* What is claimed, and every owned file, belongs to a worker at work, or to
\* a run that was cancelled: only a cancelled run leaves anything behind that
\* makes later jobs be skipped.
OnlyCancelledLeaks ==
    /\ \A k \in Keys :
        claims[k] # None => AtWork(claims[k]) \/ Run[claims[k]] \in cancelled
    /\ \A f \in AllFiles :
        owner[f] # None =>
            \E j \in Jobs : /\ Worker[j] = owner[f] /\ f \in Files[j]
                            /\ AtWork(j) \/ Run[j] \in cancelled

\* Every run that is not cancelled ends, with an answer for every task.
EveryRunEnds ==
    \A r \in Runs : <>(r \in cancelled \/ \A j \in JobsOf(r) : pc[j] \in Over)
=============================================================================
