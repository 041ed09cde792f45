-------------------------------- MODULE TaskDag --------------------------------
(***************************************************************************)
(* The plan of one journal task: the persistent task graph of              *)
(* app/task_dag.py (class TaskGraph), the planner that fills it            *)
(* (generate_plan in app/planner.py), the agent that works on it through   *)
(* the task_dag tool (app/tool/task_dag_tool.py), and a process that       *)
(* crashes and is resumed.                                                 *)
(*                                                                         *)
(* The tool loads the graph from the table task_nodes for every call and   *)
(* writes back only the row of the node it was called for; what            *)
(* _recompute_statuses changed in other nodes is lost and computed again.  *)
(* Then the progress lists are copied into the row of the task.  Calls of  *)
(* one agent are serial, so a call is one step up to its write, and the    *)
(* copy is another: the process may end in between.                        *)
(*                                                                         *)
(* Nodes are numbered in the order of created_at.                          *)
(***************************************************************************)
EXTENDS Naturals, FiniteSets, FiniteSetsExt

CONSTANTS
    Nodes,          \* 1 .. n: the planned nodes and those the agent may add
    Planned,        \* how many of them generate_plan creates
    Deps,           \* the depends_on of the planned nodes
    Priority,       \* the priority of every node, 1 (critical) .. 7
    Ghost,          \* an id that is no node's: depends_on is not validated
    None,           \* no row, no node
    MaxAttempts,    \* bound: how often a node is started
    MaxCrashes,     \* bound: how often the process dies
    MaxStrays       \* bound: how often the agent does what `next` does not suggest

\* _repair_plan and _heuristic_plan only look back, a node not at itself.
ASSUME PlanAssumption ==
    /\ IsFiniteSet(Nodes) /\ Nodes = 1 .. Cardinality(Nodes)
    /\ Planned \in Nodes
    /\ Deps \in [1 .. Planned -> SUBSET Nodes]
    /\ \A n \in 1 .. Planned : \A d \in Deps[n] : d < n
    /\ Priority \in [Nodes -> 1 .. 7]
    /\ Ghost \notin Nodes
    /\ MaxAttempts \in Nat /\ MaxCrashes \in Nat /\ MaxStrays \in Nat

VARIABLES
    rows,       \* task_nodes: a row or None for each node
    progress,   \* the completed nodes according to the row of the task
    phase,      \* what the process is doing
    at,         \* the step of the plan that is added or wired next
    strays,     \* history: how often the agent did what `next` did not suggest
    crashes     \* how often the process has died

vars == <<rows, progress, phase, at, strays, crashes>>

Statuses == {"pending", "ready", "active", "completed", "failed",
             "retryable", "skipped", "blocked"}

Row == [status : Statuses, deps : SUBSET (Nodes \union {Ghost}), attempts : Nat]

ASSUME RowAssumption == None \notin Row

Existing == {n \in Nodes : rows[n] # None}

Init ==
    /\ rows = [n \in Nodes |-> None]
    /\ progress = {}
    /\ phase = "adding"
    /\ at = 1
    /\ strays = 0
    /\ crashes = 0

-----------------------------------------------------------------------------
(* What a loaded graph says, once _recompute_statuses has been over it. *)

Is(n, statuses) == n \in Existing /\ rows[n].status \in statuses

\* The status that a pending or blocked node with these dependencies gets.
Recomputed(status, deps) ==
    IF \A d \in deps : Is(d, {"completed"}) THEN "ready"
    ELSE IF status = "pending" /\ \E d \in deps : Is(d, {"failed", "skipped"})
         THEN "blocked"
    ELSE status

Resolved(n) ==
    IF rows[n].status \in {"pending", "blocked"}
    THEN Recomputed(rows[n].status, rows[n].deps)
    ELSE rows[n].status

\* The nodes that depend on n, transitively: the least set closed under
\* "depends on n or on a member".
Dependents(n) ==
    {m \in Existing :
        \A S \in SUBSET Existing :
            (\A k \in Existing : rows[k].deps \intersect (S \union {n}) # {} => k \in S)
                => m \in S}

\* _unlock_value
UnlockValue(n) == Cardinality(Dependents(n))

\* Faulty variant: a retryable node is no candidate.
CandidatesUntried == {n \in Existing : Resolved(n) \in {"ready", "active", "pending"}}

Candidates ==
    {n \in Existing : Resolved(n) \in {"ready", "retryable", "active", "pending"}}

\* Faulty variant: the sort key has no unlock value.
PrecedesByPriority(m, n) ==
    LET active(k) == IF rows[k].status = "active" THEN 0 ELSE 1
    IN  \/ active(m) < active(n)
        \/ active(m) = active(n) /\ Priority[m] < Priority[n]
        \/ active(m) = active(n) /\ Priority[m] = Priority[n] /\ m < n

\* The sort key: what is active first, then what unblocks the most, ...
Precedes(m, n) ==
    LET active(k) == IF rows[k].status = "active" THEN 0 ELSE 1
    IN  \/ active(m) < active(n)
        \/ /\ active(m) = active(n)
           /\ \/ UnlockValue(m) > UnlockValue(n)
              \/ /\ UnlockValue(m) = UnlockValue(n)
                 /\ \/ Priority[m] < Priority[n]
                    \/ /\ Priority[m] = Priority[n]
                       /\ \/ rows[m].attempts < rows[n].attempts
                          \/ rows[m].attempts = rows[n].attempts /\ m < n

\* next_node returns n.
IsNext(n) ==
    /\ n \in Candidates
    /\ \A m \in Candidates \ {n} : Precedes(n, m)

-----------------------------------------------------------------------------
(* generate_plan and the process. *)

Write(n, row) == rows' = [rows EXCEPT ![n] = row]

\* First pass: add_node without dependencies; the node is ready at once.
AddPlanned ==
    /\ phase = "adding"
    /\ Write(at, [status |-> "ready", deps |-> {}, attempts |-> 0])
    /\ IF at = Planned THEN phase' = "wiring" /\ at' = 1
                       ELSE phase' = phase /\ at' = at + 1
    /\ UNCHANGED <<progress, strays, crashes>>

\* Second pass: update_node, which leaves the status alone.
Wire ==
    /\ phase = "wiring"
    /\ Write(at, [rows[at] EXCEPT !.deps = Deps[at]])
    /\ IF at = Planned THEN phase' = "syncing" /\ at' = 1
                       ELSE phase' = phase /\ at' = at + 1
    /\ UNCHANGED <<progress, strays, crashes>>

\* sync_to_task: the progress lists of the graph in memory.
Sync ==
    /\ phase = "syncing"
    /\ progress' = {n \in Existing : rows[n].status = "completed"}
    /\ phase' = "working"
    /\ UNCHANGED <<rows, at, strays, crashes>>

Crash ==
    /\ phase # "down"
    /\ crashes < MaxCrashes
    /\ crashes' = crashes + 1
    /\ phase' = "down"
    /\ UNCHANGED <<rows, progress, at, strays>>

\* /resume loads the graph.  If it has a node, nothing is planned again,
\* however far the planner got.
Resume ==
    /\ phase = "down"
    /\ phase' = IF Existing = {} THEN "adding" ELSE "working"
    /\ at' = 1
    /\ UNCHANGED <<rows, progress, strays, crashes>>

-----------------------------------------------------------------------------
(* The agent's calls of the task_dag tool.  `strays` counts the calls     *)
(* that are not about the node that `next` names, that give a node up, or  *)
(* that report the failure of one that has not been started.               *)

Suggested(this) ==
    IF this THEN UNCHANGED strays ELSE strays < MaxStrays /\ strays' = strays + 1

Working == phase = "working" /\ phase' = "syncing" /\ UNCHANGED <<progress, at, crashes>>

\* What was planned and lost by a crash may be added as well.
Add(n, deps) ==
    /\ Working
    /\ n \notin Existing /\ 1 .. n - 1 = Existing
    /\ Write(n, [status |-> Recomputed("pending", deps), deps |-> deps, attempts |-> 0])
    /\ UNCHANGED strays

\* start_node looks at the status in the row, and not at the dependencies.
Start(n) ==
    /\ Working
    /\ Is(n, {"pending", "ready", "retryable", "active"})
    /\ rows[n].attempts < MaxAttempts
    /\ Write(n, [status |-> "active", deps |-> rows[n].deps,
                 attempts |-> rows[n].attempts + 1])
    /\ Suggested(IsNext(n))

\* Faulty variant: what complete_node did before version 4.0.1.
UnmetUnlessBegun(n) ==
    {d \in rows[n].deps \intersect Existing :
        ~Is(d, {"completed", "skipped", "active", "retryable"})}

\* complete_node looks at the dependencies, and not at the node's own status.
\* An unknown id does not count; a refusal writes nothing.
Unmet(n) == {d \in rows[n].deps \intersect Existing : ~Is(d, {"completed", "skipped"})}

\* Faulty variant: the progress is recorded before the dependencies are checked.
CompleteReported(n) ==
    /\ phase = "working" /\ n \in Existing
    /\ progress' = progress \union {n}
    /\ phase' = "syncing"
    /\ IF Unmet(n) = {} THEN Write(n, [rows[n] EXCEPT !.status = "completed"])
                        ELSE UNCHANGED rows
    /\ Suggested(IsNext(n))
    /\ UNCHANGED <<at, crashes>>

Complete(n) ==
    /\ Working
    /\ n \in Existing
    /\ IF Unmet(n) = {} THEN Write(n, [rows[n] EXCEPT !.status = "completed"])
                        ELSE UNCHANGED rows
    /\ Suggested(IsNext(n))

\* fail_node and skip_node accept a node in any status.
Fail(n) ==
    /\ Working
    /\ n \in Existing
    /\ \/ /\ rows[n].attempts < MaxAttempts
          /\ Write(n, [rows[n] EXCEPT !.status = "retryable"])
          /\ Suggested(IsNext(n) /\ rows[n].status = "active")
       \/ Write(n, [rows[n] EXCEPT !.status = "failed"]) /\ Suggested(FALSE)

Skip(n) ==
    /\ Working
    /\ n \in Existing
    /\ Write(n, [rows[n] EXCEPT !.status = "skipped"])
    /\ Suggested(FALSE)

Planner == AddPlanned \/ Wire

Next ==
    \/ Planner \/ Sync \/ Crash \/ Resume
    \/ \E n \in Nodes :
        \/ \E deps \in SUBSET (Existing \union {Ghost}) : Add(n, deps)
        \/ Start(n) \/ Complete(n) \/ Fail(n) \/ Skip(n)

Spec == Init /\ [][Next]_vars

\* The loop of the agent goes on while the plan has unfinished nodes
\* (_plan_has_unfinished_work), and the user resumes what has died.
BeginNext == \E n \in Nodes : IsNext(n) /\ rows[n].status # "active" /\ Start(n)
FinishNext == \E n \in Nodes : IsNext(n) /\ rows[n].status = "active" /\ Complete(n)

FairSpec ==
    /\ Spec
    /\ WF_vars(Planner) /\ WF_vars(Sync) /\ WF_vars(Resume)
    /\ WF_vars(BeginNext) /\ WF_vars(FinishNext)

-----------------------------------------------------------------------------

\* Types; the rows are a prefix of the nodes and dependencies look back, so
\* there is no cycle whatever the agent adds and wherever the planner died.
TypeOK ==
    /\ rows \in [Nodes -> Row \union {None}]
    /\ \A n \in Existing : 1 .. n - 1 \subseteq Existing
    /\ \A n \in Existing : \A d \in rows[n].deps \ {Ghost} : d < n
    /\ progress \subseteq Existing
    /\ phase \in {"adding", "wiring", "syncing", "working", "down"}
    /\ at \in 1 .. Planned
    /\ strays \in 0 .. MaxStrays
    /\ crashes \in 0 .. MaxCrashes

Done(n) == \A d \in rows[n].deps \intersect Existing : rows[d].status = "completed"

\* While the agent works on what `next` names and gives nothing up, `next`
\* names a node whose dependencies are completed, although the planner leaves
\* every node "ready" and start_node looks at no dependency: what a node waits
\* for unblocks more nodes than the node itself (prioritized_order).
NextIsWorkable == strays = 0 => \A n \in Nodes : IsNext(n) => Done(n)

\* Such an agent never has a node completed, in work or up for a retry before
\* everything that the row of the node says it depends on is completed.
FinishedInOrder ==
    strays = 0 => \A n \in Existing :
        rows[n].status \in {"active", "retryable", "completed"} => Done(n)

\* A node that the row of the task lists as completed has at least been begun
\* according to its own row, wherever the process dies: the copy in the task
\* never runs ahead of the graph (sync_to_task comes after _persist).
NoFakeProgress ==
    \A n \in progress : ~Is(n, {"pending", "ready", "blocked"})

\* A dependency is never reported as finished by the completion of a node that
\* depends on it, and no node is completed over an unfinished dependency,
\* whatever the agent calls (the "fake completion" that complete_node refuses).
NoFakeCompletion ==
    [][\A n \in Existing :
         rows'[n] # rows[n] /\ rows'[n].status = "completed" =>
            /\ \A d \in rows[n].deps \intersect Existing : Is(d, {"completed", "skipped"})
            /\ \A d \in Existing \ {n} : rows'[d] = rows[d]]_vars

\* The agent that follows `next` and gives nothing up completes the plan, with
\* crashes anywhere, retries, and nodes added that depend on unknown ids.
PlanFinishes ==
    [](strays = 0) => <>(Existing # {} /\ \A n \in Existing : rows[n].status = "completed")
=============================================================================
