------------------------------ MODULE Orchestrator ------------------------------
(***************************************************************************)
(* A pipeline of roles on one event loop: run_pipeline of class            *)
(* MultiAgentOrchestrator in app/agent/orchestrator.py, from the check of   *)
(* the order of the roles to the result, with its events between stages,    *)
(* the bus of app/agent/roles/base_role.py, the time limit, the fallback to *)
(* a single agent and the callers' hooks.                                   *)
(*                                                                         *)
(* An action is what a task does between two awaits.  A role that runs is  *)
(* an agent of its own and may take any time.                              *)
(***************************************************************************)
EXTENDS Naturals, FiniteSets

CONSTANTS
    Plans,      \* the pipelines a caller may ask for: records of roles and deps
    MaxFaults,  \* bound: writes to the session database that fail
    None        \* no result yet

VARIABLES
    plan,       \* pipeline and deps
    phase,      \* where run_pipeline is
    at,         \* where the task of each role is
    result,     \* results, by role
    over,       \* the roles whose event is set
    listed,     \* the status of each role in pipeline_result.stages
    subscribed, \* the roles with a queue on the bus
    inbox,      \* for each role, the senders of what is in its queue
    heard,      \* for each role, the senders of what it found there
    published,  \* the roles that have put an artefact on the bus
    words,      \* what _derive_verdict can find in the output of the last role
    judged,     \* what the last role took its own output for
    hooks,      \* _hook_tasks that are not done
    timedOut,   \* pipeline_result.timed_out
    session,    \* the row of the session
    verdict,    \* the verdict of the result that was returned
    fallenBack, \* that result is the one of the single agent
    faults      \* failed writes so far

vars == <<plan, phase, at, result, over, listed, subscribed, inbox, heard, published, words,
          judged, hooks, timedOut, session, verdict, fallenBack, faults>>

(* Whom each role publishes to. *)
Addressees ==
    [product_manager |-> {"architect"}, architect |-> {"engineer"}, engineer |-> {"qa"},
     qa |-> {"product_manager", "architect", "engineer"}]

Roles == DOMAIN Addressees

(* What a role returns is free text: what it was asked for, a report that  *)
(* it could not do it ("ARCHITECT ERROR: ...", an escalation, an input that *)
(* was refused), or a text that begins like the error of a stage.           *)
Outputs == {"artefact", "report", "error"}

(* Whether it has published an artefact: not with a report of the architect *)
(* or on an input that it refused, and an incomplete one if it escalates.   *)
Sendings(r, out) ==
    IF out # "report" THEN {TRUE} ELSE IF r = "architect" THEN {FALSE} ELSE BOOLEAN

(* The words of a verdict: NOT APPROVED, REJECTED or DENIED; APPROVED, also *)
(* in NOT APPROVED; and REWORK.  They may stand anywhere in the text.       *)
Words == {"refusal", "approval", "rework"}

(* What the constants must be. *)
PipelineAssumption ==
    /\ Plans \subseteq [roles : SUBSET Roles, deps : [Roles -> SUBSET Roles]]
    /\ MaxFaults \in Nat
    /\ None \notin Outputs \union {"skipped", "completed", "approved", "rework"}

Init ==
    /\ plan \in Plans
    /\ phase = "sorting"
    /\ at = [r \in Roles |-> "out"]
    /\ result = [r \in Roles |-> None]
    /\ over = {}
    /\ listed = [r \in Roles |-> None]
    /\ subscribed = {}
    /\ inbox = [r \in Roles |-> {}]
    /\ heard = [r \in Roles |-> {}]
    /\ published = {} /\ words = {} /\ judged = None
    /\ hooks = 0
    /\ timedOut = FALSE
    /\ session = "running"
    /\ verdict = None
    /\ fallenBack = FALSE
    /\ faults = 0

said == <<published, words, judged>>

stageVars == <<at, result, over, listed, subscribed, inbox, heard, said, hooks>>

-----------------------------------------------------------------------------
(* Before the stages.                                                      *)

(* Kahn's algorithm: a dependency outside the pipeline counts in in_degree  *)
(* and never leaves it, so the roles it never takes are those that hold     *)
(* each other up, or that wait for an outsider.                             *)
Sorted ==
    plan.roles \ UNION {left \in SUBSET plan.roles :
        \A r \in left : ~(plan.deps[r] \subseteq plan.roles) \/ plan.deps[r] \intersect left # {}}

(* An outsider that depends on a role that is taken has no in_degree.       *)
Unknown == \E r \in Roles \ plan.roles : plan.deps[r] \intersect Sorted # {}

(* Only the cycle error closes the session; the KeyError is not expected.   *)
Refuse ==
    /\ phase = "sorting"
    /\ Unknown \/ Sorted # plan.roles
    /\ phase' = "raised"
    /\ session' = IF Unknown THEN session ELSE "error"
    /\ UNCHANGED <<plan, stageVars, timedOut, verdict, fallenBack, faults>>

(* Faulty: roles that subscribe only after their upstream is done. *)
LaunchUnsubscribed ==
    /\ phase = "sorting"
    /\ Sorted = plan.roles /\ ~Unknown
    /\ phase' = "stages"
    /\ at' = [r \in Roles |-> IF r \in plan.roles THEN "waiting" ELSE "out"]
    /\ UNCHANGED <<plan, result, over, listed, subscribed, inbox, heard, said, hooks, timedOut,
                   session, verdict, fallenBack, faults>>

(* The tasks are created, and each builds its role before it first waits. *)
Launch ==
    /\ phase = "sorting"
    /\ Sorted = plan.roles /\ ~Unknown
    /\ phase' = "stages"
    /\ at' = [r \in Roles |-> IF r \in plan.roles THEN "waiting" ELSE "out"]
    /\ subscribed' = plan.roles
    /\ UNCHANGED <<plan, result, over, listed, inbox, heard, said, hooks, timedOut, session,
                   verdict, fallenBack, faults>>

-----------------------------------------------------------------------------
(* The task of a role.  It goes on when run_pipeline no longer waits for it *)
(* because another one has raised.                                          *)

taskFree == <<plan, timedOut, session, verdict, fallenBack>>

Ready(r) == at[r] = "waiting" /\ plan.deps[r] \intersect plan.roles \subseteq over

(* Faulty: it asks the list of stages. *)
FailedStages(r) == {d \in plan.deps[r] : listed[d] = "error"}

FailedDeps(r) == {d \in plan.deps[r] : result[d] = "error"}

Goto(r, place) == at' = [at EXCEPT ![r] = place]

Hook == hooks' \in {hooks, hooks + 1}

(* A failed dependency: the stage is listed as skipped, and the task returns *)
(* without having reached the try that sets the event.                       *)
Skip(r) ==
    /\ Ready(r) /\ FailedDeps(r) # {}
    /\ result' = [result EXCEPT ![r] = "skipped"]
    /\ listed' = [listed EXCEPT ![r] = "skipped"]
    /\ Goto(r, "skipping")
    /\ UNCHANGED <<taskFree, phase, over, subscribed, inbox, heard, said, hooks, faults>>

(* The hook of the start, the input, and the drain of the inbox. *)
Start(r) ==
    /\ Ready(r) /\ FailedDeps(r) = {}
    /\ Hook
    /\ heard' = [heard EXCEPT ![r] = inbox[r]]
    /\ inbox' = [inbox EXCEPT ![r] = {}]
    /\ Goto(r, "running")
    /\ UNCHANGED <<taskFree, phase, result, over, listed, subscribed, said, faults>>

(* The verdict is looked for in the text of qa, whatever that is. *)
Says(r) == words' \in IF r = "qa" THEN SUBSET Words ELSE {words}

(* Its own judgement is what qa publishes. *)
Judges(r, sent) == judged' \in IF r = "qa" /\ sent THEN {"approved", "rework"} ELSE {judged}

(* The role publishes its artefact, if it does, and returns. *)
Return(r) ==
    /\ at[r] = "running"
    /\ \E out \in Outputs : \E sent \in Sendings(r, out) :
        /\ result' = [result EXCEPT ![r] = out]
        /\ published' = IF sent THEN published \union {r} ELSE published
        /\ inbox' = [to \in Roles |->
              IF sent /\ to \in Addressees[r] \intersect subscribed
              THEN inbox[to] \union {r} ELSE inbox[to]]
        /\ Judges(r, sent)
    /\ Says(r)
    /\ Goto(r, "noting")
    /\ UNCHANGED <<taskFree, phase, over, listed, subscribed, heard, hooks, faults>>

(* An exception of the role, or of the write of its output. *)
Fail(r) ==
    /\ \/ at[r] = "running" /\ UNCHANGED faults
       \/ at[r] = "noting" /\ faults < MaxFaults /\ faults' = faults + 1
    /\ result' = [result EXCEPT ![r] = "error"]
    /\ Says(r)
    /\ Goto(r, "failing")
    /\ UNCHANGED <<taskFree, phase, over, listed, subscribed, inbox, heard, published, judged, hooks>>

(* The output, or the error, is written: the stage is listed, with a hook. *)
End(r) ==
    /\ at[r] \in {"noting", "failing"}
    /\ listed' = [listed EXCEPT ![r] = IF at[r] = "noting" THEN "completed" ELSE "error"]
    /\ Hook
    /\ over' = over \union {r}
    /\ Goto(r, "out")
    /\ UNCHANGED <<taskFree, phase, result, subscribed, inbox, heard, said, faults>>

Skipped(r) ==
    /\ at[r] = "skipping"
    /\ Goto(r, "out")
    /\ UNCHANGED <<taskFree, phase, result, over, listed, subscribed, inbox, heard, said, hooks,
                   faults>>

(* The write of an error or of a skip fails: gather raises, and the other   *)
(* tasks are left to themselves.                                            *)
Raise(r) ==
    /\ at[r] \in {"failing", "skipping"}
    /\ faults < MaxFaults
    /\ faults' = faults + 1
    /\ over' = IF at[r] = "failing" THEN over \union {r} ELSE over
    /\ Goto(r, "out")
    /\ phase' = IF phase = "stages" THEN "raising" ELSE phase
    /\ UNCHANGED <<taskFree, result, listed, subscribed, inbox, heard, said, hooks>>

Task(r) ==
    Skip(r) \/ Start(r) \/ Return(r) \/ Fail(r) \/ End(r) \/ Skipped(r) \/ Raise(r)

-----------------------------------------------------------------------------
(* The end of run_pipeline.                                                *)

Busy == {r \in plan.roles : at[r] # "out"}

Gathered ==
    /\ phase = "stages" /\ Busy = {}
    /\ phase' = "closing"
    /\ UNCHANGED <<plan, stageVars, timedOut, session, verdict, fallenBack, faults>>

(* Faulty: a limit on the roles that work. *)
TimeOutOfWork ==
    /\ phase = "stages" /\ \E r \in Busy : at[r] = "running"
    /\ phase' = "closing"
    /\ timedOut' = TRUE
    /\ over' = over \union {r \in Busy : at[r] \in {"running", "noting", "failing"}}
    /\ at' = [r \in Roles |-> "out"]
    /\ UNCHANGED <<plan, result, listed, subscribed, inbox, heard, said, hooks, session, verdict,
                   fallenBack, faults>>

(* The time limit cancels all tasks; those in the try set their events. *)
TimeOut ==
    /\ phase = "stages" /\ Busy # {}
    /\ phase' = "closing"
    /\ timedOut' = TRUE
    /\ over' = over \union {r \in Busy : at[r] \in {"running", "noting", "failing"}}
    /\ at' = [r \in Roles |-> "out"]
    /\ UNCHANGED <<plan, result, listed, subscribed, inbox, heard, said, hooks, session, verdict,
                   fallenBack, faults>>

(* Faulty: it looks at the time last. *)
VerdictInSpiteOfTime ==
    IF "refusal" \in words THEN "rework"
    ELSE IF "approval" \in words THEN "approved"
    ELSE IF timedOut THEN "timeout"
    ELSE "unknown"

(* Faulty: APPROVED is also found in NOT APPROVED. *)
VerdictOfAWord ==
    IF timedOut THEN "timeout"
    ELSE IF "approval" \in words THEN "approved"
    ELSE IF words # {} THEN "rework"
    ELSE "unknown"

(* _derive_verdict: a search of the text for the words of a verdict. *)
Verdict ==
    IF timedOut THEN "timeout"
    ELSE IF "refusal" \in words THEN "rework"
    ELSE IF "approval" \in words THEN "approved"
    ELSE IF "rework" \in words THEN "rework"
    ELSE IF \E r \in Roles : result[r] = "error" THEN "error"
    ELSE "unknown"

EngineerOk == listed["engineer"] = "completed"

(* Faulty: a session that is closed on the way to the result only. *)
CloseIfAllWell ==
    /\ phase \in {"closing", "raising"}
    /\ verdict' = Verdict
    /\ session' = IF phase = "raising" THEN session ELSE IF timedOut THEN "timeout" ELSE "finished"
    /\ phase' = IF phase = "raising" THEN "raised"
                ELSE IF "engineer" \in plan.roles /\ ~EngineerOk THEN "fallback"
                ELSE "hooks"
    /\ UNCHANGED <<plan, stageVars, timedOut, fallenBack, faults>>

(* The finally: verdict and session, whatever happened. *)
Close ==
    /\ phase \in {"closing", "raising"}
    /\ verdict' = Verdict
    /\ session' = IF timedOut THEN "timeout" ELSE "finished"
    /\ phase' = IF phase = "raising" THEN "raised"
                ELSE IF "engineer" \in plan.roles /\ ~EngineerOk THEN "fallback"
                ELSE "hooks"
    /\ UNCHANGED <<plan, stageVars, timedOut, fallenBack, faults>>

(* Everything but the hooks. *)
resultVars ==
    <<plan, at, result, over, listed, subscribed, inbox, heard, said, timedOut, session, faults>>

(* The single agent within its own time limit, with a session of its own:  *)
(* what it returns is approved, whoever has judged the pipeline, and the    *)
(* pipeline's own result is returned if it does not complete.              *)
Fallback ==
    /\ phase = "fallback"
    /\ \/ phase' = "hooks" /\ UNCHANGED <<verdict, fallenBack>>
       \/ phase' = "returned" /\ verdict' = "approved" /\ fallenBack' = TRUE
    /\ Hook
    /\ UNCHANGED resultVars

HookEnds ==
    /\ hooks > 0
    /\ hooks' = hooks - 1
    /\ UNCHANGED <<phase, resultVars, verdict, fallenBack>>

AwaitHooks ==
    /\ phase = "hooks" /\ hooks = 0
    /\ phase' = "returned"
    /\ UNCHANGED <<resultVars, hooks, verdict, fallenBack>>

Next ==
    \/ Refuse \/ Launch \/ Gathered \/ TimeOut \/ Close \/ Fallback \/ HookEnds \/ AwaitHooks
    \/ \E r \in Roles : Task(r)

Spec == Init /\ [][Next]_vars

(* The loop runs what is ready, the time limits expire, and hooks end.  A   *)
(* role need not, and nobody need ask for a pipeline.                       *)
Fairness ==
    /\ WF_vars(Gathered \/ Close \/ Fallback \/ AwaitHooks)
    /\ WF_vars(TimeOut) /\ WF_vars(HookEnds)

FairSpec == Spec /\ Fairness

-----------------------------------------------------------------------------

TypeOK ==
    /\ plan \in Plans
    /\ phase \in {"sorting", "stages", "raising", "closing", "fallback", "hooks", "returned",
                   "raised"}
    /\ at \in [Roles -> {"out", "waiting", "skipping", "running", "noting", "failing"}]
    /\ result \in [Roles -> Outputs \union {None, "skipped"}]
    /\ over \subseteq plan.roles /\ subscribed \subseteq plan.roles
    /\ listed \in [Roles -> {None, "completed", "error", "skipped"}]
    /\ inbox \in [Roles -> SUBSET Roles] /\ heard \in [Roles -> SUBSET Roles]
    /\ published \subseteq plan.roles /\ words \subseteq Words
    /\ judged \in {None, "approved", "rework"}
    /\ hooks \in Nat
    /\ timedOut \in BOOLEAN
    /\ session \in {"running", "finished", "timeout", "error"}
    /\ verdict \in {None, "timeout", "approved", "rework", "error", "unknown"}
    /\ fallenBack \in BOOLEAN
    /\ faults \in 0..MaxFaults

Ended == {"returned", "raised"}

(* A role works only on what its dependencies have returned: none of them  *)
(* has raised an exception, has returned a text that begins like an error,  *)
(* or was skipped, also when the write of a result failed after the result  *)
(* had been there ("an upstream ERROR must not flow downstream as if it      *)
(* were output").                                                          *)
Began == {r \in Roles : at[r] \in {"running", "noting", "failing"} \/ r \in over}

NoErrorFlowsDown ==
    \A r \in Began : \A d \in plan.deps[r] \intersect plan.roles :
        d \in over /\ result[d] \in {"artefact", "report"}

(* What a role has published to one that depends on it has arrived when    *)
(* that one starts ("every direct handoff was silently DROPPED").           *)
HandoffsArrive ==
    \A r \in Began : \A d \in plan.deps[r] :
        d \in published /\ r \in Addressees[d] => d \in heard[r]

(* A result that is said to be approved has grounds.  It is the pipeline's *)
(* own, and then its last role has used the word without a refusal, in time *)
(* and after the engineer, if there is one, had completed; or it is the one *)
(* of the single agent, and then the pipeline has an engineer that did not  *)
(* complete.                                                               *)
ApprovalHasGrounds ==
    verdict = "approved" =>
        IF fallenBack THEN "engineer" \in plan.roles /\ ~EngineerOk
        ELSE /\ ~timedOut /\ "approval" \in words /\ "refusal" \notin words
             /\ "engineer" \in plan.roles => EngineerOk

(* However a pipeline ends, its session is closed ("ANY exception (or       *)
(* cancellation) now still closes the orchestrator session").              *)
SessionIsClosed == phase \in Ended => session # "running"

(* Every pipeline that was launched ends, even if a role never does. *)
EveryPipelineEnds == phase = "stages" ~> phase \in Ended

-----------------------------------------------------------------------------
(* What the code does not keep, and no run checks: see README, section 6.  *)

(* A result that is approved was approved by qa ("The QA verdict is        *)
(* determined by": its own judgement).  A fallback is approved without it,  *)
(* and APPROVED is found in a text that qa takes for a demand of rework.    *)
QaHasApproved == verdict = "approved" => judged = "approved"

(* A role works only on what its dependencies were asked for ("an upstream *)
(* ERROR must not flow downstream as if it were output").  A report of an   *)
(* architect that failed is handed to the engineer.                        *)
OnlyArtefactsFlowDown ==
    \A r \in Began : \A d \in plan.deps[r] \intersect plan.roles : result[d] = "artefact"

(* Downstream of a failure every stage is skipped, unless time ran out     *)
(* ("Skip downstream stages of a failed dep").                              *)
NobodyIsStranded ==
    \A r \in plan.roles : at[r] = "waiting" =>
        \A d \in plan.deps[r] \intersect plan.roles : at[d] # "out" \/ d \in over

(* The hooks of a pipeline have ended when it returns ("await any pending   *)
(* hook tasks before returning").                                           *)
HooksAreAwaited == phase = "returned" => hooks = 0
=============================================================================
