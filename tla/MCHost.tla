--------------------------------- MODULE MCHost ---------------------------------
(***************************************************************************)
(* The threads and processes of one host, on small instances, with the      *)
(* fairness that the code gives each of them: three threads at the lock, one *)
(* with a timeout; three pipelines; two requests in five ticks, with a 429   *)
(* that asks for two ticks or for nothing; three supervisors; two jobs and   *)
(* two commands; and two callers of a link with three sockets.               *)
(* A behaviour shows one of them and leaves the others where they begin.     *)
(***************************************************************************)
EXTENDS Host, TLC

VARIABLE
    service \* the one that moves

(* The default pipeline, one whose roles run side by side, and a cycle. *)
DefaultDeps ==
    [product_manager |-> {}, architect |-> {"product_manager"}, engineer |-> {"architect"},
     qa |-> {"engineer"}]

Diamond ==
    [DefaultDeps EXCEPT !.engineer = {"product_manager"}, !.qa = {"architect", "engineer"}]

Cycle == [DefaultDeps EXCEPT !.architect = {"product_manager", "engineer"}]

Whole(deps) == [roles |-> DOMAIN deps, deps |-> deps]

MCPlans == {Whole(DefaultDeps), Whole(Diamond), Whole(Cycle)}

-----------------------------------------------------------------------------

Services == {"lock", "pipeline", "limiter", "guard", "schedule", "link"}

MCInit ==
    /\ service \in Services
    /\ HostInit
    /\ service # "pipeline" => plan = Whole(DefaultDeps)

(* One hook runs at a time, and the words of qa are a refusal, which holds  *)
(* APPROVED too, an approval with or without REWORK, REWORK, or nothing.    *)
FewWords ==
    /\ hooks' <= 1
    /\ words' \in {{}, {"approval"}, {"rework"}, {"approval", "rework"}, {"refusal", "approval"}}

(* Only the lock is asked never to stop. *)
Rest ==
    /\ service # "lock"
    /\ UNCHANGED <<service, hostVars>>

MCNext ==
    \/ /\ service = "lock" /\ Next
       /\ UNCHANGED <<service, pipeline, limiter, guard, schedule, link>>
    \/ /\ service = "pipeline" /\ Pipe!Next /\ FewWords
       /\ UNCHANGED <<service, vars, limiter, guard, schedule, link>>
    \/ /\ service = "limiter" /\ Limit!Next
       /\ UNCHANGED <<service, vars, pipeline, guard, schedule, link>>
    \/ /\ service = "guard" /\ Guard!Next
       /\ UNCHANGED <<service, vars, pipeline, limiter, schedule, link>>
    \/ /\ service = "schedule" /\ Sched!Next
       /\ UNCHANGED <<service, vars, pipeline, limiter, guard, link>>
    \/ /\ service = "link" /\ Link!Next
       /\ UNCHANGED <<service, vars, pipeline, limiter, guard, schedule>>
    \/ Rest

MCSpec ==
    /\ MCInit
    /\ [][MCNext]_<<service, hostVars>>
    /\ Fairness
    /\ Pipe!Fairness /\ Guard!Fairness /\ Sched!Fairness /\ Link!Fairness

-----------------------------------------------------------------------------

(* What begins ends: a patient waiter gets the lock, a pipeline returns or   *)
(* raises, a start of the supervisor is decided, a job that is due is run,   *)
(* and a link that was lost is repaired or given up: see the modules.       *)
WhatBeginsEnds ==
    /\ StarvationFree
    /\ Pipe!EveryPipelineEnds /\ Guard!EveryStartEnds
    /\ Sched!DueJobsRun /\ Link!LossIsRepaired
=============================================================================
