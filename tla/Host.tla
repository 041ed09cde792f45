---------------------------------- MODULE Host -----------------------------------
(***************************************************************************)
(* The threads and processes of one host: the lock of a conversation        *)
(* (FIFOLock), a pipeline of roles (Orchestrator), the rate limiter of an    *)
(* endpoint (RateLimiter), the guard of the supervisor (Supervisor), the     *)
(* scheduler with its commands (Cron), and the link of a remote conversation *)
(* (RemoteLink), side by side in one state.                                 *)
(*                                                                         *)
(* They share no state: a step of one leaves the others as they are.  What   *)
(* each promises it keeps only if it is used in one way: the ways are named  *)
(* below (CommandsWait, CallersWait, QaIsLast), and those in which the code  *)
(* breaks its promise are in README, section 6.                              *)
(***************************************************************************)
EXTENDS FIFOLock

CONSTANTS
    Plans, MaxFaults,                                                     \* of the pipeline
    Caller, Rpm, Window, BaseBlock, MaxBlock, MaxPressure, RetryAfters,   \* of the limiter
    Procs,                                                                \* of the guard
    Jobs, Commands, Scheduler, Together, TornFiles, MaxTime, MaxKills,    \* of the scheduler
    Callers, Sockets, Patient, Polite, MaxAttempts,                       \* of the link
    None

VARIABLES
    plan, phase, roleAt, result, over, listed, subscribed, inbox, heard, published, words,
    judged, hooks, timedOut, session, verdict, fallenBack, faults,
    stamps, blocked, penalty, pressure, streak, calm, senderAt, left, recent,
    pidFile, written, procAt, alive,
    now, jobsFile, memory, processAt, commandOrder, tasked, inflight, agents, last, wanted,
    schedulerKills,
    state, ws, listens, repair, attempts, linkAt, closes, open, fresh, wished, outbox

pipeline ==
    <<plan, phase, roleAt, result, over, listed, subscribed, inbox, heard, published, words,
      judged, hooks, timedOut, session, verdict, fallenBack, faults>>
limiter == <<stamps, blocked, penalty, pressure, streak, calm, senderAt, left, recent>>
guard == <<pidFile, written, procAt, alive>>
schedule ==
    <<now, jobsFile, memory, processAt, commandOrder, tasked, inflight, agents, last, wanted,
      schedulerKills>>
link == <<state, ws, listens, repair, attempts, linkAt, closes, open, fresh, wished, outbox>>

hostVars == <<vars, pipeline, limiter, guard, schedule, link>>

-----------------------------------------------------------------------------

Pipe == INSTANCE Orchestrator WITH at <- roleAt

(* One caller. *)
Limit == INSTANCE RateLimiter WITH Callers <- {Caller}, at <- senderAt

(* One process starts at a time. *)
Guard == INSTANCE Supervisor WITH AtOnce <- FALSE, file <- pidFile, at <- procAt

Sched ==
    INSTANCE Cron WITH
        file <- jobsFile, at <- processAt, order <- commandOrder, kills <- schedulerKills

Link == INSTANCE RemoteLink WITH at <- linkAt

(* Commands run while the scheduler does not, one at a time, and no process *)
(* dies while it writes the file.                                           *)
CommandsWait == ~Together /\ ~TornFiles

(* Nobody connects, disconnects or sends while another connects.            *)
CallersWait == Patient

(* Nobody outside a pipeline depends on a role in it, and a pipeline that   *)
(* has qa ends with it: every role is one that qa depends on, at whatever   *)
(* distance.                                                               *)
QaIsLast ==
    \A p \in Plans :
        /\ \A r \in Pipe!Roles \ p.roles : p.deps[r] \intersect p.roles = {}
        /\ \A some \in SUBSET p.roles :
              "qa" \in some /\ (\A r \in some : p.deps[r] \intersect p.roles \subseteq some) =>
                  some = p.roles

ASSUME HostAssumption ==
    /\ Pipe!PipelineAssumption /\ QaIsLast
    /\ Limit!LimiterAssumption
    /\ Guard!SupervisorAssumption /\ Sched!CronAssumption /\ Link!LinkAssumption

-----------------------------------------------------------------------------

HostInit == Init /\ Pipe!Init /\ Limit!Init /\ Guard!Init /\ Sched!Init /\ Link!Init

HostNext ==
    \/ Next /\ UNCHANGED <<pipeline, limiter, guard, schedule, link>>
    \/ Pipe!Next /\ UNCHANGED <<vars, limiter, guard, schedule, link>>
    \/ Limit!Next /\ UNCHANGED <<vars, pipeline, guard, schedule, link>>
    \/ Guard!Next /\ UNCHANGED <<vars, pipeline, limiter, schedule, link>>
    \/ Sched!Next /\ UNCHANGED <<vars, pipeline, limiter, guard, link>>
    \/ Link!Next /\ UNCHANGED <<vars, pipeline, limiter, guard, schedule>>

HostSpec == HostInit /\ [][HostNext]_hostVars

-----------------------------------------------------------------------------

(* No error flows down a pipeline, what a role publishes has arrived when   *)
(* its successor starts, an approval has its grounds, and the session of a  *)
(* pipeline that has ended is closed: see Orchestrator.                     *)
PipelineIsSound ==
    /\ [](Pipe!TypeOK /\ Pipe!NoErrorFlowsDown /\ Pipe!HandoffsArrive)
    /\ [](Pipe!ApprovalHasGrounds /\ Pipe!SessionIsClosed)

(* The window of the limiter is kept until the server answers 429, its     *)
(* pauses are kept after that, the penalty has its cap, and nobody waits    *)
(* without need: see RateLimiter.                                           *)
WindowIsFair ==
    /\ [](Limit!TypeOK /\ Limit!WindowIsKeptWhileCalm /\ Limit!NoNeedlessWait)
    /\ Limit!PressureIsRespected

(* There is one supervisor, which has the file, and nobody is refused for   *)
(* a process that is dead: see Supervisor.                                  *)
GuardIsKept ==
    /\ [](Guard!TypeOK /\ Guard!OneSupervisor /\ Guard!HolderHasTheFile)
    /\ Guard!RefusedForTheLiving

(* A job is run once in its slot and never twice at a time, and no job is   *)
(* lost, if commands wait for the scheduler: see Cron.                      *)
JobsRunOnce ==
    /\ [](Sched!TypeOK /\ Sched!NoOverlap /\ Sched!JobsSurvive)
    /\ Sched!OncePerSlot

(* There is one socket, which is listened to, in a number of attempts that  *)
(* has its limit, and none after a disconnect, if callers wait for each      *)
(* other: see RemoteLink.                                                   *)
LinkIsKept == Link!TypeOK /\ Link!OpenIsHeard /\ Link!OneSocket /\ Link!DisconnectSticks
=============================================================================
