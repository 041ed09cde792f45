---------------------------------- MODULE Cron -----------------------------------
(***************************************************************************)
(* The scheduler of app/cron.py: a process that runs the jobs that are due, *)
(* and the commands that add, remove and trigger jobs, each a process of    *)
(* its own with its own copy of the one file that they share.               *)
(*                                                                         *)
(* Time is a number of slots: a job is due when its slot has come, and its  *)
(* next one is the slot after.  A file that is being written is empty.      *)
(***************************************************************************)
EXTENDS Naturals

CONSTANTS
    Jobs,
    Commands,  \* processes of the command line
    Scheduler, \* the process of run_forever
    Together,  \* whether commands run beside the scheduler and each other
    TornFiles, \* whether a process may die while it writes
    MaxTime,   \* bound: slots
    MaxKills,  \* bound: deaths of the scheduler
    None       \* no job

(* What the constants must be. *)
CronAssumption ==
    /\ Scheduler \notin Commands
    /\ Together \in BOOLEAN /\ TornFiles \in BOOLEAN
    /\ MaxTime \in Nat /\ MaxKills \in Nat
    /\ None \notin Nat

Processes == Commands \union {Scheduler}

VARIABLES
    now,       \* the slot it is
    file,      \* next_run of each job in the file
    memory,    \* the same in _jobs of each process
    at,        \* where each process is
    order,     \* what each command is to do
    tasked,    \* the jobs whose task is created and has not begun
    inflight,  \* _inflight
    agents,    \* for each job, how many of its agents run
    last,      \* the slot of each job's last run, None before the first
    wanted,    \* the jobs that were added and not removed
    kills

vars == <<now, file, memory, at, order, tasked, inflight, agents, last, wanted, kills>>

NoJobs == [j \in Jobs |-> None]

Init ==
    /\ now = 0
    /\ file = NoJobs
    /\ memory = [p \in Processes |-> NoJobs]
    /\ at = [p \in Processes |-> "out"]
    /\ order = [c \in Commands |-> None]
    /\ tasked = {} /\ inflight = {}
    /\ agents = [j \in Jobs |-> 0]
    /\ last = [j \in Jobs |-> None]
    /\ wanted = {}
    /\ kills = 0

Goto(p, place) == at' = [at EXCEPT ![p] = place]

Apart(p) == Together \/ \A q \in Processes \ {p} : at[q] \in {"out", "gone"}

(* _load_jobs, when a process starts. *)
Load(p) ==
    /\ Apart(p)
    /\ memory' = [memory EXCEPT ![p] = file]

(* _save_jobs overwrites the whole file: it is empty for a while. *)
Truncate(p, jobs) ==
    /\ memory' = [memory EXCEPT ![p] = jobs]
    /\ file' = NoJobs

-----------------------------------------------------------------------------
(* The commands.                                                           *)

taskVars == <<tasked, inflight, agents, last>>

CommandStarts(c) ==
    /\ at[c] = "out"
    /\ \E what \in {"add", "remove", "trigger"} : \E j \in Jobs :
        order' = [order EXCEPT ![c] = [what |-> what, job |-> j]]
    /\ Load(c)
    /\ Goto(c, "loaded")
    /\ UNCHANGED <<now, file, taskVars, wanted, kills>>

Change(c) ==
    /\ at[c] = "loaded"
    /\ LET j == order[c].job
       IN  \/ /\ order[c].what = "add"
              /\ Truncate(c, [memory[c] EXCEPT ![j] = now + 1])
              /\ Goto(c, "writing")
           \/ /\ order[c].what = "remove" /\ memory[c][j] # None
              /\ Truncate(c, [memory[c] EXCEPT ![j] = None])
              /\ Goto(c, "writing")
           \/ /\ order[c].what = "remove" /\ memory[c][j] = None
              /\ Goto(c, "gone")
              /\ UNCHANGED <<file, memory>>
           \/ \* the job is due, in the memory of a process that ends
              /\ order[c].what = "trigger"
              /\ memory' = [memory EXCEPT ![c][j] = IF @ = None THEN None ELSE now]
              /\ Goto(c, "gone")
              /\ UNCHANGED file
    /\ UNCHANGED <<now, order, taskVars, wanted, kills>>

CommandEnds(c) ==
    /\ at[c] = "writing"
    /\ file' = memory[c]
    /\ wanted' = IF order[c].what = "add" THEN wanted \union {order[c].job}
                 ELSE wanted \ {order[c].job}
    /\ Goto(c, "gone")
    /\ UNCHANGED <<now, memory, order, taskVars, kills>>

-----------------------------------------------------------------------------
(* run_forever and _run_job.                                               *)

Boot ==
    /\ at[Scheduler] = "out"
    /\ Load(Scheduler)
    /\ Goto(Scheduler, "sleeping")
    /\ UNCHANGED <<now, file, order, taskVars, wanted, kills>>

DueJobs == {j \in Jobs : memory[Scheduler][j] # None /\ memory[Scheduler][j] <= now}

(* Faulty: no look at what is in flight. *)
TickAnyway ==
    /\ at[Scheduler] = "sleeping" /\ tasked = {}
    /\ DueJobs # {}
    /\ tasked' = DueJobs
    /\ inflight' = inflight \union DueJobs
    /\ UNCHANGED <<now, file, memory, at, order, agents, last, wanted, kills>>

(* The tasks of one pass begin before the next pass. *)
Tick ==
    /\ at[Scheduler] = "sleeping" /\ tasked = {}
    /\ DueJobs \ inflight # {}
    /\ tasked' = DueJobs \ inflight
    /\ inflight' = inflight \union DueJobs
    /\ UNCHANGED <<now, file, memory, at, order, agents, last, wanted, kills>>

(* Faulty: the time is set after the run. *)
BeginUnsaved(j) ==
    /\ at[Scheduler] = "sleeping" /\ j \in tasked
    /\ tasked' = tasked \ {j}
    /\ agents' = [agents EXCEPT ![j] = @ + 1]
    /\ memory' = [memory EXCEPT ![Scheduler][j] = now + 1]
    /\ last' = [last EXCEPT ![j] = now]
    /\ UNCHANGED <<now, file, at, order, inflight, wanted, kills>>

(* The next slot is saved before the agent starts. *)
Begin(j) ==
    /\ at[Scheduler] = "sleeping" /\ j \in tasked
    /\ tasked' = tasked \ {j}
    /\ Truncate(Scheduler, [memory[Scheduler] EXCEPT ![j] = now + 1])
    /\ agents' = [agents EXCEPT ![j] = @ + 1]
    /\ last' = [last EXCEPT ![j] = now]
    /\ Goto(Scheduler, "writing")
    /\ UNCHANGED <<now, order, inflight, wanted, kills>>

(* Faulty: jobs that have an agent are left out. *)
SavedPartly ==
    /\ at[Scheduler] = "writing"
    /\ file' = [j \in Jobs |-> IF agents[j] > 0 THEN None ELSE memory[Scheduler][j]]
    /\ Goto(Scheduler, "sleeping")
    /\ UNCHANGED <<now, memory, order, taskVars, wanted, kills>>

Saved ==
    /\ at[Scheduler] = "writing"
    /\ file' = memory[Scheduler]
    /\ Goto(Scheduler, "sleeping")
    /\ UNCHANGED <<now, memory, order, taskVars, wanted, kills>>

(* Faulty: the job stays in flight. *)
FinishStuck(j) ==
    /\ at[Scheduler] = "sleeping" /\ agents[j] > 0
    /\ agents' = [agents EXCEPT ![j] = @ - 1]
    /\ UNCHANGED <<now, file, memory, at, order, tasked, inflight, last, wanted, kills>>

(* The agent ends, well or not, with its deliveries and its clean-up. *)
Finish(j) ==
    /\ at[Scheduler] = "sleeping" /\ agents[j] > 0
    /\ agents' = [agents EXCEPT ![j] = @ - 1]
    /\ inflight' = inflight \ {j}
    /\ UNCHANGED <<now, file, memory, at, order, tasked, last, wanted, kills>>

(* The scheduler is stopped or killed: its agents die with it. *)
Die ==
    /\ at[Scheduler] # "out" /\ kills < MaxKills
    /\ TornFiles \/ at[Scheduler] # "writing"
    /\ kills' = kills + 1
    /\ Goto(Scheduler, "out")
    /\ tasked' = {} /\ inflight' = {}
    /\ agents' = [j \in Jobs |-> 0]
    /\ UNCHANGED <<now, file, memory, order, last, wanted>>

-----------------------------------------------------------------------------

Pass ==
    /\ now < MaxTime
    /\ now' = now + 1
    /\ UNCHANGED <<file, memory, at, order, taskVars, wanted, kills>>

Next ==
    \/ \E c \in Commands : CommandStarts(c) \/ Change(c) \/ CommandEnds(c)
    \/ Boot \/ Tick \/ Saved \/ Die \/ Pass
    \/ \E j \in Jobs : Begin(j) \/ Finish(j)

Spec == Init /\ [][Next]_vars

(* The scheduler's loop goes on, and agents end: their steps are bounded.  *)
Fairness ==
    WF_vars(Tick) /\ WF_vars(Saved) /\ \A j \in Jobs : WF_vars(Begin(j)) /\ SF_vars(Finish(j))

FairSpec == Spec /\ Fairness

-----------------------------------------------------------------------------

Contents == [Jobs -> (0..MaxTime + 1) \union {None}]

TypeOK ==
    /\ now \in 0..MaxTime
    /\ file \in Contents /\ memory \in [Processes -> Contents]
    /\ at \in [Processes -> {"out", "loaded", "writing", "sleeping", "gone"}]
    /\ \A c \in Commands : order[c] = None \/ order[c].job \in Jobs
    /\ tasked \subseteq inflight /\ inflight \subseteq Jobs
    /\ agents \in [Jobs -> Nat]
    /\ last \in [Jobs -> (0..MaxTime) \union {None}]
    /\ wanted \subseteq Jobs
    /\ kills \in 0..MaxKills

(* A job never has two agents ("two agents racing on one workspace"), also *)
(* when it runs for longer than its interval.                               *)
NoOverlap == \A j \in Jobs : agents[j] <= 1

(* A job runs once in a slot, however often the scheduler is restarted.    *)
OncePerSlot ==
    [][\A j \in Jobs : agents'[j] > agents[j] => last[j] = None \/ last[j] < now]_vars

(* The file has the jobs that were added and not removed, whenever nobody  *)
(* writes it ("Jobs are persisted to YAML and survive restarts").           *)
JobsSurvive ==
    (\A p \in Processes : at[p] # "writing") => {j \in Jobs : file[j] # None} = wanted

(* A job that is due in the scheduler is run, unless the scheduler dies.   *)
DueJobsRun == \A j \in Jobs : j \in DueJobs /\ at[Scheduler] # "out" ~> j \notin DueJobs \/ at[Scheduler] = "out"

-----------------------------------------------------------------------------
(* What the code does not keep, and no run checks: see README, section 6.  *)

(* A job is triggered where it runs ("Force a job to run on the next        *)
(* scheduler tick").                                                        *)
TriggerReaches ==
    [][\A c \in Commands :
          at[c] = "loaded" /\ at'[c] = "gone" /\ order[c].what = "trigger" /\ at[Scheduler] = "sleeping"
          /\ memory[Scheduler][order[c].job] # None
          => order[c].job \in DueJobs']_vars
=============================================================================
