# A TLA+ model of SHS Code

SHS Code is a coding agent written in Python: a command line and an HTTP server
drive agents that call language models and run tools on a workspace.  Most of
its 1300 files are adapters.  What can go wrong in ways a unit test hardly
reaches is in a core: the loop of the agent with its memory, its journal and its
requests to a model; the life cycle of conversations, sessions and detached
runs; locks, executors and the processes that tools talk to; a background
queue, a crash-safe task graph, a team of workers and a pipeline of roles; the
services of a host; and webhooks, hooks and devices.  This directory models that core.  All paths below are
relative to `src/app/` unless they say otherwise.

Contents: 1 inventory, 2 modules and their code, 3 runs, 4 fairness, 5 proofs,
6 where the code and its words part, 7 what is not modelled, 8 plan.

## 1. Inventory

| Component | State | Operations | Interacts with | What is hard |
|---|---|---|---|---|
| Agent loop, `agent/base.py`, `agent/toolcall.py`, `cli.py` | agent state, steps, task id, plan graph, nudge counters, token budget | run, step, think, act, cancel, /resume, /new | memory, journal, model, tools | a shell that reads commands during a run; one agent for many prompts; death at any point |
| Message history, `schema.py`, `memory/short_term.py`, `compaction.py` | the list of messages, window, token budget | add, trim, sanitize, compact, replace tagged notes | agent loop, checkpoints | four cuts of one list, notes between calls and results |
| Model requests, `llm/llm.py`, `llm/credential_pool.py` | keys, model in use, two retry budgets | ask_tool and its retries, fallback | agent loop, rate limiter | loops that count different things |
| Journal, `state.py` | rows of tasks, checkpoint files | start, update, checkpoint, mark interrupted | agent loop, task graph, shell | outlives the process |
| Conversation, `conversation/base.py`, `local_conversation.py`, `state.py` | status machine, cancelled flag, event log | send_message, run, interrupt, resume, close | agent loop, event log | calls from several threads, stop against completion |
| Event log, `events/event_log.py` | a file of events, a count file | append, reindex, reopen | conversation | crash between two files |
| Sessions and detached runs, `server/main.py`, `daemon.py`, `db/session.py`, `cli.py` | rows of sessions, map of tasks, run registry | POST /run, cancel, detach, shutdown, boot recovery | agent loop, database, processes | runs in four kinds of process, deaths, restarts |
| Fair locks, `conversation/fifo_lock.py` | `_held`, `_owner`, a deque of events or futures | acquire (blocking, with timeout, or awaited), release | every caller of the conversation | timeouts against signals, cancellation of a waiter, hand-over |
| Tool executors, `parallel_executor/` | a thread pool or coroutines, one readers-writer lock per resource key, handles | execute, acquire_resources, acquire_resources_explicit, release_handle, force_release_resources | tools, lock manager | lock order, lock timeouts and retries, abandoned threads, forced release, release on another thread |
| Shell of the bash tool, `tool/bash.py` | one process, a lock, a pipe | execute, reset, cleanup | agent loop | output of a command that was given up |
| MCP client, `mcp/client.py` | a pipe to a server, a lock, request ids | _rpc, call_tool | MCP server | late, missing and foreign answers |
| Task queue, `task_queue.py` | SQLite rows, worker coroutines, `_active_tasks`, `_recent_prompts` | submit, resume_interrupted, worker, cancel_task, retry_task, save_checkpoint, cleanup | `cli.py` starts it, executors are agents | read-await-write of rows, crashes, restarts, crash loops |
| Task graph, `task_dag.py`, `planner.py`, `tool/task_dag_tool.py` | nodes in memory and in the journal, progress lists in the task's row | add, start, complete, fail, skip, next; the planner's two passes | journal, agent loop, resume | death between two writes, statuses that do not say what they seem to |
| Team of engineers, `team103/scheduler.py`, `v4/dedup.py` | waves, claims, file owners, result cache, slot counter, adaptive limit | run, one job with retries, try_claim, release, complete, sweep_stale | shared between runs of one process | conflicts, stale claims, cancellation, slots under a moving limit |
| Orchestrator, `agent/orchestrator.py`, `agent/roles/base_role.py` | a task and an event per role, bus, hooks, session, verdict | run_pipeline, fallback | roles are agents; database, bus | failing roles and writes, a time limit at any point |
| Rate limiter, `llm/rate_limiter.py` | stamps of a rolling window, a blocked-until time, an adaptive penalty | acquire, record_429, relax | requests to a model | time passes while callers sleep |
| Supervisor, `supervisor/lifecycle.py` | a PID file | acquire_guard, release_guard | several processes | starters that see one stale file |
| Scheduler daemon, `cron.py` | a YAML file of jobs, each process's copy, runs in flight | loop, run_job, add, remove, trigger | command line, agents | one file for several processes, overlapping runs, deaths |
| Remote conversation, `conversation/remote_conversation.py` | link state, sockets, a listener, a reconnection | connect, disconnect, close, send | a server | a loss at any await |
| Parallel dispatch, `v4/parallel_tools.py` | the results of a batch | dispatch of calls that only read | agent loop | results end in any order |
| Webhooks, `integrations/webhook_handler.py` | fingerprints, a bounded queue, a loop, tasks, results | handle, start_processing, stop_processing, on, off, clear_dedup | git providers, handlers | retries, a full queue, a stop against a get |
| Resolver, `integrations/resolver.py` | slots, cancellation events, results | resolve, cancel | webhooks, model, git providers | cancellation and timeout at every await |
| Hooks, `hooks/manager.py` | a dict of hooks, an index by event | register, unregister, configure, execute_hooks, shutdown | conversation, tools | hooks that come, go and are configured during an event |
| Device nodes, `nodes/manager.py` | a dict of nodes with sockets, in order of age | register, unregister, heartbeats, send_to_node, broadcast | canvas, devices | the dict changes under an iterator that awaits |
| Provider health, language-model clients, security, other integrations, storage, canvas, voice, desktop, sandboxes, skills, memory, observability | see `PROJECT.json` | | | sequential code, text or I/O |

How the parts interact.  The command line, or a request to the server, opens a
session and runs the agent loop.  In each step the loop saves a checkpoint in
the journal, repairs and cuts its messages, asks the model (through keys,
fallback and rate limiter), and executes the tool calls of the answer one by
one, or those that only read at the same time.  For long tasks the loop is gated
by the task graph: it does not accept an answer while the plan has unfinished
nodes, and after a crash the journal gives the plan back.  Work in the background
goes through the queue, whose executor is again an agent.  A team run splits a
task into jobs for concurrent engineers, which share one registry of claims and
files; the orchestrator runs a pipeline of roles, each of them an agent.  The
scheduler daemon starts agents at times.  Three packages are made for programs
that embed the agent, and nothing else in the repository calls them: a
conversation (with its remote twin) wraps an agent's steps in a status machine
and writes the event log, the fair locks serialise its callers, and the executors
of `parallel_executor/` lock what tools declare.  Webhooks, the resolver, hooks and
the registry of devices are made for such programs, too; the resolver is a
handler of webhooks, and conversations emit the events of hooks.

What makes each modelled part correct:

* the agent loop: the journal calls a task completed only if that was earned, and
  a death costs one step at most;
* the history: what the model is sent is well formed, the results of tools reach
  it, and the limits of the memory hold;
* a request to a model: it is sent a bounded number of times;
* the conversation: a stop is heeded, and the log accounts for the status and is
  as long as it says but for deaths;
* sessions: a row tells what became of its runs, and a cancel finds the run it is
  meant for;
* a lock: one holder, nobody overtaken or stranded, a patient waiter gets in;
* the executors: conflicting tools do not overlap, no lock outlives its call, no
  deadlock, every call gets a result;
* a shell, an MCP server: output and answers belong to the call that gets them,
  and calls that have a timeout end;
* the queue: no row is overwritten by an outdated copy, none is left running with
  nobody to run it, work is neither repeated nor lost across restarts, and only
  ends of the process count towards parking a task;
* the graph: nothing is completed over an unfinished dependency, the node
  suggested next can be worked on, progress is not invented by a crash, and
  the plan gets finished;
* the team: files exclusive, dependencies in order, slots never lost, nothing
  left claimed, every run ends;
* the pipeline: errors do not flow down, handoffs arrive, a result that is called
  approved has grounds for it, and every pipeline ends with its session closed;
* the limiter: windows and pauses are kept, and nobody waits without need;
* the supervisor: there is one, and stale files refuse nobody;
* the scheduler: jobs run once in a slot and never twice at a time, and none is
  lost;
* the remote link: one socket, which is listened to, repaired after a loss and
  gone after a disconnect;
* webhooks and the resolver: what is queued is handled once in its window and
  settled, slots are returned, and a cancellation in time is heeded;
* the hooks: no hook that was there all the time is passed by, and a denial stands;
* the devices: one node for each, and a broadcast that ends has tried every node
  that was there all the time.

Not every one of these holds of the code: section 6 says where they do not.
`PROJECT.json` lists every component with its status, and the hazards, each at
its line, with the properties that cover it or the reason why none does.

## 2. Modules and the code they model

| Module | Code | Extends or instantiates |
|---|---|---|
| `ModelCall` | ask_tool of `llm/llm.py` with keys and fallback | |
| `AgentRun` | run, think, act, the shell around them, and the rows and checkpoints of `state.py` | `ModelCall` |
| `History` | `schema.py` and `compaction.py` as operators on lists of messages; the messages that an agent keeps and sends | |
| `EventLog` | append, reindex and reopening of the log | |
| `Conversation` | `LocalConversation`, threads | `EventLog` |
| `Sessions` | rows, map of tasks and registry of runs | |
| `AgentWork` | agent, messages, conversation and registry in one state | `AgentRun`, `History`, `Conversation`, `Sessions` |
| `FairLock` | what a fair lock promises (abstract: an owner, and whom each waiter waits behind) | |
| `FIFOLock` | class FIFOLock, threads | |
| `AsyncFIFOLock` | class AsyncFIFOLock, tasks of one event loop | `FairLock`, by refinement |
| `ResourceLocks` | the readers-writer locks of `resource_lock.py` | |
| `ToolExecutor` | `ParallelToolExecutor.execute` on top of them | `ResourceLocks` |
| `AsyncExecutor` | `AsyncParallelToolExecutor.execute` on top of them | `ResourceLocks` |
| `Shell` | the persistent shell of `tool/bash.py` | |
| `McpClient` | _rpc and call_tool of `mcp/client.py` | |
| `Tools` | both executors, shell and MCP client in one state | `ToolExecutor`, `AsyncExecutor`, `Shell`, `McpClient` |
| `Backlog` | an at-least-once queue: what the task queue promises | |
| `TaskQueue` | class TaskQueue and the process around it | `Backlog`, by refinement |
| `TaskDag` | graph, tool and planner of one task, crash and resume | |
| `Team103` | Team103.run and the deduplicator | |
| `Orchestrator` | run_pipeline and the tasks of its roles | |
| `RateLimiter` | the limiter with the attempts that call it | |
| `Supervisor` | the guard of the PID file | |
| `Cron` | the scheduler, its file and the commands | |
| `RemoteLink` | the connection of a remote conversation | |
| `Webhooks` | reception, queue, loop and retries of events | |
| `Resolver` | resolve and cancel of one resolver | |
| `Hooks` | registry and execution of hooks | |
| `Nodes` | registry of devices and its senders | |
| `Host` | lock of threads, pipeline, limiter, guard, scheduler and link in one state | `FIFOLock`, `Orchestrator`, `RateLimiter`, `Supervisor`, `Cron`, `RemoteLink` |
| `Events` | lock of tasks, webhooks, resolver, hooks and devices in one state | `AsyncFIFOLock`, `Webhooks`, `Resolver`, `Hooks`, `Nodes` |
| `MC...` | constants of the runs; `MCAgentRun`, `MCTools`, `MCHost` and `MCEvents` choose one part of a composition at a time | |
| `AgentWork_proofs` | theorems about agent, requests, conversation, registry, messages | `AgentWork` |
| `Host_proofs` | theorems about the lock of threads and the five parts beside it | `Host` |
| `Events_proofs` | theorems about the lock of tasks and the four parts beside it | `Events` |
| `Tools_proofs` | theorems about the executor and the three parts beside it | `Tools` |
| `TaskQueue_proofs`, `TaskDag_proofs`, `Team103_proofs` | theorems about the module each names | that module |
| `QueueLemmas` | lemmas about sequences without duplicates, for both locks | |

**ModelCall, AgentRun.**  `status` and `saved` are the rows of tasks and
the checkpoints; both survive `Kill`.  `agent` is what outlives a step: its state,
the id of its task, whether it has a plan graph, the nudge counters, the reason
of the end, the token budget, and `work`, the number of steps its memory
contains.  `pc` is where run is: `Start` is the set-up with the row and the plan,
`Loop` the head of the loop with its limits, `Save` the checkpoint before each
step, `Think` and `Wire` the request (an overflow of the context is asked once
more), `Text`, `Batch`, `Tool` and `Terminate` the branches of act, `Verdict` and
`LastSave` the finally.  `Cancel`, `Resume`, `New` are commands of the shell,
which come at any place of a run; `Launch` is a start of the program, which
marks what it finds in progress as interrupted.  In `ModelCall` a request is in
the air (`send`) or asleep, `rate` and `generic` are its two budgets, and each
action is one branch of the handlers; keys cool down and come back.  A wait for
the limiter is part of a sleep.

**History.**  A message is a record of its kind, its calls and its size; what it says
is not there.  The first part is pure, with recursive functions that the prover can
reason about: `Sanitize` walks over a list and reports calls without a result directly behind them as unfinished,
`Trim`, `Window` and `Fit` are the two cuts of the memory, `Compacted` what
compact_messages leaves.  The second part is the actor: `Prompt`, `Step`, `Think` and
`Answer` add what run and think add, `Run` and what follows are the executions of
the calls of one answer (at the same time where they only read), with notes for
successes, failures, loops and denials; `Compress`, `Restart` and `Kill` are
/compress, /resume and a death.

**EventLog, Conversation.**  A log is the number of lines, the number in the count
file, and the count in memory; `append` writes the line, then the count, and a
`Crash` may come between.  `threadPc` says where each thread is in its call; the
steps of run, interrupt, resume, send_message and close are cut where the code
releases the interpreter between a check and a change, so two threads can both
pass a check.  `late` counts the steps that a thread began after its
conversation was stopped.

**Sessions.**  `row` is the status of each session, `order` the sessions by age, `tasks` the
server's map, `entry` the registry of detached runs.  A run has a home (server,
shell, detached by either), a session it was given and one it works on, which
may differ.  `PostRun`, `PostDetach`, `Detach` and `OneShot` start runs.  A run
without a session has a thread insert a row (`Create`, `made`) and learns after
that await which one it is (`Know`, `own`).  `PostCancel`, `Terminate` and `Stop`
cancel a run at any of its waits (`Cancellable`): in its set-up, before it knows its
session, at work, or in its finally before the close, which is shielded itself.
Only a run at work still closes its row; another is cut short (`how` is "cut").
`Stop`, `Down` and `Boot` are the lifespan of the server, whose boot calls rows
that seem to be left over interrupted.

**FIFOLock.**  `held`, `owner`, `waiters` and `signalled` are `_held`, `_owner`,
the deque and the set of events.  The code runs under a mutex, so one critical
section is one action: `AcquireFast` is the fast path, `Enqueue` the rest of that section, `Wake`
the return of `event.wait()`, `Expire` its timeout, `Withdraw` what an expired
waiter does under the mutex (it finds itself in the deque and leaves, or it was
signalled in between and takes the lock), `Take` the last section, and the two
release actions the branches of release.

**AsyncFIFOLock.**  A step is what runs between two awaits.  `release` pops
futures until one is not done and hands the lock over; `Cancel` cancels a task at
its await, before or after the grant; `Resume` and `ResumeCancelled` are what the
task does when the loop runs it.  A cancellation after the grant loses the lock:
the task ends, and no one releases.  The model has that outcome.

**FairLock.**  `owner` is a client, nobody, or one that vanished; `waiting` are
those that wait, and `ahead` says whom each of them waits behind.  There is no
queue: an owner hands over to a waiter with nobody ahead of it.  `Owner`,
`Waiting` and `Ahead` of `AsyncFIFOLock` compute the three from the tasks, their
futures and the deque.

**ResourceLocks, ToolExecutor.**  A lock is `reader_count`, the tracked readers,
and a writer; `Acquire` is one successful step of `_acquire_all` in key order,
`Block` the wait on the condition, `GiveUp` the expired wait with the undoing and
the retry, or the failure after `_retry_count` attempts; `DropReader` takes the first
entry of a reader out of the list, as `list.remove` does.  A call without a
timeout runs on a pool thread.  A call with one runs on a daemon thread while the
pool thread joins it: `Expire` ends the join, `ForceOne` releases one declared
key by force, `Abandon` reports the timeout; the daemon thread goes on.  Retry
pauses and time are left out.

**AsyncExecutor.**  A call is a coroutine that runs under a semaphore; its locks
are taken and given back by jobs on a pool of threads (`Take` and `Does`), and a
lock knows the thread that took it, not the call.  `TimeOut` cancels a coroutine
at an await; the job it waited for goes on.

**Shell, McpClient.**  A shell has an input of commands, a pipe of output lines,
a child that outlives it, and may die at any point; the command that reads up to
its mark is the one that holds the lock.  `Reset` is what a timeout and cleanup
do.  The client sends a request under a lock, reads a bounded number of lines
until the id fits, and gives up after a time; the server answers late, out of
turn or never, says other things in between, and may die.

**Tools.**  The executor, the executor of coroutines, the shell and the client in one
state.  They share no variables: what they share in the code is the class of the
locks, of which each executor has objects of its own.  The reset of the shell is not
cancelled here (`Impatient` of `Shell` is empty).

**TaskQueue.**  Each access to the database is an `asyncio.to_thread`, hence an
await.  An action therefore reads or writes once, and what has been read lives in
`copy` (the worker) or `op` (a user's operation) until the write.  `older` says of
each row which ones have an earlier `updated_at`.  `Crash` takes the memory and keeps the rows; stopping
cancels the workers.  Recovery re-queues what was running or paused and counts
interruptions, at start, before workers exist, as `cli.py` does.  `Stage` says
where in `Backlog` a task is: its row decides, and for a row that says running the
place of the worker that has the task in hand.  So an execution that has ended and is
not written down is `succeeded` or `broken`, one that nobody has any more is
`interrupted`, and only `Settle` makes a task `completed` or `failed` for good.
`recalled` is auxiliary, no guard reads it: the tasks that a user has ever begun to
cancel.  Of these `Backlog` promises nothing, of the others all it says, also while
tasks are cancelled beside them.

**TaskDag.**  `rows` is the journal; what is in memory is loaded from it by every
call of the tool, so it is not a variable of its own.  `AddPlanned` and `Wire` are
the passes of the planner, one write a step; `progress` is the copy in the task's
row, written by `Sync` after the node's row.  `prioritized_order` is modelled as
it is computed (what is active first, then the number of nodes that depend on a
node, priority, attempts and age), and `strays` counts the calls that the tool allows
but `next` did not suggest.

**Team103.**  All coroutines run on one loop.  `NextWave` is one round of `_waves`
with the start of its jobs, `Claim` is `sweep_stale` with `try_claim`, `Admit` the
wait for a slot, `Succeed`, `Fault`, `Retry` and `FinalFault` an attempt, `Age`
the passing of 300 s for a claim, `Cancel` the cancellation of run.  `Quiet`
expresses that the starts of a wave run in one go: gather schedules them together
and nothing comes between.

**Orchestrator.**  `phase` is where run_pipeline is, `at` where each role is: it
waits for the events of its dependencies, runs, notes its result, or fails.
`over` are the events that are set, `inbox` and `heard` the handoffs that were
published and received.  What a role returns is free text, of which the model
knows three kinds (`Outputs`): what the role was asked for, a report that it could
not do it, and a text that begins like the error of a stage; `published` are the
roles that have put an artefact on the bus.  `words` are the words of a verdict in
the text of qa, which `_derive_verdict` looks for whatever qa has decided itself;
that is `judged`, which qa only publishes.  `TimeOut` cancels what is still running.
`Fallback` returns the result of a single agent, which is approved (`fallenBack`),
or lets the pipeline's own stand.

**RateLimiter.**  `stamps` are the ages of the recorded requests; a tick ages
them.  A caller computes its wait once and sleeps it.  `recent` is what was really
sent in the last window, which the code does not know.

**Supervisor.**  A starter creates the file, inspects one that is there, removes it
if its creator is dead, and tries again; creation and the writing of the PID are
two steps, and a process dies at any of them.  With `AtOnce` FALSE one process
starts at a time.

**Cron.**  Every process loads the file once and saves all jobs from its own
memory.  `now` counts slots; a job that is due becomes an agent unless it is in
flight.  With `Together` a command runs beside the scheduler, with `TornFiles` a
death may come between the truncation and the write of the file.

**RemoteLink.**  `state`, `ws`, `listens` and `repair` are the fields of the
client, `open` the sockets that are really open.  With `Patient` callers wait for
each other, with `Polite` a server may close a socket in order.

**Webhooks, Resolver.**  `Receive` is handle after the checks of its request:
the fingerprint is noted, then there is room in the queue or not.  A loop takes an
event in the task that wait_for makes (`Get`) and starts its task (`Hand`); between
the two it may be cancelled, and the cancellation is lost.  `Try`, `Call` and
`Settle` are one try of `_process_event`, with the handlers that are registered
when it begins.  Its `window` is what was accepted since a fingerprint was
forgotten.  A resolution goes from await to await; `Finish` is the finally.

**Hooks, Nodes.**  An emitter has the names of the beginning (`todo`) and looks each
up when its turn comes; `heard` is what it was answered, `verdict` what the
aggregate makes of it, `steady` are the hooks that were registered, indexed and
enabled all the time.  `Configure` sets any attribute of a hook (`enabled`, and the
others in `attributes`) and rebuilds no index, so `sorted` keeps the priorities that the
index was built with, `rank` those an emitter began with, and `key` the name a hook
was registered under.  A node is an object, so that a device that comes back may have another one; `rest` is
what the iterator of a broadcast has before it, and `mutated` says that the
OrderedDict has changed, which raises unless the iterator is at its end.  From the
end of one send to the begin of the next nothing awaits, so that is one step.

**AgentWork.**  The agent, its messages, the conversation and the registry, each with
its own variables: a step of one leaves the others as they are.  Conversation and
registry keep files and objects that the others do not read.  `AgentRun` and
`History` are two views of the runs of an agent, one that counts steps and one that
keeps messages, and each leaves open what the other tells; they are not tied to
each other, so they stand for the runs of two agents.  It is the module that the
theorems about the four are about.

**Host.**  The lock of a conversation, a pipeline, a limiter, the guard, the scheduler
and a remote link, each with its own variables, as in `AgentWork`.  Each is used in
the way in which the code keeps what it promises: one caller of the limiter,
one starter at a time, commands while the scheduler is down and no death inside a
write (`CommandsWait`), callers of the link that wait for each other
(`CallersWait`); section 6 has the other ways.  The constants `Together`, `TornFiles`
and `Patient` decide, and a theorem that needs one of these names it.  Of the
pipelines it assumes that one which contains qa ends with it (`QaIsLast`); so does
the default one.

**Events.**  The lock of tasks, the reception of webhooks, a resolver, the hooks of a
conversation and the registry of devices, in the same way.  The calls of the resolver
have a request each (`Distinct` is TRUE; section 6 says what two of one id do), and
configuring a hook does not rename it (`NamesStay`, which the theorems name).

**MCAgentRun, MCTools, MCHost, MCEvents.**  A behaviour of these chooses one part and lets
the others stay where they begin; the theorems about `AgentWork`, `Tools`, `Host` and
`Events` are about every interleaving of the parts.  The parts share no variables, so nothing that
one of them does is lost; a property of a composite names the properties of the
parts that it stands for, and the comments on those are in their modules.  One
part of each is extended rather than instantiated (the agent's work, the executor,
the lock of threads, the lock of tasks), so its properties keep their names.

## 3. Runs

| Run | Instance | Distinct states | Shows |
|---|---|---|---|
| `fifo_lock_exclusion` | 3 threads, one with a timeout | violation | two threads inside |
| `executor` | `MCTools`: executor 3 calls, 2 keys, 3 pool threads, 2 attempts, no tool timeouts; coroutines 3 calls, 2 pool threads, 2 attempts, one timeout; shell 2 calls, 2 shells, 2 cancellations; MCP 2 requests, 2 lines, 2 other messages, 1 cancellation | 41878 | conflicts serialised, nothing held at the end, no deadlock; coroutines serialised and their read locks back, own output of one shell, own answers (`ToolsAreSafe`); ends (`ToolsAnswer`) |
| `executor_timed` | `MCTools`: executor 3 calls, 2 of them timed, 2 pool threads | 70425 | writers exclude readers, the batch ends |
| `executor_leak` | `MCTools`: executor 3 calls, 1 of them timed | violation | locks held after the end |
| `task_queue` | 2 tasks, 1 worker, cancel and retry, 2 ends of the process | 257918 | copies current, work neither lost nor repeated; refinement of `Backlog` (`IsBacklog`) |
| `task_queue_cancel` | same, only cancel, 1 end | violation | a cancelled task comes back |
| `task_dag` | 3 nodes, 2 attempts, 1 crash, 1 stray call | 159564 | order, progress, completion |
| `team103` | 2 runs, 5 jobs, 2 slots, limit from 1 to 2, 1 retry | 21130 | files, waves, slots, leftovers, end |
| `agent_run` | `MCAgentRun`: agent, request, history, conversation, registry; see below | 2331051 | requests end, a death costs a step, verdicts are earned, messages are valid, the memory keeps its limits and the last answer, logs and rows account for what happened |
| `memory_budget` | `History`: 1 prompt, answers of up to 2 calls, no faults, a budget of two results | violation | an answer whose calls never run |
| `host` | `MCHost`: lock of threads, 3 threads, one with a timeout (562 states); pipeline, limiter, guard, scheduler, link, see below | 101808 | no stranded waiter, sound queue; pipelines, windows, one supervisor, jobs once, one socket; what begins ends (`WhatBeginsEnds`): waits for the lock, pipelines, starts, jobs that are due, losses of the link |
| `events` | `MCEvents`: lock of tasks, 4 tasks, 2 may be cancelled (707 states); webhooks, resolver, hooks, nodes, see below | 108755 | refinement of `FairLock`; one holder, accepted events in one place, slots returned, denials stand, broadcasts reach (`EventsAreHandled`); waiters are served, what is queued is settled, resolutions and executions of hooks end (`EventsEnd`) |

The types of `FIFOLock`, `AsyncFIFOLock`, `TaskQueue`, `TaskDag`, `Team103` and
`AgentRun` are no properties of runs, since they are theorems (section 5).

Why the bounds are enough.

* Locks.  A newcomer, a holder and a woken waiter make barging possible; the
  third thread has the timeout, so that its expiry meets both.  The asyncio lock
  needs two cancelled futures in front of a live one, and a holder: four tasks.
* Executor.  `CrossedDecl` has two calls each of which writes what the other
  reads, the smallest set that deadlocks without the key order; the third call,
  a writer with an impatient wait, exercises the undoing and the retry of a
  partial acquisition.  In `executor_timed` the pool is smaller than the batch,
  and forced release meets a second reader of the same lock.
* Coroutines.  One call reads what the second writes and the third reads; the
  second is a plain function with a timeout.  With fewer pool threads than calls a
  lock is taken on one thread and given back on another.
* Shell and MCP client.  Two calls are one that gives up and one that comes
  after it; the second shell is the one after a reset.  Two lines and two other
  messages make the bound of lines bite.
* Task queue.  One worker is what `cli.py` starts.  `Before` is a row an earlier
  process left, so that recovery and submission overlap.  With `MaxInterrupts` 1
  and two ends of the process a task can be parked; the code's 5 needs six.
  `Operations` leaves out `save_checkpoint`, which nothing in the repository
  calls; the module has it, and section 6 says what it would do to `CopyIsCurrent`.
* Task graph.  Two planned nodes, the second before the first in priority, and a
  third that the agent may add with any dependencies (unknown ids included), so
  that suggested order and priorities disagree.  `MaxCrashes` 1 puts a death
  between any two writes, `MaxStrays` 1 one call out of order.
* Team.  Run `a` has two jobs in conflict over a file, a free one and a dependent
  one; run `b` has a job that depends on itself (a cycle), with a title, a file
  and a worker id of run `a`.  Two slots and the limit from 1 to 2 make the limit
  go both ways.  `EveryRunEnds` is about the runs nobody cancels.
* Agent (part of `agent_run`).  Two prompts of one shell show what outlives a
  run; two steps of up to two calls show what follows an accepted terminate; one
  nudge of each kind is used up and then missing; one command and one kill meet at
  any two places of one run (`FewInterrupts`); in a second run each comes alone.  Its
  requests end with an answer, an overflow or an error at once (`FewRetries`); the
  part `request` asks over and over (`AskAgain`) with two keys, two models and
  budgets of 3 and 2, so every loop meets every other.
* History.  Six messages are a block of two calls with its results, what comes
  before it and what is pinned, so that each cut can fall between a call and its
  result.  Six units of tokens are less than the results of two answers and are
  the room that `RoomForABatch` asks for, as the six messages are; in
  `memory_budget` the four units are the results of one answer.  `KeepLast` is 3, a
  batch has two calls of two attempts, and two faults (a failing tool, a denial, an overflow, a
  cancellation) meet in the first run of the first process; one meets a second run or
  a death, not both (`FewFaults`).
* Conversation.  One thread runs it, one stops, closes or reindexes, one sends a
  message or resumes; a death may come anywhere.  `MaxSteps` 2 lets a stop come
  between steps and in a step.
* Registry.  Two runs of any of the four homes on two ids are what is needed for
  one to take the other's place in a map, a row or a boot; one death and one boot.
  Cancellations have no bound: they may come at every wait of either run, and more
  than once.
* Pipeline.  The default pipeline, a diamond, and a cycle, with two failing
  writes; roles may fail or return what they like.  One hook runs at a time, and of
  the words of a verdict those combinations occur that the search tells apart
  (`FewWords`).
* Limiter.  One caller with two requests in a window of five ticks; a 429 with and
  without Retry-After, pauses of up to three ticks and three levels of pressure.
* Guard.  Three processes: the dead one that left the file, a holder and a
  starter.  They start one at a time (`AtOnce` FALSE): section 6 says why.
* Scheduler.  Two jobs and two commands, three slots of time, two deaths, with
  commands while the scheduler is down and whole files: section 6 again.
* Link.  Two callers and three sockets: the first, the one that takes its place,
  and the one that repairs it; three attempts.
* Webhooks.  Three deliveries for a queue of one: one is queued, one rejected, one
  is a duplicate of either.  Two handlers and one retry; one stop, one switch of a
  handler or one window that passes, and two loops for a start after a stop.
* Resolver.  Three resolutions for two slots, each with its own id: two of one id
  share a cancellation event, and section 6 says what becomes of it.
* Hooks.  One that fails open and may get another priority, so that it should come
  first; one that fails closed, comes first, and may be made to fail open; and one
  that takes the name of the first without subscribing, and may subscribe.  Any may
  be disabled and enabled.  Four changes are two registrations and two changes while
  an event is under way.
* Nodes.  Two devices, of which one comes back as a third node, two senders, and
  room for two nodes; one update, removal or timeout besides new registrations.

In place of symmetry sets, which are unsound with liveness, `MCAgentRun` and
`MCEvents` use names in order: the second task, run, session or sender is used after
the first, and the first delivery has the first fingerprint.

`CHECK_DEADLOCK FALSE` is set where the system really may stop: tasks that are
all cancelled or done, a plan that is finished, a team whose runs have ended, an
agent without prompts, a broadcast that is over.  In `executor` and `host` the step
`Rest` lets the other parts stop where they may, and deadlock is checked for the
executor and for the lock of threads.

Every property has a mutant: a definition of the model changed as a plausible bug
would change the code (`PROJECT.json`, "mutants"), under which the run fails.  The
mutated definitions stand beside the faithful ones, headed by "Faulty".

## 4. Fairness

Fairness is weak, unless it says otherwise, and is stated per action, beside the
specification.

* `FIFOLock`: a runnable thread runs and a critical section ends.  Nobody has to
  call acquire, and no wait has to time out.  A waiter's progress in spite of
  barging comes from the code: a woken waiter takes the lock without looking
  whether a newcomer has it, which is the reason for two holders as well.
* `AsyncFIFOLock`: the event loop runs tasks whose futures are done, and a body
  ends.  Cancellation is never obliged.  `Served`, in `EventsEnd`, assumes that no grant
  is cancelled, because the code loses the lock in that case.
* `ToolExecutor`: threads run, waits with a timeout end, and a tool without a
  timeout returns.  A tool with a timeout need not return.
* `AsyncExecutor`: tasks and pool threads go on and waits end; a tool with a
  timeout need not return, and the pool has more threads than there are such tools.
* `Shell`: calls begin, timeouts and the waits of 3 s in a reset end.  Commands
  need not end.
* `McpClient`: requests are sent, lines that are there are read, and the 15 s
  pass.  A server owes nothing.
* `TaskQueue`: the process is started again, recovery runs, the loop runs each
  worker, executors end.  Users are not obliged to anything.  `QueuedIsFinished`
  assumes that nobody cancels.
* `TaskDag`: planning, the writes and the resumption go on, and the agent, kept
  in its loop by `_plan_has_unfinished_work`, begins and finishes what `next`
  suggests.  Crashes and failures are bounded by `MaxCrashes` and `MaxAttempts`.
* `Team103`: the loop runs what is due; `wait_for` bounds each attempt, so some
  end of it comes; those who wait for a slot look every millisecond, so one of
  them is admitted when there is room (not a particular one).
* `Orchestrator`: the loop takes its steps, the time limit comes, hooks end.  A
  role need not end: the limit is what ends the pipeline then.
* `Supervisor`: a starter that is alive moves on.
* `Cron`: the loop goes on, and agents end.  The end of an agent is strongly fair:
  the scheduler may die over and over, but a run that lives on ends.
* `RemoteLink`: attempts to connect, pauses and closings end.
* `Webhooks`: loops and tasks go on, and handlers return, which nothing in the code
  enforces.  Nobody has to start or stop the processing.
* `Resolver`: the timeout ends a request to the model; a git provider is taken to
  answer.
* `Hooks`: a hook answers or its timeout ends.

`Nodes` states safety only: a socket owes nothing.

`agent_run` states safety only, so it needs no fairness: a user need not answer
and a model may be down for good.

## 5. Proofs

TLAPS proves the following for every value of the constants that satisfies the
named assumptions (`LockAssumption`, `TasksAssumption`, `LocksAssumption`,
`ExecutorAssumption`, `ToolsAssumption`, `PlanAssumption`, `RowAssumption`, `TeamAssumption`,
`QueueAssumption`, `CallAssumption`, `JournalAssumption`, `RunAssumption`,
`WorkAssumption`, `HostAssumption` and `EventsAssumption` with those of their parts), which TLC evaluates in the runs, or the assumption that a
theorem states.

* `AgentWork_proofs`, the agent: `CompletedIsEarned`, `LosesAtMost`, `TypeCorrect`,
  for every number of steps, calls, nudges, tasks, keys, commands and kills.  A
  verdict is earned because of what is true while the state says finished
  (`Earned`), and that survives a tool that reopens the plan because whoever is
  finished in the middle of an answer has called terminate (`InAnswer`), which
  `after` records.  A death costs one step because every step begins with nothing
  unsaved (`IsSaved`); that this outlives a resumption needs that a checkpoint is
  never there before its row (`RowComesFirst`), else a new task could begin behind
  an old checkpoint.
* `AgentWork_proofs`, requests: `RequestsEnd`, for every number of keys and models
  and every budget.  What was sent is at most what has been used up (`Used`): the
  budgets of the models before the present one, the attempts counted at this one,
  and one for each key that is dead, since a rejection counts nothing but kills a
  key that was alive (`CallIsCounted`).  It needs that a request which is not under
  way has sent nothing (`CallIsAwaited`), so that a kill or a new prompt starts
  from zero.
* `AgentWork_proofs`, conversation: `TheLogAccounts`, that is `ConversationIsKept`,
  for any number of threads and of crashes.  `ConvInv` has five parts: the log
  (`LogSound`: one thread at a time between the lock and its release, a line more
  than the count only while it writes), the steps of a loop (`StepsSound`), the
  step after a stop (`StopSound`: who is between check and step has begun nothing
  since the stop), the events behind a status (`StatusSound`), and those behind
  the place of a thread (`ThreadSound`).  The last two are about what is logged or
  still on its way to the log (`Noted`), because the status changes before the
  event is written; only when all threads are idle is it all in the log.
* `AgentWork_proofs`, registry: `TheRegistryAccounts`, that is
  `RegistryIsExplained`, for any runs, sessions, deaths and boots.  `RegInv` knows
  each run by its place (`RunIsKnown`), and has that a row that says running has a
  run of its session that lives, died, or was cut short by a cancellation
  (`RunningExplained`), that a closed row was closed by a run that is past its close
  or by a boot (`ClosedExplained`), and that an entry of the map is a live task of
  that session
  and the only task of a session is in it (`TasksAreLive`, `LoneTaskIsThere`).
* `AgentWork_proofs`, messages: `ResultsReachTheModel`, that is `RequestIsValid`, for
  every limit of the memory, size of an answer, number of prompts, faults and
  kills.  It has three parts.  First, `Sanitize` makes any list well formed: while
  it walks, all blocks of calls before the last are closed, and the last has
  behind it exactly the results that are no longer pending (`Waits`, `Passed`);
  with that alone the request would be well formed, but might call anything
  unfinished.  Second, what it calls unfinished has no result among those directly
  behind its calls (`Unmet`, `Tells`).  Third, the memory is `Sound`: ids are
  used once, a call that is over, unless it is spoilt, has its result behind its
  calls, and the calls still under way can have theirs added, for nothing but
  results has come behind them (`OpenAt`).  That outlives every operation on the
  memory because each of them `Keeps` a list: every block that is left has the
  results it had, whichever way `_trim`, the budget of tokens, compaction and the
  replacement of a system message cut; only the removal of a hint, between two
  steps, and a replacement may close a block for further results.  `HInv` adds
  that the model has asked for what has run (`CallsAreKnown`), that the last
  checkpoint is sound too, and that after a death it has a result for whatever
  has run and is not spoilt, for `/resume` starts from it.  The passes of the
  code are functions by recursion over a list; that these exist and keep an
  invariant from one index to the next is proved from the well-foundedness of <
  (`UpTo`, `Recursion`), without an operator as a parameter.
* `AgentWork_proofs`, limits of the memory: `TheMemoryIsBounded`, for `MaxMessages` of
  three and more and every budget, and `TheMemoryIsKept`, that is `MemoryIsKept`,
  under `RoomForABatch`.  The first says that the memory is `Proper` (its identity
  at the head, its messages of the kinds that are added) and within both limits or
  just compacted (`Fine`, `FineInv`); a replacement, which the code does without a
  trim, keeps that because the new message is as large as the old one, and the
  three messages are the two that are pinned and the newest.  The second is about
  what the next addition may drop.  At the end of the memory there is always a
  place where a window may open, a prompt, a note, a text or calls with results
  behind them, and what follows are no more than k results (`EndsAt`, `Ends`), so this
  end has k + 1 messages and 2k + 1 units at most.  `EndsInv` carries that
  from the prompt through the hint, the request, the answer and each of its calls
  (`AnswerEnds`, `ResultsEnd`); after an overflow or `/compress` it is the message
  with the state that opens the window.  So the window that a trim chooses reaches
  back to that place at least, and the answer stays.  `RoomForABatch` is what this
  needs: two pinned messages, a batch with its calls and the next message, and the
  tokens of these.  A run at exactly that bound passes
  (`agent_run`), and with a budget of four units the code loses an answer
  (`memory_budget`).
* `TaskQueue_proofs`: `TypeCorrect` (with: `updated_at` is a strict order),
  `CountsAreExits`, for any tasks, workers, crashes and operations;
  `RunningHasAWorker` where nobody saves a checkpoint from outside
  (`NoCheckpoints`: nothing in the repository calls `save_checkpoint`);
  `TheCopyIsCurrent` and `CompletedStays` with one worker besides (`OneWorker`:
  `cli.py` starts one).  Both hypotheses are needed: with a checkpoint from
  outside, or two workers that claim one row, TLC finds the properties violated.
  What a worker holds is compared with the row by the count of retries, the
  only field that never goes back (`InHand`, `WorkerInv`, `OperationInv`): a copy
  that differs from its row is one that a cancel or a retry has overtaken, and a
  completed row is nobody's copy.  `TheQueueIsABacklog` is the refinement of
  `Backlog` (`IsBacklog`) under the same two hypotheses, for the tasks that nobody
  has begun to cancel (`Kept`); a step that touches only others is a cancel or a
  stutter (`PromisedNothing`).  More is not to be had: a cancelled task may come
  back in any state, as `task_queue_cancel` shows.  `PlainInv` says that of a kept task
  what is in hand is what the row was when it was read and that a retry is of a failed
  task in nobody's hand, so a write takes one task from one stage to the next and all
  others keep theirs (`Moved`, `StageStays`); there is one lemma per kind of action:
  a worker's step is `Take`, `End`, `Interrupt`, `Settle`, `Requeue` or a stutter, a
  crash interrupts the one execution that is under way (`LetGo`), and a recovery
  is `Requeue`, `Park`, or nothing for what a stop in order had paused.  The
  refinement is about safety: that what waits is taken is `QueuedIsFinished`.
* `Host_proofs`, guard: `TheGuardIsKept`, for any number of processes that die at
  any step, while one starts at a time.  The heart is `RoomIsMade`: who is about
  to create a file again, or to remove one, saw its creator dead, and nobody can
  have become the holder since; with `LiveFile`, a file of a living process
  belongs to a holder or to the one that is writing it, which is also why whoever
  is refused is refused for a process that lives (`RefusedRightly`).
* `Host_proofs`, link: `TheLinkIsKept`, for any callers, sockets and attempts, if
  callers wait for each other (`CallersWait`), whether or not the server closes in
  order (`Polite` is free).  Only
  the socket of `_ws` can be open (`OpenIsKnown`), because one task at a time is in
  the middle of a connect (`OneConnects`), and after a disconnect nothing that
  could connect is left (`NothingIsLeft`, `WishIsHeeded`).
* `Host_proofs`, scheduler: `TheJobsRunOnce`, for any jobs, commands and times and
  for deaths anywhere but inside a write, if commands wait for the scheduler
  (`CommandsWait`).  That no job runs twice at a time needs neither
  (`JobsDoNotOverlap`): what is in flight is in the memory of one process
  (`OneAgent`).  For the rest, one process at a time is at work (`OneWorks`), so the
  file and the copy
  of that process have the jobs that are wanted (`JobsAreKept`); the next slot of a
  job is after its last run in every copy that may still be saved (`SlotsFollow`),
  and a task that has not begun is of a job that has not run in this slot
  (`TasksAreDue`).
* `Host_proofs`, pipeline: `ThePipelineIsSound`, for any set of pipelines under
  `QaIsLast`, any number of failing writes, and failures and time limits at any
  point.  What a role has come to follows from where its task is (`ResultsFit`); a
  message is in the queue of whoever still waits for it (`QueuesAreFilled`), because
  all roles subscribe before the first one runs.  An approval is either the single
  agent's, after an engineer that did not complete, or the text of qa has it; that
  the latter comes after the engineer has completed is `AllHaveWorked`: the roles
  that are over, with qa, are
  closed under dependencies, so they are the whole pipeline, and none of them has
  failed.  Hence no role has raised either (`VerdictIsEarned`).  Without `QaIsLast`
  this is not so: a caller who passes `deps` of his own may let qa come first, or let
  a role outside the pipeline depend on one inside, which ends in the KeyError of
  section 6.
* `Host_proofs`, limiter: `TheWindowIsFair`, for any limit, window, blocks and answers.
  As long as no 429 has come, what was sent in the window is what `_evict` leaves
  (`CalmIsCalm`), and who waits waits for exactly the time that the oldest request
  of a full window has in it (`WaitsForRoom`), so that there is room when he wakes;
  a pause is never longer than the wait that has begun in it (`PausesAreKept`).  The
  lemmas say what `_evict` leaves and that it commutes with the passing of time
  (`EvictKeeps`, `EvictAppends`, `EvictOlder`), and that the blocks, which double by
  recursion, are numbers (`BlocksAreNumbers`).
* `Host_proofs`, lock of threads: `TypeCorrect`, `QueueIsSound`,
  `NoWaiterIsStranded`.  The invariant is the conjunction of types, `QueueSound` (a
  waiter is in the deque once and only while it waits unsignalled) and the fact that
  the recorded owner is inside.  A stranded waiter is excluded because a non-empty
  deque needs `_held` or a signal that has not been answered; alone that is not
  inductive: an expiry must know that a dequeued waiter has been signalled, which is
  `QueueSound`, and a release must know who may clear `_held`.
* `Events_proofs`, lock of tasks: `MutualExclusion`, `NoOvertaking`, `TypeCorrect`, and
  `LockIsFair`, the refinement of `FairLock` (`IsFair`).  One holder is inductive
  only with `FreeHasNoQueue`, because the fast path trusts `_held` alone, and with
  the agreement of the deque and the futures, because release looks at futures.
  The refinement has one step per action: arriving is `Arrive`, a release is
  `HandOver`, and a cancellation is `GiveUp`, or `Vanish` if the task has been
  granted the lock and has not run since.  That the first future of the deque that is not
  done belongs to the waiter with nobody ahead of it is a fact about the order in
  the deque, which `QueueLemmas` supplies.
* `Events_proofs`, webhooks: `TheWebhooksAreKept`, for any deliveries, fingerprints,
  handlers, loops and retries.  An accepted event is in the queue, in the hand of one
  loop, or has a task, and in no two of these (`OnePlace`); a window has the one
  delivery that put its fingerprint into the store (`Windows`); who waits between
  tries has one left (`Tries`).
* `Events_proofs`, resolver: `TheResolutionsAreKept`, for any number of calls and slots.
  The free slots and the calls that run make up all slots (`Slots`), and a call finds
  its own event under its request because no other call has that id
  (`OwnRequests`), so that a promised cancellation is seen at the last look
  (`PromisesStand`).  With two calls of one id this is not so (section 6).
* `Events_proofs`, hooks: `TheHooksAreHeard`, for any hooks, priorities and emitters.  A
  steady hook that was not heard is the one that the emitter waits for, or its name
  is ahead (`HeardOrAhead`), since the hooks that are registered have one name each
  (`OneOfEachName`, under `NamesStay`), so the hook of that name is found.  The
  names ahead are ranked
  for the steady hooks as those of the index are (`IndexedIs`), by the priorities that
  these had when it was built (`sorted`, `rank`), whatever replaces or configures
  them, and no steady hook that was heard is less urgent (`HeardInOrder`).  The
  verdict is the sum of the answers (`Sums`).
* `Events_proofs`, devices: `TheDevicesAreTold`, for any devices, nodes and senders.  A
  steady node was told, or its device is ahead of the sender (`ToldOrAhead`); while
  the sender awaits, what comes and goes leaves the iterator's view of the steady
  ones as it is, or makes it raise.
* `TheEventsAreHandled`: all four and one holder of the lock, which the run `events`
  checks as one invariant.
* `QueueLemmas`: what appending to, removing from and dropping a prefix of a
  duplicate-free sequence yields, and what it does to the order of its members;
  stated once for both locks.
* `Tools_proofs`, executor: `WritersExcludeReaders`.  The readers-writer invariant is
  inductive with the types of the lock's two fields only: forced release, at any
  step of the abandoned thread, cannot break it.  For batches without timeouts
  (`Timed = {}`) also `ConflictsAreSerialised`, `BatchesLeaveNothing` and
  `EndedCallsHoldNothing`; with timeouts the last is false (`executor_leak`).  None
  of these is inductive by itself: that a release returns what was acquired needs
  that a plan has each declaration once (`PlanIsList`; that a list in key order
  exists at all is `SortedListExists`, by the rank of a declaration), and that
  `_readers` counts the calls that hold the lock (`LocksAgree`), for then a holder
  finds its lock held whoever releases another share before.  That an ended call
  is not in the list of readers either needs that the list has it at most once.
* `Tools_proofs`, coroutines: `TheTasksAreSafe`, for any calls, declarations,
  timeouts, threads and attempts.  Here the thread that releases is seldom the one
  that acquired, so a write lock may never be released; but then it stays with the
  one call that has it, and `_readers`, which any thread may count down, counts the
  calls that read (`TaskLocksAgree`).  That a lock is released once is because one
  thread at a time works on the locks of a call (`TouchedByOne`): a job in the queue
  is what its call waits for (`QueuedIsAwaited`), one timed out is either dropped
  from there or goes on alone, and a tool runs once (`RunsOnce`).
* `Tools_proofs`, shell: `TheCommandsAreSafe`, for any commands and shells that hang,
  die or time out.  While a command reads, its shell has nothing else to do or to
  say, and its mark is the last of what it says (`PipeIsOf`); the shell that nobody
  uses has nothing left to say (`PipesAreOwn`), because whoever does not read to his
  mark resets it.  Only the shell of `_process` runs (`ShellIsKnown`).
* `Tools_proofs`, client: `TheRequestsAreSafe`, for any requests, lines and
  cancellations.  A late answer stays in the stream and meets a later request, which
  passes it by; what is taken for an answer has the request's own id.
* `TheToolsAreSafe`: these three, which the run `executor` checks as one invariant.
* `TaskDag_proofs`: `TypeCorrect` (with: the graph is acyclic and without gaps),
  `TheNextNodeIsWorkable`, `TheOrderIsKept`, `TheProgressIsReal`,
  `CompletionsAreReal`.  The heart is the lemma `Outranked`: in a graph whose
  dependencies look back, a node has fewer dependents than what it depends on,
  so the order never names a waiting node first.  The invariant adds that the
  rows written while planning are fresh (`Drafted`) and that an agent without
  strays leaves no failed or skipped row (`Clean`).
* `Team103_proofs`: `TypeCorrect`, `FilesAreExclusive`, `WavesAreOrdered`,
  `SlotsAreNeverLost`, `NothingElseLeaks`.  Claims of one wave and the file
  owners agree only while the wave starts (`Burst`): later the sweep and another
  run's namesake take owners away.  Exclusion survives because no job of the run
  claims anything between the bursts, and a new wave starts after the last ended.

Only model-checked is liveness: `WhatBeginsEnds`, `EventsEnd`, `BatchEnds`,
`QueuedIsFinished`, `PlanFinishes`, `EveryRunEnds` and `ToolsAnswer` (fairness and
ENABLED are out of the prover's reach).  Every invariant and every action property
of a passing run is stated by a theorem; where the theorem has a hypothesis
(`RoomForABatch`, `OneWorker`, `NoCheckpoints`, `QaIsLast`, `CommandsWait`,
`CallersWait`, `NamesStay`, `Timed = {}`), the
constants of the run satisfy it.

## 6. Where the code and its words part

Shown by a run:

* `fifo_lock.py:130` release clears `_held` before the signalled waiter runs, and
  the fast path looks at `_held` only: two threads are inside
  (`fifo_lock_exclusion`).
* `parallel_executor/executor.py:488` the handle that was acquired is dropped and
  an empty one is released: a call with a timeout that ends in time keeps its
  locks (`executor_leak`).
* `task_queue.py:448` a cancelled execution is written back as paused, and a
  claim in progress writes running over cancelled (`task_queue_cancel`).
* `schema.py:307` when the last results fill the budget of tokens, in a chat, where no
  hint comes before the request, the next answer does not fit beside them: they go,
  and the answer with them, because its calls have no results yet.
  `agent/toolcall.py:451` takes the last message for the answer and executes
  nothing, where 445 says "Execute all tool calls from the last LLM response."
  (`memory_budget`).  With the defaults (80000 tokens, results of 12000 characters)
  the eight messages that a compaction keeps do not fill the budget; with a small
  `[context].max_tokens` or a large `SHSCODE_TOOL_OUTPUT_MAX_CHARS` they do.

Stated in the modules as a property that no run checks, because the code does
not have it; the runs check what is left of it.  Each was seen to fail with TLC.

* `agent/orchestrator.py:236` a role whose dependency failed returns before the
  try whose finally sets its event, so a role behind it is not skipped but waits
  for the time limit; the comment at 223 says "Skip downstream stages of a failed
  dep." (`NobodyIsStranded`).  `:446` with roles that lack a dependent of their own
  the sort raises a KeyError past every handler and the session stays running;
  299 says "ANY exception (or cancellation) now still closes the orchestrator
  session" (`SessionIsClosed` with a plan that is not whole).  `:339` a fallback
  returns before the wait for the hooks, which 347 promises (`HooksAreAwaited`).
  `:339` and `:403` when the engineer has failed the single agent's result is returned as
  approved, without qa; and `:499` searches the text of qa for words, so a demand
  of rework that has APPROVED in it is an approval, although qa has published
  its own judgement (`QaHasApproved`).  `agent/roles/architect.py:120` returns the
  report of a failure as output, the stage is completed and the engineer gets it,
  where `agent/orchestrator.py:220` says that an upstream error "must not flow
  downstream as if it were output" (`OnlyArtefactsFlowDown`).
* `hooks/base.py:99` configure sets the priority of a registered hook and nothing
  rebuilds the index (`hooks/manager.py:224`) until another hook comes or goes, where
  `hooks/manager.py:283` promises "priority order" (`PriorityIsHeeded`).
* `nodes/manager.py:218` broadcast unregisters by name whom it could not reach,
  so a device that came back during the broadcast is thrown out while it is
  connected, where 216 says "Clean up disconnected nodes" (`CleansDisconnected`).
* `llm/rate_limiter.py:162` a rejected request leaves two stamps, and the wait
  looks at the oldest only; `:208` acquire computes its wait once, so requests
  that wait together are sent in one window, where 181 says "Wait until the rolling
  window permits one more request" (`WindowIsKept`).  `:202` a sleeper's deadline
  is not moved by the 429 of another request (`PressureIsRespected` with two
  callers).
* `agent/base.py:458` a run that is cancelled while a thread inserts its row, in the
  rest of its set-up, or in its finally before 714, leaves a row that
  says running with nobody on it, where `server/main.py:46` says that the registry
  "can never show phantom running sessions" (`NoPhantoms`).  `server/main.py:465` the
  end of a run takes the entry of its session whoever is in it, so a second run cannot be cancelled any more, where 548 says "cancel a
  running session" (`EveryRunCanBeCancelled`).  `agent/base.py:450` continuing a
  session does not set its row to running (`NobodyIsJoined`).  `db/session.py:410`
  a boot takes the sessions of living detached runs for leftovers, although
  `server/main.py:416` says that such a run "survives this server's restart/death"
  (`SurvivorsAreSpared`).  `agent/base.py:1340` a run cancelled in its set-up
  closes nothing, and the repair at `server/main.py:94` walks over a map that is
  empty by then (`ShutdownClosesAll`).  `cli.py:2522` the registry calls every end
  finished, where 2517 says "keep the detached-run registry truthful"
  (`RegistryIsTruthful`).  `cli.py:2395` --detach makes up an id of a session
  that the run does not get (`RegistryNamesSession`).
* `supervisor/lifecycle.py:123` a starter removes whatever file is there by then,
  also that of another starter; 97 says "Uses O_EXCL create for atomicity against
  concurrent starters" (`OneSupervisor` with `AtOnce` TRUE).
* `cron.py:268` every process saves all jobs from its own memory, and `:165`
  the file is truncated before it is written, where 110 says "Jobs are
  persisted to YAML and survive restarts" (`JobsSurvive` with `Together` or
  `TornFiles`).  `:227` trigger_job changes the memory of a process that ends
  (`TriggerReaches`).
* `conversation/remote_conversation.py:158` two connects open two sockets
  (`OneSocket` with `Patient` FALSE).  `:259` a close in order does not change the
  state, and 146 says "currently connected" (`ConnectedIsOpen`, with `Polite`
  TRUE).  `:206` disconnect does not reach a connect under way
  (`DisconnectSticks` with `Patient` FALSE).  `:471` says that a message "will be
  sent upon reconnection"; nothing sends it (`MessagesAreSent`).
* `memory/` and `agent/toolcall.py`: notes between the calls of an answer and
  their results make `schema.py:188` report calls that were executed as
  "interrupted before execution", and drop their results, against the docstring
  at 163 (`DoneIsShown`).

Met while modelling, and part of the models, but not stated as a property:

* `fifo_lock.py:215` a task cancelled after its grant loses the lock for good.
* `parallel_executor/executor.py:533` the forced release does not look at who
  holds the lock, so it takes it from a call other than the abandoned one.  `:786`
  the coroutine executor releases a write lock on whatever thread is free,
  `release_write` refuses another thread (`resource_lock.py:132`), and the error is
  swallowed: the lock stays, and later calls fail.  A timeout during acquisition
  drops the handle, and a DeadlockDetectedError keeps what the last attempt took.
* `parallel_executor/executor.py:257` the docstring of the scheduling groups
  describes groups; lines 281-289 do not build them.
* `parallel_executor/resource_lock.py:486` READ and WRITE of one key by one call
  wait for each other.
* `tool/bash.py:272` cancelling a reset leaves the dying shell in `_process`, and
  the next command may read the end of an older one; a timeout kills the shell but
  not its child; what a background process prints later belongs to the next
  command.
* `mcp/client.py:163` a timeout, 16 lines without the answer, or the end of the
  pipe return {}, which call_tool reports as a success without output; a timeout
  of tools/list leaves a server connected without tools.
* `conversation/base.py:241` two threads can pass the check of run and `:249` an
  interrupt between the check and FINISHED ends a completed run as stopped.  resume
  sets RUNNING without starting a loop (337-361).  After a crash the reopened log
  hides its newest events until the next reindex (`event_log.py:474`); truncate
  returns 0 (`event_log.py:423`).
* `agent/base.py:484` a shell keeps `_journal_task_id`, the plan and the nudge
  counters from one prompt to the next; the second prompt continues the first row
  without setting it in progress, so that a kill leaves it completed.
  `base.py:737` and `state.py:280` say that a partial task can be resumed;
  /resume without an id never finds one.  `toolcall.py:622` executes calls after
  an accepted terminate.  After /resume a text without calls completes a task
  whose plan is open.  mark_interrupted_running_tasks also marks tasks of other
  living processes, and a /resume during a run leaves the old row in progress.
  The finally of _call_with_retry can undo a switch of the model.
* Memory: a kill between the execution and the result makes a call count as
  interrupted after /resume; a second compaction loses what the first one kept,
  against the docstring of `compaction.py`; `short_term.py:18` says "System
  messages are always pinned", `_trim` keeps the first and the last; without a
  checkpoint /resume makes a summary the pinned message; trimming can drop the
  prompt, and compaction may duplicate leading system messages.  If dispatch
  raises, `toolcall.py:588` runs the whole batch again.
* `task_queue.py:435` two workers can claim one row; `:457` a checkpoint saved
  during an execution is overwritten by the final save; `:259` a second submit in
  one process raises a TypeError while it prunes its cache.
* `planner.py:202` leaves nodes ready with unmet dependencies, where
  `task_dag.py:14` says that a node becomes ready when its dependencies are
  done; `complete_node` also accepts skipped dependencies (`task_dag.py:12-13`).
* `planner.py:114` an invalid step in a plan shifts the indices of later
  dependencies.  `task_dag.py:105` a failed write is logged and reported as done.
* `team103/scheduler.py:120` a job whose file is taken is answered with skipped;
  line 7 says that conflicts are serialised.  `:163` cancelling a run leaves its
  claims.  The heartbeat is sent under an id without a claim, and a claim is stale
  after 300 s, where one attempt may take 600 s.  Worker ids repeat between runs,
  so two runs may work on one file.
* `integrations/webhook_handler.py:604` the fingerprint is noted before the queue is
  known to have room: an event that was rejected is a duplicate when it is
  delivered again, for an hour.  `:717` a handler that succeeds hides the error of
  the one before it, and a retry runs those again that had succeeded.  `:15`
  promises "timeout protection per event", and a handler that hangs is waited for
  without limit.  `:826` every event makes a resolver of its own, so
  `max_concurrent` limits nothing there, and a failed resolution is not tried again,
  because its result is discarded.
* `integrations/resolver.py:367` two resolutions of one id share one entry of
  `_cancellation_events`, and the end, or the rejection, of one removes it: the other
  cannot be cancelled.  `:229` speaks of a "timeout for the entire resolution"; it
  bounds the request to the model.
* `hooks/base.py:89` says that teardown is called "when the hook is unregistered";
  unregister does not call it, and register does not call setup.  A hook that is
  registered while disabled stays out of the index when it is enabled.  A
  replacement is called at the place of the hook that it replaces, although it may
  not subscribe.
* `nodes/manager.py:204` a registration during a broadcast makes its iterator raise,
  and the devices behind it are not told.

## 7. What is not modelled

`PROJECT.json` gives the reason for each component.  In short: language models
and their protocols, terminal, HTTP and storage I/O, third-party adapters,
sandboxes and devices have no state of their own that can be checked;
classification of commands, retrieval and heuristics are sequential functions
of text.  Inside the modelled components these are left out:

* agent loop: hooks, agents without step(), long-term memory, skills, the session
  database, the retry deadline, `done_pattern`, switch, /checkpoint; /resume is one
  step and takes any id, /new comes at the prompt, generating a plan is atomic
  and never fatal, a denied permission is caught, and batches of calls that only
  read contain neither terminate nor task_dag, as in the code.  Two shells on one
  journal, and failing writes to it, are left out.
* requests: streaming, telemetry, a wait for the limiter is part of a sleep, and a
  request is over within an hour of the rejection of a key.
* history: sizes are whole units, one estimate of tokens; what skills and memory
  recall is one more system message; the replay of an earlier conversation and
  extract_structured are left out.
* conversation: two loops that drive one agent are a behaviour of the model, and
  no property excludes them (section 6); left out are fork, confirm_action, hooks,
  the nudge of the stuck detector,
  flush, truncate, append_batch and the queries; set_status is atomic and arun is
  run with an await.
* orchestrator: simple and small goals, run_team103, partial pipelines beyond
  their refusal, unknown roles, a failing close of the session, the texts of
  refusals; failing writes make gather raise.
* limiter: a change of rpm, no limit, stats, clock jumps.
* sessions: runs over a WebSocket, /run/sync, archive, delete, branch, reuse of
  pids, failing writes (a close that fails leaves its row running), and the
  environment variable that a detached run hands to its children.  A thread that
  inserts a row after its run was cancelled counts as one that did so before.
* supervisor: status file, signal handlers, daemonizing; only tests use it.
* scheduler: two schedulers, deliveries, webhooks, the enabled flag.
* webhooks and resolver: signatures, formats, the statistics, process_sync; a
  handler without a `__name__`, whose task dies without a result; prompts, changes
  and comments, and clear_results.
* hooks: setup and teardown, metrics, loading from files; all hooks answer one type
  of event.  That configure renames a hook is in the module, but not in what is
  checked or proved (`NamesStay`).
* nodes: sockets that were never given, capabilities, the handlers of events and
  commands, the client.  The eviction of the oldest node is in the module; with two
  devices and room for two it does not fire in the run, and the theorem covers it.
* remote link: what messages say, the state that events update, the wait of run.
* executors: metrics, progress events, `try_acquire_resources`, which nobody
  calls.  `ForceRelease` is one step, where the code reads the count of readers, then their
  list, and then drops one (`resource_lock.py:421`).
* shell and MCP: forbidden commands, exit codes, the kill at exit; SSE, the
  handshake, stderr.
* task graph and team: `retry_node`, rendering, notes; merging, the quality gate,
  symbol locks (run never passes symbols), the cut-off of `_waves` after 1000
  rounds.  `PipelineIsSound` is about the pipelines of `orchestrator.py:291`.
* queue and team: failing writes to SQLite.
* `context/`, the condensers: nothing in the repository imports the package.

## 8. Plan

Next modules: run_dag of `v4/async_dag.py` if something comes to use it, the stuck
detector with the nudge it gives a conversation, `FallbackStrategy` of
`llm/fallback.py` with its cooldowns.

Abstract specifications worth stating: a conversation as a machine of status and
history, which the detailed one implements; a batch of calls whose conflicts are
in an order, implemented by both executors.

Next proofs: those of the refinements above.
