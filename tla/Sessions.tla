-------------------------------- MODULE Sessions ---------------------------------
(***************************************************************************)
(* The registry of sessions and the runs that write it: the server's tasks  *)
(* (app/server/main.py), one-shot commands of the shell and detached         *)
(* processes (app/cli.py, app/daemon.py), the rows of app/db/session.py and   *)
(* the way a run of app/agent/base.py opens and closes its row.               *)
(*                                                                         *)
(* A run is one call of the agent.  Processes die at any step; a boot of    *)
(* the server marks what it takes to be left over from before.              *)
(***************************************************************************)
EXTENDS Naturals, Sequences, Functions

CONSTANTS
    Runs,     \* runs of an agent
    Ids,      \* ids of sessions
    Homes,    \* the homes the runs of an instance may have, see AllHomes
    Flags,    \* how a one-shot command picks its session: "continue", "auto"
    MaxBoots, \* bound: boots of the server
    MaxKills, \* bound: deaths of processes
    None      \* no session, no run, no entry

(* A task of the server, a one-shot command, and a detached process that    *)
(* was started by the server or by the shell.                               *)
AllHomes == {"server", "shell", "detachedByServer", "detachedByShell"}

Closed == {"finished", "error", "interrupted"}

(* What the constants must be. *)
SessionsAssumption ==
    /\ Homes \subseteq AllHomes /\ Flags \subseteq {"continue", "auto"}
    /\ MaxBoots \in Nat /\ MaxKills \in Nat
    /\ None \notin Runs \union Ids \union AllHomes \union Closed \union {"running"}

VARIABLES
    server, \* "up", "stopping" or "down"
    row,    \* sessions.state, by session
    order,  \* the sessions by started_at
    at,     \* where each run is
    home,   \* the home of each run
    given,  \* the session a run is given, _injected_session_id
    made,   \* the session whose row a run has inserted
    own,    \* _session_id of a run
    how,    \* how a run ended, or "cut": see Cancellable
    tasks,  \* session_tasks
    entry,  \* run.json of a detached run: status and session
    boots, kills

vars == <<server, row, order, at, home, given, made, own, how, tasks, entry, boots, kills>>

Live == {"starting", "setup", "opening", "working", "closing", "leaving"}

Alive(r) == at[r] \in Live

Init ==
    /\ server = "up"
    /\ row = [s \in Ids |-> None]
    /\ order = <<>>
    /\ at = [r \in Runs |-> "new"]
    /\ home = [r \in Runs |-> None]
    /\ given = [r \in Runs |-> None]
    /\ made = [r \in Runs |-> None]
    /\ own = [r \in Runs |-> None]
    /\ how = [r \in Runs |-> None]
    /\ tasks = [s \in Ids |-> None]
    /\ entry = [r \in Runs |-> None]
    /\ boots = 0 /\ kills = 0

Goto(r, place) == at' = [at EXCEPT ![r] = place]

-----------------------------------------------------------------------------
(* How a run starts.                                                       *)

Starts(r, h) ==
    /\ at[r] = "new" /\ h \in Homes
    /\ home' = [home EXCEPT ![r] = h]
    /\ UNCHANGED <<made, own, how, boots, kills>>

(* POST /run: a session that the caller names, whatever its state, or a new *)
(* one.                                                                    *)
Asked(r, s) ==
    /\ server = "up"
    /\ given' = [given EXCEPT ![r] = s]
    /\ IF row[s] = None
       THEN row' = [row EXCEPT ![s] = "running"] /\ order' = Append(order, s)
       ELSE UNCHANGED <<row, order>>

PostRun(r, s) ==
    /\ Starts(r, "server")
    /\ Asked(r, s)
    /\ tasks' = [tasks EXCEPT ![s] = r]
    /\ Goto(r, "setup")
    /\ UNCHANGED <<server, entry>>

PostDetach(r, s) ==
    /\ Starts(r, "detachedByServer")
    /\ Asked(r, s)
    /\ entry' = [entry EXCEPT ![r] = [status |-> "running", session |-> s]]
    /\ Goto(r, "starting")
    /\ UNCHANGED <<server, tasks>>

(* --detach: the command makes up an id that has no row. *)
Detach(r) ==
    /\ Starts(r, "detachedByShell")
    /\ entry' = [entry EXCEPT ![r] = [status |-> "running", session |-> None]]
    /\ Goto(r, "starting")
    /\ UNCHANGED <<server, row, order, given, tasks>>

OneShot(r) ==
    /\ Starts(r, "shell")
    /\ Goto(r, "starting")
    /\ UNCHANGED <<server, row, order, given, tasks, entry>>

(* latest_session: the last one that is closed, or the last one. *)
IsLatest(s) ==
    \/ s = None /\ order = <<>>
    \/ \E i \in 1..Len(order) :
         /\ s = order[i]
         /\ \/ row[s] \in Closed
            \/ i = Len(order) /\ \A j \in 1..i : row[order[j]] \notin Closed
         /\ \A j \in i + 1..Len(order) : row[order[j]] \notin Closed

(* The sessions a one-shot command may continue; an automatic one may also  *)
(* be too old.                                                              *)
Continues(s, flag) ==
    \/ IsLatest(s) /\ (flag = "auto" /\ s # None => row[s] # "running")
    \/ flag = "auto" /\ s = None

LookUp(r) ==
    /\ at[r] = "starting"
    /\ \/ /\ home[r] = "shell"
          /\ \E flag \in Flags, s \in Ids \union {None} :
               Continues(s, flag) /\ given' = [given EXCEPT ![r] = s]
       \/ home[r] # "shell" /\ UNCHANGED given
    /\ Goto(r, "setup")
    /\ UNCHANGED <<server, row, order, home, made, own, how, tasks, entry, boots, kills>>

-----------------------------------------------------------------------------
(* BaseAgent.run: the session is known to the agent at the end of setup.    *)

runFree == <<server, home, given, tasks, entry, boots, kills>>

(* A run that is given a session takes it. *)
Begin(r) ==
    /\ at[r] = "setup" /\ given[r] # None
    /\ own' = [own EXCEPT ![r] = given[r]]
    /\ Goto(r, "working")
    /\ UNCHANGED <<runFree, row, order, made, how>>

(* Another one waits for a thread that inserts a row, *)
Create(r) ==
    /\ at[r] = "setup" /\ given[r] = None
    /\ \E s \in Ids :
         /\ row[s] = None
         /\ made' = [made EXCEPT ![r] = s]
         /\ row' = [row EXCEPT ![s] = "running"]
         /\ order' = Append(order, s)
    /\ Goto(r, "opening")
    /\ UNCHANGED <<runFree, own, how>>

(* and learns after that which session it has. *)
Know(r) ==
    /\ at[r] = "opening"
    /\ own' = [own EXCEPT ![r] = made[r]]
    /\ Goto(r, "working")
    /\ UNCHANGED <<runFree, row, order, made, how>>

End(r) ==
    /\ at[r] = "working"
    /\ \E end \in {"finished", "error"} : how' = [how EXCEPT ![r] = end]
    /\ Goto(r, "closing")
    /\ UNCHANGED <<runFree, row, order, made, own>>

(* Faulty: it closes only the sessions it has created. *)
CloseOwn(r) ==
    /\ at[r] = "closing"
    /\ row' = IF given[r] = None THEN [row EXCEPT ![own[r]] = how[r]] ELSE row
    /\ Goto(r, "leaving")
    /\ UNCHANGED <<runFree, order, made, own, how>>

(* _close_session_registry_safely, whoever has created the row. *)
Close(r) ==
    /\ at[r] = "closing"
    /\ row' = [row EXCEPT ![own[r]] = how[r]]
    /\ Goto(r, "leaving")
    /\ UNCHANGED <<runFree, order, made, own, how>>

(* The places where a cancellation ends a wait.  A run that works goes to    *)
(* its finally, and closes the session with the state that it has, which is *)
(* the final one if the cancellation comes after the last step.  Another    *)
(* one is cut short and leaves its row as it is: it does not know its        *)
(* session yet, or it waits in its finally before the close.  The close     *)
(* itself is shielded.                                                     *)
Cancellable == {"setup", "opening", "working", "closing"}

Unwound(place) == IF place = "working" THEN "closing" ELSE "leaving"

Outcomes(place) == IF place = "working" THEN {"interrupted", "finished"} ELSE {"cut"}

Cancel(r) ==
    /\ at[r] \in Cancellable
    /\ \E end \in Outcomes(at[r]) : how' = [how EXCEPT ![r] = end]
    /\ Goto(r, Unwound(at[r]))

(* Faulty: the task stays in the map. *)
LeaveQuietly(r) ==
    /\ at[r] = "leaving"
    /\ entry' = IF home[r] \in {"detachedByServer", "detachedByShell"} /\ own[r] # None
                THEN [entry EXCEPT ![r] = [status |-> "finished", session |-> own[r]]] ELSE entry
    /\ Goto(r, "over")
    /\ UNCHANGED <<server, row, order, home, given, made, own, how, tasks, boots, kills>>

(* A task takes its session out of the map; a detached run that has a       *)
(* session writes its entry, however it ended.                              *)
Leave(r) ==
    /\ at[r] = "leaving"
    /\ tasks' = IF home[r] = "server" THEN [tasks EXCEPT ![given[r]] = None] ELSE tasks
    /\ entry' = IF home[r] \in {"detachedByServer", "detachedByShell"} /\ own[r] # None
                THEN [entry EXCEPT ![r] = [status |-> "finished", session |-> own[r]]] ELSE entry
    /\ Goto(r, "over")
    /\ UNCHANGED <<server, row, order, home, given, made, own, how, boots, kills>>

-----------------------------------------------------------------------------
(* Cancellation, death and restart.                                        *)

(* POST /sessions/{id}/cancel: the run that the map has. *)
PostCancel(s) ==
    /\ server = "up" /\ tasks[s] # None
    /\ Cancel(tasks[s])
    /\ UNCHANGED <<runFree, row, order, made, own>>

(* SIGTERM: a process that has its handler cancels the run. *)
Terminate(r) ==
    /\ home[r] # "server"
    /\ Cancel(r)
    /\ UNCHANGED <<runFree, row, order, made, own>>

Kill(r) ==
    /\ Alive(r) /\ home[r] # "server"
    /\ kills < MaxKills
    /\ kills' = kills + 1
    /\ Goto(r, "dead")
    /\ UNCHANGED <<server, row, order, home, given, made, own, how, tasks, entry, boots>>

OfServer(r) == Alive(r) /\ home[r] = "server"

Crash ==
    /\ server # "down" /\ kills < MaxKills
    /\ kills' = kills + 1
    /\ server' = "down"
    /\ at' = [r \in Runs |-> IF OfServer(r) THEN "dead" ELSE at[r]]
    /\ tasks' = [s \in Ids |-> None]
    /\ UNCHANGED <<row, order, home, given, made, own, how, entry, boots>>

(* The lifespan's end: all tasks are cancelled, wherever they are. *)
Stop ==
    /\ server = "up"
    /\ server' = "stopping"
    /\ LET stopped == {r \in Runs : OfServer(r) /\ at[r] \in Cancellable}
       IN  /\ at' = [r \in Runs |-> IF r \in stopped THEN Unwound(at[r]) ELSE at[r]]
           /\ \E end \in [stopped -> {"interrupted", "finished", "cut"}] :
                /\ \A r \in stopped : end[r] \in Outcomes(at[r])
                /\ how' = [r \in Runs |-> IF r \in stopped THEN end[r] ELSE how[r]]
    /\ UNCHANGED <<row, order, home, given, made, own, tasks, entry, boots, kills>>

(* When they are over, the sessions that are still in the map are closed. *)
Down ==
    /\ server = "stopping" /\ \A r \in Runs : ~OfServer(r)
    /\ server' = "down"
    /\ row' = [s \in Ids |-> IF tasks[s] # None /\ row[s] = "running" THEN "interrupted" ELSE row[s]]
    /\ tasks' = [s \in Ids |-> None]
    /\ UNCHANGED <<order, at, home, given, made, own, how, entry, boots, kills>>

(* recover_stale_sessions: every session that is older than this process. *)
Boot ==
    /\ server = "down" /\ boots < MaxBoots
    /\ boots' = boots + 1
    /\ server' = "up"
    /\ row' = [s \in Ids |-> IF row[s] = "running" THEN "interrupted" ELSE row[s]]
    /\ UNCHANGED <<order, at, home, given, made, own, how, tasks, entry, kills>>

Next ==
    \/ \E r \in Runs :
        \/ \E s \in Ids : PostRun(r, s) \/ PostDetach(r, s)
        \/ Detach(r) \/ OneShot(r) \/ LookUp(r)
        \/ Begin(r) \/ Create(r) \/ Know(r)
        \/ End(r) \/ Close(r) \/ Leave(r) \/ Terminate(r) \/ Kill(r)
    \/ \E s \in Ids : PostCancel(s)
    \/ Crash \/ Stop \/ Down \/ Boot

Spec == Init /\ [][Next]_vars

-----------------------------------------------------------------------------

TypeOK ==
    /\ server \in {"up", "stopping", "down"}
    /\ row \in [Ids -> Closed \union {"running", None}]
    /\ IsInjective(order) /\ Range(order) = {s \in Ids : row[s] # None}
    /\ at \in [Runs -> Live \union {"new", "over", "dead"}]
    /\ home \in [Runs -> Homes \union {None}]
    /\ given \in [Runs -> Ids \union {None}]
    /\ made \in [Runs -> Ids \union {None}] /\ own \in [Runs -> Ids \union {None}]
    /\ how \in [Runs -> Closed \union {"cut", None}]
    /\ tasks \in [Ids -> Runs \union {None}]
    /\ entry \in [Runs -> [status : {"running", "finished"}, session : Ids \union {None}] \union {None}]
    /\ boots \in 0..MaxBoots /\ kills \in 0..MaxKills

(* The session a run is on, which the run may not know itself. *)
Session(r) ==
    IF own[r] # None THEN own[r]
    ELSE IF made[r] # None THEN made[r]
    ELSE given[r]

(* A row tells what has become of its session: while it says running there *)
(* is a run on it, or one that has died there or was cut short by a          *)
(* cancellation before it could close the row; and what else it says is how *)
(* one of its runs ended, or what a boot has made of it ("the registry can  *)
(* never show phantom running sessions", which NoPhantoms states whole).   *)
RowIsExplained ==
    \A s \in Ids :
        /\ row[s] = "running" =>
            \E r \in Runs : Session(r) = s /\ (Alive(r) \/ at[r] = "dead" \/ how[r] = "cut")
        /\ row[s] \in Closed =>
            \/ \E r \in Runs : own[r] = s /\ how[r] = row[s]
            \/ row[s] = "interrupted" /\ boots > 0

(* The map of tasks holds live runs of the right session, and each run that *)
(* was the only one of the server on its session: that one can be cancelled *)
(* ("cancel a running session").                                            *)
CancelFindsIt ==
    /\ \A s \in Ids : tasks[s] # None => OfServer(tasks[s]) /\ given[tasks[s]] = s
    /\ \A r \in Runs :
        OfServer(r) /\ (\A q \in Runs \ {r} : given[q] = given[r] => home[q] # "server")
        => tasks[given[r]] = r

-----------------------------------------------------------------------------
(* What the code does not keep, and no run checks: see README, section 6.  *)

(* Only a death leaves a row that says running with no run on it ("the      *)
(* registry can never show phantom running sessions").  A run that is       *)
(* cancelled in its set-up, or in its finally, leaves one too.              *)
NoPhantoms ==
    \A s \in Ids : row[s] = "running" =>
        \E r \in Runs : Session(r) = s /\ (Alive(r) \/ at[r] = "dead")

(* Every run of the server can be cancelled while it works. *)
EveryRunCanBeCancelled == \A r \in Runs : OfServer(r) => tasks[given[r]] = r

(* No session has two runs at a time ("a session 'running' in another live *)
(* process could be attached").                                             *)
NobodyIsJoined ==
    \A r, q \in Runs : at[r] = "working" /\ at[q] = "working" /\ own[r] = own[q] => r = q

(* A boot leaves alone the sessions of the runs that survive a restart.    *)
SurvivorsAreSpared ==
    [][\A r \in Runs : server = "down" /\ server' = "up" /\ at[r] = "working" /\ row[own[r]] = "running"
          => row'[own[r]] = "running"]_vars

(* After a shutdown in order no session of the server still says running   *)
(* ("their sessions closed with the real final state instead of staying     *)
(* 'running' forever").                                                     *)
ShutdownClosesAll ==
    server = "down" => \A r \in Runs :
        home[r] = "server" /\ at[r] = "over" => row[given[r]] # "running"

(* The registry says of a run that is over how it ended ("keep the          *)
(* detached-run registry truthful").                                        *)
RegistryIsTruthful ==
    \A r \in Runs : at[r] = "over" /\ entry[r] # None => entry[r].status = how[r]

(* The registry names the session a detached run works on, while it works  *)
(* ("run.json (pid, session_id, prompt, argv, timestamps)").                *)
RegistryNamesSession ==
    \A r \in Runs : at[r] = "working" /\ entry[r] # None => entry[r].session = own[r]
=============================================================================
