------------------------------- MODULE McpClient -------------------------------
(***************************************************************************)
(* The client of an MCP server on a pipe (app/mcp/client.py): requests go   *)
(* one at a time under a lock, and lines are read until one has the         *)
(* identifier of the request.  The server answers in any order, late or     *)
(* never, says other things in between, and may die.                       *)
(***************************************************************************)
EXTENDS Naturals, Sequences, SequencesExt

CONSTANTS
    Requests,   \* the requests: tools/call
    MaxLines,   \* how many lines are read for an answer
    MaxNoise,   \* bound: the lines of the server that are no answers
    MaxCancels, \* bound: the cancellations
    None        \* a line that answers nothing

McpAssumption ==
    /\ MaxLines \in Nat \ {0} /\ {MaxNoise, MaxCancels} \subseteq Nat
    /\ None \notin Requests

VARIABLES
    queue,   \* _rpc_lock: who has it, and those that wait
    server,  \* the process
    asked,   \* the requests that the server has and has not answered
    lines,   \* what it has written and nobody has read
    at,      \* where each request is
    read,    \* how many lines it has read
    result,  \* how it ended
    noise, cancels

vars == <<queue, server, asked, lines, at, read, result, noise, cancels>>

Init ==
    /\ queue = <<>> /\ server = "up"
    /\ asked = {} /\ lines = <<>>
    /\ at = [r \in Requests |-> "idle"]
    /\ read = [r \in Requests |-> 0]
    /\ result = [r \in Requests |-> [is |-> "none", of |-> None]]
    /\ noise = 0 /\ cancels = 0

-----------------------------------------------------------------------------
(* The server.                                                             *)

Line(of, is) == lines' = Append(lines, [of |-> of, is |-> is])

Reply(r) ==
    /\ server = "up" /\ r \in asked
    /\ asked' = asked \ {r}
    /\ \E is \in {"output", "error"} : Line(r, is)
    /\ UNCHANGED <<queue, server, at, read, result, noise, cancels>>

(* A notification, a request of its own, or no JSON at all. *)
Say ==
    /\ server = "up" /\ noise < MaxNoise
    /\ noise' = noise + 1
    /\ Line(None, "other")
    /\ UNCHANGED <<queue, server, asked, at, read, result, cancels>>

(* It dies, or disconnect has it killed. *)
Die ==
    /\ server = "up"
    /\ server' = "down"
    /\ asked' = {}
    /\ UNCHANGED <<queue, lines, at, read, result, noise, cancels>>

-----------------------------------------------------------------------------
(* The client.                                                             *)

Leave(r, is, of) ==
    /\ \E i \in DOMAIN queue : queue[i] = r /\ queue' = RemoveAt(queue, i)
    /\ result' = [result EXCEPT ![r] = [is |-> is, of |-> of]]
    /\ at' = [at EXCEPT ![r] = "done"]

Ask(r) ==
    /\ at[r] = "idle"
    /\ queue' = Append(queue, r)
    /\ at' = [at EXCEPT ![r] = "waiting"]
    /\ UNCHANGED <<server, asked, lines, read, result, noise, cancels>>

(* A pipe that is broken may take the request, or raise.                   *)
Send(r) ==
    /\ at[r] = "waiting" /\ queue[1] = r
    /\ \/ /\ asked' = IF server = "up" THEN asked \union {r} ELSE asked
          /\ at' = [at EXCEPT ![r] = "reading"]
          /\ UNCHANGED <<queue, result>>
       \/ /\ server = "down"
          /\ Leave(r, "error", r)
          /\ UNCHANGED asked
    /\ UNCHANGED <<server, lines, read, noise, cancels>>

(* Faulty: the first answer is taken. *)
ReadAny(r) ==
    /\ at[r] = "reading" /\ lines # <<>>
    /\ lines' = Tail(lines)
    /\ read' = [read EXCEPT ![r] = @ + 1]
    /\ IF lines[1].of # None THEN Leave(r, lines[1].is, lines[1].of)
       ELSE IF read'[r] = MaxLines THEN Leave(r, "nothing", None)
       ELSE UNCHANGED <<queue, result, at>>
    /\ UNCHANGED <<server, asked, noise, cancels>>

Read(r) ==
    /\ at[r] = "reading" /\ lines # <<>>
    /\ lines' = Tail(lines)
    /\ read' = [read EXCEPT ![r] = @ + 1]
    /\ IF lines[1].of = r THEN Leave(r, lines[1].is, r)
       ELSE IF read'[r] = MaxLines THEN Leave(r, "nothing", None)
       ELSE UNCHANGED <<queue, result, at>>
    /\ UNCHANGED <<server, asked, noise, cancels>>

(* Faulty: it waits for as long as the server lives. *)
GiveUpAtEnd(r) ==
    /\ at[r] = "reading" /\ lines = <<>> /\ server = "down"
    /\ Leave(r, "nothing", None)
    /\ UNCHANGED <<server, asked, lines, read, noise, cancels>>

(* 15 s without a line, or the end of the pipe. *)
GiveUp(r) ==
    /\ at[r] = "reading" /\ lines = <<>>
    /\ Leave(r, "nothing", None)
    /\ UNCHANGED <<server, asked, lines, read, noise, cancels>>

(* The run is cancelled: the answer is left in the pipe. *)
Cancel(r) ==
    /\ at[r] \in {"waiting", "reading"}
    /\ cancels < MaxCancels /\ cancels' = cancels + 1
    /\ Leave(r, "cancelled", None)
    /\ UNCHANGED <<server, asked, lines, read, noise>>

Next ==
    \/ Say \/ Die
    \/ \E r \in Requests :
         Reply(r) \/ Ask(r) \/ Send(r) \/ Read(r) \/ GiveUp(r) \/ Cancel(r)

(* A request is sent when the lock is free, lines are read, and 15 s pass.  *)
(* The server owes nothing.                                                *)
Fairness == \A r \in Requests : WF_vars(Send(r)) /\ WF_vars(Read(r)) /\ WF_vars(GiveUp(r))

Spec == Init /\ [][Next]_vars /\ Fairness

-----------------------------------------------------------------------------

TypeOK ==
    /\ queue \in Seq(Requests) /\ IsInjective(queue)
    /\ server \in {"up", "down"} /\ asked \subseteq Requests
    /\ lines \in Seq([of : Requests \union {None}, is : {"output", "error", "other"}])
    /\ at \in [Requests -> {"idle", "waiting", "reading", "done"}]
    /\ read \in [Requests -> 0..MaxLines]
    /\ result \in [Requests -> [is : {"none", "output", "error", "nothing", "cancelled"},
                                of : Requests \union {None}]]
    /\ noise \in 0..MaxNoise /\ cancels \in 0..MaxCancels

(* What a request returns is the answer to it, whichever answers to earlier *)
(* requests come late: "concurrent tool calls swapped responses".          *)
AnswerIsOwn == \A r \in Requests : result[r].is \in {"output", "error"} => result[r].of = r

(* An answer that has come within the lines that are still read is taken,   *)
(* unless the request is cancelled.                                        *)
AnswerIsTaken ==
    \A r \in Requests :
        (/\ at[r] = "reading"
         /\ \E i \in 1..(MaxLines - read[r]) : i \in DOMAIN lines /\ lines[i].of = r)
        ~> result[r].is \in {"output", "error", "cancelled"}

(* Every request ends. *)
RequestsEnd == \A r \in Requests : at[r] = "waiting" ~> at[r] = "done"
=============================================================================
