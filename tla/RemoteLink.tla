------------------------------- MODULE RemoteLink --------------------------------
(***************************************************************************)
(* The connection of app/conversation/remote_conversation.py: connect,      *)
(* disconnect and close by the callers, the listener of a socket, and the    *)
(* task that reconnects.                                                    *)
(*                                                                         *)
(* One event loop; an action is what a coroutine does between two awaits.   *)
(* Sockets are never reused.                                                *)
(***************************************************************************)
EXTENDS Naturals

CONSTANTS
    Callers,     \* coroutines that use the conversation
    Sockets,     \* bound: the sockets that are ever opened
    MaxAttempts, \* max_reconnect_attempts
    Patient,     \* nobody connects or sends while another connect is under way
    Polite,      \* the server may end a connection without an error
    None         \* no socket

(* What the constants must be. *)
LinkAssumption ==
    /\ MaxAttempts \in Nat
    /\ Patient \in BOOLEAN /\ Polite \in BOOLEAN
    /\ None \notin Sockets

VARIABLES
    state,    \* _connection_state
    ws,       \* _ws
    listens,  \* the socket _listener_task reads, None if it does not run
    repair,   \* _reconnect_task: "none", "sleeping" or "connecting"
    attempts, \* _reconnect_attempts
    at,       \* where each caller is
    closes,   \* the socket whose end a caller of disconnect awaits
    open,     \* the sockets that are open
    fresh,    \* the sockets that were never opened
    wished,   \* the last of connect and disconnect that a caller asked for
    outbox    \* messages that were reported as buffered

vars == <<state, ws, listens, repair, attempts, at, closes, open, fresh, wished, outbox>>

Init ==
    /\ state = "disconnected"
    /\ ws = None /\ listens = None
    /\ repair = "none" /\ attempts = 0
    /\ at = [c \in Callers |-> "idle"]
    /\ closes = [c \in Callers |-> None]
    /\ open = {} /\ fresh = Sockets
    /\ wished = "disconnect"
    /\ outbox = 0

Goto(c, place) == at' = [at EXCEPT ![c] = place]

Quiet == repair = "none" /\ \A c \in Callers : at[c] = "idle"

-----------------------------------------------------------------------------
(* connect, by a caller or by the task.                                    *)

(* _start_reconnect: a task that has no attempts left ends at once.         *)
StartRepair ==
    IF repair = "none" /\ attempts < MaxAttempts
    THEN repair' = "sleeping" /\ attempts' = attempts + 1
    ELSE UNCHANGED <<repair, attempts>>

(* Faulty: also over a connection that there is. *)
ConnectAnew(c) ==
    /\ at[c] = "idle"
    /\ Patient => Quiet
    /\ state' = "connecting"
    /\ wished' = "connect"
    /\ Goto(c, "connecting")
    /\ UNCHANGED <<ws, listens, repair, attempts, closes, open, fresh, outbox>>

Connect(c) ==
    /\ at[c] = "idle" /\ state # "connected"
    /\ Patient => Quiet
    /\ state' = "connecting"
    /\ wished' = "connect"
    /\ Goto(c, "connecting")
    /\ UNCHANGED <<ws, listens, repair, attempts, closes, open, fresh, outbox>>

(* Faulty: the listener is started once. *)
OpenedOnce(s) ==
    /\ s \in fresh
    /\ ws' = s
    /\ open' = open \union {s} /\ fresh' = fresh \ {s}
    /\ state' = "connected"
    /\ listens' = IF fresh = Sockets THEN s ELSE listens
    /\ attempts' = 0

(* The new socket takes the place of any other; a listener that runs stays  *)
(* with the one it has.                                                     *)
Opened(s) ==
    /\ s \in fresh
    /\ ws' = s
    /\ open' = open \union {s} /\ fresh' = fresh \ {s}
    /\ state' = "connected"
    /\ listens' = IF listens = None THEN s ELSE listens
    /\ attempts' = 0

Connected(c, s) ==
    /\ at[c] = "connecting"
    /\ Opened(s)
    /\ Goto(c, "idle")
    /\ UNCHANGED <<repair, closes, wished, outbox>>

Refused(c) ==
    /\ at[c] = "connecting"
    /\ state' = "disconnected" /\ ws' = None
    /\ StartRepair
    /\ Goto(c, "idle")
    /\ UNCHANGED <<listens, closes, open, fresh, wished, outbox>>

(* The task wakes up; connect has nothing to do if there is a connection.  *)
Retry ==
    /\ repair = "sleeping"
    /\ IF state = "connected" THEN repair' = "none" /\ UNCHANGED state
                              ELSE repair' = "connecting" /\ state' = "connecting"
    /\ UNCHANGED <<ws, listens, attempts, at, closes, open, fresh, wished, outbox>>

Repaired(s) ==
    /\ repair = "connecting"
    /\ Opened(s)
    /\ repair' = "none"
    /\ UNCHANGED <<at, closes, wished, outbox>>

(* Faulty: the attempts are not counted. *)
NotRepairedEver ==
    /\ repair = "connecting"
    /\ state' = "disconnected" /\ ws' = None
    /\ repair' = "sleeping" /\ attempts' = attempts + 1
    /\ UNCHANGED <<listens, at, closes, open, fresh, wished, outbox>>

NotRepaired ==
    /\ repair = "connecting"
    /\ state' = "disconnected" /\ ws' = None
    /\ IF attempts < MaxAttempts THEN repair' = "sleeping" /\ attempts' = attempts + 1
                                 ELSE repair' = "none" /\ UNCHANGED attempts
    /\ UNCHANGED <<listens, at, closes, open, fresh, wished, outbox>>

-----------------------------------------------------------------------------
(* The end of a connection.                                                *)

(* Faulty: a lost connection is only noted. *)
LostOnly(s) ==
    /\ s \in open
    /\ open' = open \ {s}
    /\ listens' = IF listens = s THEN None ELSE listens
    /\ IF listens = s /\ state = "connected" THEN state' = "disconnected" /\ ws' = None
       ELSE UNCHANGED <<state, ws>>
    /\ UNCHANGED <<repair, attempts, at, closes, fresh, wished, outbox>>

(* The listener of a socket that fails sees an error. *)
Lost(s) ==
    /\ s \in open
    /\ open' = open \ {s}
    /\ listens' = IF listens = s THEN None ELSE listens
    /\ IF listens = s /\ state = "connected"
       THEN state' = "disconnected" /\ ws' = None /\ StartRepair
       ELSE UNCHANGED <<state, ws, repair, attempts>>
    /\ UNCHANGED <<at, closes, fresh, wished, outbox>>

(* The listener of a socket that the server closes comes to its end. *)
Ended(s) ==
    /\ Polite
    /\ s \in open
    /\ open' = open \ {s}
    /\ listens' = IF listens = s THEN None ELSE listens
    /\ UNCHANGED <<state, ws, repair, attempts, at, closes, fresh, wished, outbox>>

(* Both tasks are cancelled before the socket is closed. *)
Cancelled ==
    /\ state' = "disconnected"
    /\ listens' = None /\ repair' = "none"
    /\ wished' = "disconnect"

(* Faulty: the task that reconnects goes on. *)
DisconnectOnly(c) ==
    /\ at[c] = "idle"
    /\ Patient => \A d \in Callers : at[d] = "idle"
    /\ state' = "disconnected" /\ listens' = None /\ wished' = "disconnect"
    /\ IF ws = None THEN UNCHANGED <<at, closes>>
       ELSE Goto(c, "closing") /\ closes' = [closes EXCEPT ![c] = ws]
    /\ UNCHANGED <<ws, repair, attempts, open, fresh, outbox>>

Disconnect(c) ==
    /\ at[c] = "idle"
    /\ Patient => \A d \in Callers : at[d] = "idle"
    /\ Cancelled
    /\ IF ws = None THEN UNCHANGED <<at, closes>>
       ELSE Goto(c, "closing") /\ closes' = [closes EXCEPT ![c] = ws]
    /\ UNCHANGED <<ws, attempts, open, fresh, outbox>>

(* The socket that was closed is gone, and so is whatever is in its place.  *)
Disconnected(c) ==
    /\ at[c] = "closing"
    /\ open' = open \ {closes[c]}
    /\ ws' = None
    /\ Goto(c, "idle")
    /\ closes' = [closes EXCEPT ![c] = None]
    /\ UNCHANGED <<state, listens, repair, attempts, fresh, wished, outbox>>

(* close(), which does not wait. *)
Close(c) ==
    /\ at[c] = "idle"
    /\ Patient => \A d \in Callers : at[d] = "idle"
    /\ Cancelled
    /\ ws' = None
    /\ open' = open \ {ws}
    /\ UNCHANGED <<attempts, at, closes, fresh, outbox>>

(* A message of a caller: nobody sends later what was not sent. *)
Send(c) ==
    /\ at[c] = "idle" /\ outbox = 0
    /\ state # "connected" \/ ws \notin open
    /\ outbox' = 1
    /\ UNCHANGED <<state, ws, listens, repair, attempts, at, closes, open, fresh, wished>>

Repair == Retry \/ NotRepaired \/ \E s \in Sockets : Repaired(s)

Settle(c) == Refused(c) \/ Disconnected(c) \/ \E s \in Sockets : Connected(c, s)

Next ==
    \/ Repair
    \/ \E c \in Callers : Connect(c) \/ Disconnect(c) \/ Close(c) \/ Send(c) \/ Settle(c)
    \/ \E s \in Sockets : Lost(s) \/ Ended(s)

Spec == Init /\ [][Next]_vars

(* Connects have a time limit, sleeps and closes end.  A socket that fails *)
(* is not fair.                                                             *)
Fairness == WF_vars(Repair) /\ \A c \in Callers : WF_vars(Settle(c))

FairSpec == Spec /\ Fairness

-----------------------------------------------------------------------------

(* The task never makes more attempts than it may. *)
TypeOK ==
    /\ state \in {"disconnected", "connecting", "connected"}
    /\ ws \in Sockets \union {None} /\ listens \in Sockets \union {None}
    /\ repair \in {"none", "sleeping", "connecting"}
    /\ attempts \in 0..MaxAttempts
    /\ at \in [Callers -> {"idle", "connecting", "closing"}]
    /\ closes \in [Callers -> Sockets \union {None}]
    /\ open \subseteq Sockets /\ fresh \subseteq Sockets \ open
    /\ wished \in {"connect", "disconnect"}
    /\ outbox \in 0..1

(* An open connection that callers are told of is listened to, also after  *)
(* reconnections: its events arrive and its failure is noticed.             *)
OpenIsHeard == state = "connected" /\ ws \in open => listens = ws

(* There is one socket at most. *)
OneSocket == \A s, t \in open : s = t

(* A connection that nobody wants is not made again, and none stays open.  *)
DisconnectSticks ==
    wished = "disconnect" /\ (\A c \in Callers : at[c] = "idle") =>
        state = "disconnected" /\ repair = "none" /\ open = {}

(* A connection that is lost is repaired, unless the attempts run out or a *)
(* caller disconnects ("If the connection drops, it automatically           *)
(* reconnects").                                                            *)
LossIsRepaired ==
    state # "connected" /\ wished = "connect" ~>
        state = "connected" \/ wished = "disconnect" \/ attempts = MaxAttempts

-----------------------------------------------------------------------------
(* What the code does not keep, and no run checks: see README, section 6.  *)

(* Whoever is told that there is a connection has one (is_connected:        *)
(* "Whether the WebSocket is currently connected").                         *)
ConnectedIsOpen == state = "connected" => ws \in open

(* A message that is reported as buffered is sent after a reconnection     *)
(* ("the message is buffered locally and will be sent upon reconnection").  *)
MessagesAreSent == outbox = 1 /\ state = "connected" ~> outbox = 0
=============================================================================
