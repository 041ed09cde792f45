---------------------------------- MODULE Nodes ----------------------------------
(***************************************************************************)
(* The registry of devices of app/nodes/manager.py, DeviceManager: devices  *)
(* register, send heartbeats, time out and go, while tasks send to one of   *)
(* them or to all, on one event loop.                                       *)
(*                                                                         *)
(* A node is a NodeInfo object, known by a name of its own: the senders     *)
(* keep it across their awaits.  Times are left to chance.                  *)
(***************************************************************************)
EXTENDS Naturals, Sequences, FiniteSets, SequencesExt

CONSTANTS
    Devices,       \* device_id
    Nodes,         \* NodeInfo objects
    Tasks,         \* calls of send_to_node and of broadcast
    MaxNodes,      \* max_nodes
    MaxChanges,    \* bound: registrations that update a node, removals and timeouts
    None

(* What the constants must be. *)
NodesAssumption == MaxNodes \in Nat \ {0} /\ MaxChanges \in Nat /\ None \notin Nodes \union Devices

VARIABLES
    nodes,     \* _nodes: the registered nodes in the order of the dict
    device,    \* the device of each node, None for a node that is not made
    connected, \* the nodes whose connected is set
    kind,      \* what each task does, None for one that has not begun
    rest,      \* the devices that the iterator of a broadcast has before it
    mutated,   \* the broadcasts under whose iterator the dict has changed
    sending,   \* the node that a task sends to
    lost,      \* disconnected: the devices that a broadcast will unregister
    at,        \* where each task is
    told,      \* the nodes that each task has sent to, with or without success
    steady,    \* the nodes that were there, and connected, ever since the task began
    changes    \* counts for MaxChanges

registry == <<nodes, device, connected>>
senders == <<kind, rest, sending, lost, at, told>>
vars == <<registry, senders, mutated, steady, changes>>

Init ==
    /\ nodes = <<>>
    /\ device = [n \in Nodes |-> None]
    /\ connected = {}
    /\ kind = [t \in Tasks |-> None]
    /\ rest = [t \in Tasks |-> <<>>]
    /\ mutated = {}
    /\ sending = [t \in Tasks |-> None]
    /\ lost = [t \in Tasks |-> {}]
    /\ at = [t \in Tasks |-> "new"]
    /\ told = [t \in Tasks |-> {}]
    /\ steady = [t \in Tasks |-> {}]
    /\ changes = 0

Change == changes < MaxChanges /\ changes' = changes + 1

(* The node that is registered for a device. *)
Registered(d) == {n \in Range(nodes) : device[n] = d}

(* These of the registered nodes, in the order of the dict. *)
Kept(those) ==
    {[a \in DOMAIN places |-> nodes[places[a]]] : places \in
        {p \in SetToSeqs({i \in DOMAIN nodes : nodes[i] \in those}) :
            \A a, b \in DOMAIN p : a < b => p[a] < p[b]}}

(* The dict gets this order; iterators over it find out. *)
Reorder(order) ==
    /\ nodes' = order
    /\ mutated' = mutated \union {t \in Tasks : at[t] = "sending" /\ kind[t] = "all" /\ order # nodes}

(* Only the nodes that still are there, and connected, have been so all the *)
(* time.                                                                    *)
Keep == steady' = [t \in Tasks |-> steady[t] \cap Range(nodes') \cap connected']

-----------------------------------------------------------------------------
(* register, unregister, update_heartbeat and check_heartbeats.            *)

Update(n) ==
    /\ n \in Range(nodes) /\ Change
    /\ \E others \in Kept(Nodes \ {n}) : Reorder(Append(others, n))
    /\ connected' = connected \union {n}
    /\ UNCHANGED <<device, senders, steady>>

(* Nodes that are stale make room, and then the oldest.                    *)
Insert(d, old) ==
    /\ Registered(d) = {} /\ \E n \in Nodes : device[n] = None
    /\ LET n == CHOOSE m \in Nodes : device[m] = None
       IN /\ \E fresh \in Kept(connected \ old) :
                LET surplus == IF Len(fresh) < MaxNodes THEN 0 ELSE Len(fresh) - MaxNodes + 1
                IN Reorder(Append(SubSeq(fresh, surplus + 1, Len(fresh)), n))
          /\ device' = [device EXCEPT ![n] = d]
          /\ connected' = connected \union {n}
    /\ Keep
    /\ UNCHANGED <<senders, changes>>

Unregister(d) ==
    /\ Registered(d) # {} /\ Change
    /\ \E others \in Kept(Nodes \ Registered(d)) : Reorder(others)
    /\ connected' = connected \ Registered(d)
    /\ Keep
    /\ UNCHANGED <<device, senders>>

Heartbeat(n) ==
    /\ n \in Range(nodes)
    /\ connected' = connected \union {n}
    /\ UNCHANGED <<nodes, device, senders, mutated, steady, changes>>

CheckHeartbeats(stale) ==
    /\ stale # {} /\ stale \subseteq Range(nodes) \cap connected /\ Change
    /\ connected' = connected \ stale
    /\ UNCHANGED <<nodes, device, senders, mutated>>
    /\ Keep

-----------------------------------------------------------------------------
(* send_to_node and broadcast, from one send to the next.  Every node that  *)
(* is registered has had a socket, and unregister takes it.                  *)

Send(t, n) ==
    /\ at' = [at EXCEPT ![t] = "sending"]
    /\ sending' = [sending EXCEPT ![t] = n]
    /\ told' = [told EXCEPT ![t] = @ \union {n}]

Leave(t, how) ==
    /\ at' = [at EXCEPT ![t] = how]
    /\ sending' = [sending EXCEPT ![t] = None]
    /\ UNCHANGED told

SendToNode(t, d) ==
    /\ at[t] = "new"
    /\ kind' = [kind EXCEPT ![t] = "one"]
    /\ \/ \E n \in Registered(d) \cap connected : Send(t, n)
       \/ Registered(d) \cap connected = {} /\ Leave(t, "over")
    /\ UNCHANGED <<registry, rest, mutated, lost, steady, changes>>

(* The devices before the iterator that can be sent to, by their places. *)
Open(ahead, up) == {i \in DOMAIN ahead : Registered(ahead[i]) \cap up # {}}

(* Those that have failed are unregistered, whatever node the device has by *)
(* now.                                                                     *)
CleanUp(gone, up) ==
    LET dead == {n \in Range(nodes) : device[n] \in gone}
    IN /\ \E others \in Kept(Nodes \ dead) : Reorder(others)
       /\ connected' = up \ dead

(* The loop goes on, with what is before its iterator, the devices that     *)
(* have failed and the nodes that are connected.  The iterator notices a    *)
(* change only when it has a device before it.                              *)
GoOn(t, ahead, gone, up) ==
    /\ \/ /\ ahead # <<>> /\ t \in mutated
          /\ Leave(t, "raised")
          /\ connected' = up
          /\ UNCHANGED <<nodes, rest, mutated>>
       \/ /\ t \notin mutated /\ Open(ahead, up) # {}
          /\ LET next == Min(Open(ahead, up))
             IN /\ rest' = [rest EXCEPT ![t] = SubSeq(ahead, next + 1, Len(ahead))]
                /\ \E n \in Registered(ahead[next]) : Send(t, n)
          /\ connected' = up
          /\ UNCHANGED <<nodes, mutated>>
       \/ /\ ahead = <<>> \/ (t \notin mutated /\ Open(ahead, up) = {})
          /\ Leave(t, "over")
          /\ CleanUp(gone, up)
          /\ UNCHANGED rest
    /\ lost' = [lost EXCEPT ![t] = gone]
    /\ UNCHANGED <<device, changes>>

Broadcast(t) ==
    /\ at[t] = "new"
    /\ kind' = [kind EXCEPT ![t] = "all"]
    /\ GoOn(t, [i \in DOMAIN nodes |-> device[nodes[i]]], {}, connected)
    /\ steady' = [steady EXCEPT ![t] = Range(nodes) \cap connected]

Sent(t) ==
    /\ at[t] = "sending" /\ UNCHANGED kind
    /\ \/ kind[t] = "all" /\ GoOn(t, rest[t], lost[t], connected) /\ Keep
       \/ kind[t] = "one" /\ Leave(t, "over") /\ UNCHANGED <<registry, rest, mutated, lost, steady, changes>>

(* A send to one node fails. *)
LoseOne(t) ==
    /\ kind[t] = "one" /\ Leave(t, "over")
    /\ connected' = connected \ {sending[t]}
    /\ UNCHANGED <<nodes, device, rest, mutated, lost, changes>>

(* Faulty: the first socket that fails ends the broadcast. *)
FailedAtOnce(t) ==
    /\ at[t] = "sending" /\ UNCHANGED kind
    /\ \/ LoseOne(t)
       \/ kind[t] = "all" /\ GoOn(t, <<>>, lost[t] \union {device[sending[t]]}, connected \ {sending[t]})
    /\ Keep

(* The node is marked, whatever socket it has by now. *)
Failed(t) ==
    /\ at[t] = "sending" /\ UNCHANGED kind
    /\ \/ LoseOne(t)
       \/ kind[t] = "all" /\ GoOn(t, rest[t], lost[t] \union {device[sending[t]]}, connected \ {sending[t]})
    /\ Keep

Device ==
    \/ \E n \in Nodes : Update(n) \/ Heartbeat(n)
    \/ \E d \in Devices, old \in SUBSET Range(nodes) : Insert(d, old)
    \/ \E d \in Devices : Unregister(d)
    \/ \E stale \in SUBSET Nodes : CheckHeartbeats(stale)

Next ==
    \/ Device
    \/ \E t \in Tasks : Broadcast(t) \/ Sent(t) \/ Failed(t)
    \/ \E t \in Tasks, d \in Devices : SendToNode(t, d)

Spec == Init /\ [][Next]_vars

-----------------------------------------------------------------------------

TypeOK ==
    /\ Len(nodes) <= MaxNodes /\ Range(nodes) \subseteq Nodes
    /\ device \in [Nodes -> Devices \union {None}]
    /\ connected \subseteq Nodes
    /\ kind \in [Tasks -> {None, "one", "all"}]
    /\ \A t \in Tasks : Range(rest[t]) \subseteq Devices
    /\ sending \in [Tasks -> Nodes \union {None}]
    /\ lost \in [Tasks -> SUBSET Devices]
    /\ at \in [Tasks -> {"new", "sending", "over", "raised"}]

(* A device has one node, however often it comes and goes: register.        *)
OneNodePerDevice ==
    /\ IsInjective(nodes)
    /\ \A m, n \in Range(nodes) : device[m] = device[n] => m = n

(* A broadcast that ends has tried every node that was registered and        *)
(* connected from its first step to its last, although the registry changes  *)
(* in between; otherwise it raises.                                          *)
BroadcastReachesAll ==
    \A t \in Tasks : kind[t] = "all" /\ at[t] = "over" => steady[t] \subseteq told[t]

(* "Clean up disconnected nodes": what the end of a broadcast takes out of   *)
(* the registry is not connected.                                            *)
CleansDisconnected ==
    [][\A t \in Tasks :
          kind[t] = "all" /\ at[t] = "sending" /\ at'[t] = "over"
              => Range(nodes) \ Range(nodes') \subseteq (Nodes \ connected) \union {sending[t]}]_vars
=============================================================================
