---------------------------------- MODULE Events ----------------------------------
(***************************************************************************)
(* The tasks of an event loop: the lock of tasks (AsyncFIFOLock), the      *)
(* reception of webhooks (Webhooks), the resolutions that they ask for      *)
(* (Resolver), the hooks of a conversation (Hooks), and the registry of     *)
(* devices (Nodes), side by side in one state.                             *)
(*                                                                         *)
(* They share no state: a step of one leaves the others as they are.       *)
(***************************************************************************)
EXTENDS AsyncFIFOLock

CONSTANTS
    Fingerprints, Handlers, Loops, MaxDeliveries, MaxQueue, MaxRetries, MaxSwitches, \* of webhooks
    Calls, Requests, MaxConcurrent,                                       \* of resolutions
    Objects, Defaults, Settings, Emitters, MaxHookChanges,                \* of hooks
    Devices, Nodes, Senders, MaxNodes, MaxNodeChanges,                    \* of devices
    None

VARIABLES
    print, answer, seen, queue, running, loops, stopped, processor, got, wired, taskAt, todo,
    failing, retries, status, window, switches,
    request, free, events, cancelled, callAt, outcome, results, promised,
    hooks, key, enabled, attributes, index, sorted, ahead, current, emitterAt, verdict, heard,
    steadyHooks, rank, stopping, hookChanges,
    nodes, device, connected, kind, rest, mutated, sending, lost, senderAt, told, steadyNodes,
    nodeChanges

webhooks ==
    <<print, answer, seen, queue, running, loops, stopped, processor, got, wired, taskAt, todo,
      failing, retries, status, window, switches>>
resolutions == <<request, free, events, cancelled, callAt, outcome, results, promised>>
emissions ==
    <<hooks, key, enabled, attributes, index, sorted, ahead, current, emitterAt, verdict, heard,
      steadyHooks, rank, stopping, hookChanges>>
devices ==
    <<nodes, device, connected, kind, rest, mutated, sending, lost, senderAt, told, steadyNodes,
      nodeChanges>>

eventVars == <<vars, webhooks, resolutions, emissions, devices>>

-----------------------------------------------------------------------------

Web == INSTANCE Webhooks WITH cancelled <- stopped, at <- taskAt

(* Every call has a request of its own. *)
Resolve == INSTANCE Resolver WITH Distinct <- TRUE, at <- callAt

Hook ==
    INSTANCE Hooks WITH
        MaxChanges <- MaxHookChanges, todo <- ahead, at <- emitterAt, steady <- steadyHooks,
        changes <- hookChanges

Node ==
    INSTANCE Nodes WITH
        Tasks <- Senders, MaxChanges <- MaxNodeChanges, at <- senderAt, steady <- steadyNodes,
        changes <- nodeChanges

ASSUME EventsAssumption ==
    /\ Web!WebhookAssumption /\ Resolve!ResolverAssumption
    /\ Hook!HooksAssumption /\ Node!NodesAssumption

-----------------------------------------------------------------------------

EventsInit == Init /\ Web!Init /\ Resolve!Init /\ Hook!Init /\ Node!Init

EventsNext ==
    \/ Next /\ UNCHANGED <<webhooks, resolutions, emissions, devices>>
    \/ Web!Next /\ UNCHANGED <<vars, resolutions, emissions, devices>>
    \/ Resolve!Next /\ UNCHANGED <<vars, webhooks, emissions, devices>>
    \/ Hook!Next /\ UNCHANGED <<vars, webhooks, resolutions, devices>>
    \/ Node!Next /\ UNCHANGED <<vars, webhooks, resolutions, emissions>>

EventsSpec == EventsInit /\ [][EventsNext]_eventVars

-----------------------------------------------------------------------------

(* An event that was accepted is in one place until it has its result, once *)
(* in its window, and has failed only after all tries: see Webhooks.        *)
WebhooksAreKept == Web!TypeOK /\ Web!QueuedIsHandled /\ Web!OncePerWindow /\ Web!FailedAfterAllTries

(* A resolution gives its slot back, is not completed when it was cancelled  *)
(* in time, and its result is on record: see Resolver.                      *)
ResolutionsAreKept ==
    Resolve!TypeOK /\ Resolve!SlotsAreReturned /\ Resolve!CancelIsHonoured /\ Resolve!ResultsAreOnRecord

(* No steady hook is passed by, and a denial stands: see Hooks.             *)
HooksAreHeard == Hook!TypeOK /\ Hook!SteadyHooksAreHeard /\ Hook!DenialStands

(* A device has one node, and a broadcast reaches every steady node: see     *)
(* Nodes.                                                                  *)
DevicesAreTold == Node!TypeOK /\ Node!OneNodePerDevice /\ Node!BroadcastReachesAll

(* All of these together, and one task has the lock at most. *)
EventsAreHandled ==
    OneHolder /\ WebhooksAreKept /\ ResolutionsAreKept /\ HooksAreHeard /\ DevicesAreTold
=============================================================================
