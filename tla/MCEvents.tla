-------------------------------- MODULE MCEvents --------------------------------
(***************************************************************************)
(* The tasks of an event loop, on small instances, with the fairness that   *)
(* the code gives each of them: four tasks at the lock, of which two may be  *)
(* cancelled; three deliveries to a queue of one, with two handlers and one  *)
(* retry; three resolutions for two slots; three hooks; and two devices that *)
(* come back, with two senders.                                            *)
(* A behaviour shows one of them and leaves the others where they begin.     *)
(***************************************************************************)
EXTENDS Events, TLC

VARIABLE
    service \* the one that moves

(* A hook that fails open and may come first, one that fails closed, comes   *)
(* before it and may fail open, and one of the name of the first that does   *)
(* not subscribe, and may.                                                 *)
MCDefaults ==
    "o1" :> [name |-> "a", priority |-> 2, failOpen |-> TRUE, subscribes |-> TRUE] @@
    "o2" :> [name |-> "b", priority |-> 1, failOpen |-> FALSE, subscribes |-> TRUE] @@
    "o3" :> [name |-> "a", priority |-> 1, failOpen |-> FALSE, subscribes |-> FALSE]

MCSettings ==
    "o1" :> {[MCDefaults["o1"] EXCEPT !.priority = 0]} @@
    "o2" :> {[MCDefaults["o2"] EXCEPT !.failOpen = TRUE]} @@
    "o3" :> {[MCDefaults["o3"] EXCEPT !.subscribes = TRUE]}

-----------------------------------------------------------------------------

Services == {"lock", "webhooks", "resolutions", "hooks", "nodes"}

MCInit == service \in Services /\ EventsInit

(* Fingerprints are interchangeable, and so are senders: the first delivery  *)
(* has the first name, and the first to send.                               *)
DeliveriesInOrder == print'[1] # "g"

SendersInOrder == kind'["u"] # None => kind'["t"] # None

MCNext ==
    \/ /\ service = "lock" /\ Next
       /\ UNCHANGED <<service, webhooks, resolutions, emissions, devices>>
    \/ /\ service = "webhooks" /\ Web!Next /\ DeliveriesInOrder
       /\ UNCHANGED <<service, vars, resolutions, emissions, devices>>
    \/ /\ service = "resolutions" /\ Resolve!Next
       /\ UNCHANGED <<service, vars, webhooks, emissions, devices>>
    \/ /\ service = "hooks" /\ Hook!Next
       /\ UNCHANGED <<service, vars, webhooks, resolutions, devices>>
    \/ /\ service = "nodes" /\ Node!Next /\ SendersInOrder
       /\ UNCHANGED <<service, vars, webhooks, resolutions, emissions>>

MCSpec ==
    /\ MCInit
    /\ [][MCNext]_<<service, eventVars>>
    /\ Fairness
    /\ Web!Fairness /\ Resolve!Fairness /\ Hook!Fairness

-----------------------------------------------------------------------------

(* What an event loop has begun ends: a task that waits for the lock gets   *)
(* it or is cancelled, an event that was accepted gets its result while the  *)
(* service runs, a resolution ends, and so does the execution of hooks: see  *)
(* the modules.                                                            *)
EventsEnd == Served /\ Web!QueuedIsSettled /\ Resolve!ResolutionsEnd /\ Hook!ExecutionEnds
=============================================================================
