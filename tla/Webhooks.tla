-------------------------------- MODULE Webhooks --------------------------------
(***************************************************************************)
(* The reception of webhooks of app/integrations/webhook_handler.py: the   *)
(* store of fingerprints, the bounded queue, the loop that empties it, and *)
(* the tasks that hand events to handlers and try again, on one event loop. *)
(*                                                                         *)
(* Deliveries are numbered; signatures are valid.                           *)
(***************************************************************************)
EXTENDS Naturals, Sequences, FiniteSets, SequencesExt

CONSTANTS
    Fingerprints,  \* what the store tells events apart by
    Handlers,      \* event handlers
    Loops,         \* processor tasks
    MaxDeliveries, \* bound: the deliveries
    MaxQueue,      \* max_queue_size
    MaxRetries,    \* max_retries
    MaxSwitches,   \* bound: how often processing stops, a handler is switched or a window passes
    None

(* What the constants must be. *)
WebhookAssumption ==
    /\ MaxDeliveries \in Nat /\ MaxQueue \in Nat \ {0} /\ MaxRetries \in Nat
    /\ MaxSwitches \in Nat /\ IsFiniteSet(Handlers)
    /\ None \notin Fingerprints /\ None \notin Loops /\ None \notin 1..MaxDeliveries
    /\ None \notin {"queued", "failed"}

Deliveries == 1..MaxDeliveries

VARIABLES
    print,     \* the fingerprint of each delivery, None if it has not arrived
    answer,    \* what the sender was told
    seen,      \* _seen
    queue,     \* _queue
    running,   \* _running
    loops,     \* the processor tasks that live
    cancelled, \* those that have been cancelled
    processor, \* _processor_task
    got,       \* the event that the wait of a loop has taken from the queue
    wired,     \* the handlers, in the order of their registration
    at,        \* where the task of each event is
    todo,      \* the handlers that the try has not called
    failing,   \* last_error is set
    retries,   \* retry_count
    status,    \* of the result, None without one
    window,    \* the deliveries accepted since the store has forgotten their fingerprint
    switches   \* counts for MaxSwitches

reception == <<print, answer, seen, window>>
service == <<running, loops, cancelled, processor, got>>
tasks == <<at, todo, failing, retries, status>>
vars == <<reception, queue, service, wired, tasks, switches>>

Init ==
    /\ print = [d \in Deliveries |-> None]
    /\ answer = [d \in Deliveries |-> None]
    /\ seen = {}
    /\ queue = <<>>
    /\ running = FALSE
    /\ loops = {} /\ cancelled = {} /\ processor = None
    /\ got = [l \in Loops |-> None]
    /\ wired = SetToSeq(Handlers)
    /\ at = [d \in Deliveries |-> "none"]
    /\ todo = [d \in Deliveries |-> <<>>]
    /\ failing = [d \in Deliveries |-> FALSE]
    /\ retries = [d \in Deliveries |-> 0]
    /\ status = [d \in Deliveries |-> None]
    /\ window = [f \in Fingerprints |-> {}]
    /\ switches = 0

Switch == switches < MaxSwitches /\ switches' = switches + 1

-----------------------------------------------------------------------------
(* handle, and the end of a window or clear_dedup.                         *)

(* Faulty: an event that finds the queue full is put in its place. *)
ReceiveOver(d, f) ==
    /\ print[d] = None /\ \A e \in 1..(d - 1) : print[e] # None
    /\ print' = [print EXCEPT ![d] = f]
    /\ seen' = seen \union {f}
    /\ IF f \in seen
       THEN /\ answer' = [answer EXCEPT ![d] = "duplicate"]
            /\ UNCHANGED <<queue, window>>
       ELSE /\ answer' = [answer EXCEPT ![d] = "queued"]
            /\ queue' = Append(IF Len(queue) < MaxQueue THEN queue ELSE Tail(queue), d)
            /\ window' = [window EXCEPT ![f] = @ \union {d}]
    /\ UNCHANGED <<service, wired, tasks, switches>>

(* The fingerprint stays in the store when the queue is full. *)
Receive(d, f) ==
    /\ print[d] = None /\ \A e \in 1..(d - 1) : print[e] # None
    /\ print' = [print EXCEPT ![d] = f]
    /\ seen' = seen \union {f}
    /\ \/ /\ f \in seen
          /\ answer' = [answer EXCEPT ![d] = "duplicate"]
          /\ UNCHANGED <<queue, window>>
       \/ /\ f \notin seen /\ Len(queue) = MaxQueue
          /\ answer' = [answer EXCEPT ![d] = "rejected"]
          /\ UNCHANGED <<queue, window>>
       \/ /\ f \notin seen /\ Len(queue) < MaxQueue
          /\ answer' = [answer EXCEPT ![d] = "queued"]
          /\ queue' = Append(queue, d)
          /\ window' = [window EXCEPT ![f] = @ \union {d}]
    /\ UNCHANGED <<service, wired, tasks, switches>>

Expire(f) ==
    /\ f \in seen /\ Switch
    /\ seen' = seen \ {f}
    /\ window' = [window EXCEPT ![f] = {}]
    /\ UNCHANGED <<print, answer, queue, service, wired, tasks>>

-----------------------------------------------------------------------------
(* start_processing, stop_processing and _process_loop.                    *)

Start(l) ==
    /\ ~running
    /\ l \notin loops
    /\ running' = TRUE
    /\ loops' = loops \union {l}
    /\ processor' = l
    /\ UNCHANGED <<reception, queue, cancelled, got, wired, tasks, switches>>

(* Cancelling a task that has ended does nothing. *)
Stop ==
    /\ running /\ Switch
    /\ running' = FALSE
    /\ cancelled' = cancelled \union ({processor} \cap loops)
    /\ UNCHANGED <<reception, queue, loops, processor, got, wired, tasks>>

(* The get that wait_for runs in a task of its own. *)
Get(l) ==
    /\ l \in loops /\ got[l] = None /\ queue # <<>>
    /\ got' = [got EXCEPT ![l] = Head(queue)]
    /\ queue' = Tail(queue)
    /\ UNCHANGED <<reception, running, loops, cancelled, processor, wired, tasks, switches>>

(* A cancellation that finds the event taken is lost: wait_for of Python    *)
(* 3.11 returns the event.                                                  *)
Hand(l) ==
    /\ l \in loops /\ got[l] # None
    /\ at' = [at EXCEPT ![got[l]] = "created"]
    /\ got' = [got EXCEPT ![l] = None]
    /\ loops' = IF running THEN loops ELSE loops \ {l}
    /\ cancelled' = cancelled \ {l}
    /\ UNCHANGED <<reception, queue, running, processor, wired, todo, failing, retries, status, switches>>

(* Cancelled, or at the end of a wait after stop_processing. *)
LoopEnds(l) ==
    /\ l \in loops /\ got[l] = None
    /\ l \in cancelled \/ ~running
    /\ loops' = loops \ {l}
    /\ cancelled' = cancelled \ {l}
    /\ UNCHANGED <<reception, queue, running, processor, got, wired, tasks, switches>>

-----------------------------------------------------------------------------
(* on, off and _process_event.                                             *)

On(h) ==
    /\ h \notin Range(wired) /\ Switch
    /\ wired' = Append(wired, h)
    /\ UNCHANGED <<reception, queue, service, tasks>>

Off(h) ==
    /\ Switch
    /\ \E i \in DOMAIN wired : wired[i] = h /\ wired' = RemoveAt(wired, i)
    /\ UNCHANGED <<reception, queue, service, tasks>>

Enter(d, count) ==
    /\ at' = [at EXCEPT ![d] = "handling"]
    /\ todo' = [todo EXCEPT ![d] = wired]
    /\ failing' = [failing EXCEPT ![d] = FALSE]
    /\ retries' = [retries EXCEPT ![d] = count]

(* The first try, and the next one when its delay is over. *)
Try(d) ==
    /\ \/ at[d] = "created" /\ Enter(d, 0)
       \/ at[d] = "delayed" /\ Enter(d, retries[d] + 1)
    /\ UNCHANGED <<reception, queue, service, wired, status, switches>>

(* A handler returns, or raises. *)
Call(d) ==
    /\ at[d] = "handling" /\ todo[d] # <<>>
    /\ todo' = [todo EXCEPT ![d] = Tail(@)]
    /\ \E raised \in BOOLEAN : failing' = [failing EXCEPT ![d] = raised]
    /\ UNCHANGED <<reception, queue, service, wired, at, retries, status, switches>>

(* Faulty: the tries are not counted. *)
SettleOrRetry(d) ==
    /\ at[d] = "handling" /\ todo[d] = <<>>
    /\ IF failing[d]
       THEN at' = [at EXCEPT ![d] = "delayed"] /\ UNCHANGED status
       ELSE /\ at' = [at EXCEPT ![d] = "over"]
            /\ status' = [status EXCEPT ![d] = "completed"]
    /\ retries' = [retries EXCEPT ![d] = 0]
    /\ UNCHANGED <<reception, queue, service, wired, todo, failing, switches>>

(* The last handler decides; with no handler an event is completed. *)
Settle(d) ==
    /\ at[d] = "handling" /\ todo[d] = <<>>
    /\ IF failing[d] /\ retries[d] < MaxRetries
       THEN at' = [at EXCEPT ![d] = "delayed"] /\ UNCHANGED status
       ELSE /\ at' = [at EXCEPT ![d] = "over"]
            /\ status' = [status EXCEPT ![d] = IF failing[d] THEN "failed" ELSE "completed"]
    /\ UNCHANGED <<reception, queue, service, wired, todo, failing, retries, switches>>

Sender == \E d \in Deliveries, f \in Fingerprints : Receive(d, f)
Owner ==
    \/ \E f \in Fingerprints : Expire(f)
    \/ \E l \in Loops : Start(l)
    \/ Stop
    \/ \E h \in Handlers : On(h) \/ Off(h)
Loop(l) == Get(l) \/ Hand(l) \/ LoopEnds(l)
Task(d) == Try(d) \/ Settle(d)

Next ==
    \/ Sender \/ Owner
    \/ \E l \in Loops : Loop(l)
    \/ \E d \in Deliveries : Task(d) \/ Call(d)

Spec == Init /\ [][Next]_vars

(* The event loop serves its tasks; handlers are taken to return, though    *)
(* nothing makes them.                                                      *)
Fairness ==
    /\ \A l \in Loops : WF_vars(Loop(l))
    /\ \A d \in Deliveries : WF_vars(Task(d)) /\ WF_vars(Call(d))

-----------------------------------------------------------------------------

TypeOK ==
    /\ print \in [Deliveries -> Fingerprints \union {None}]
    /\ answer \in [Deliveries -> {None, "duplicate", "rejected", "queued"}]
    /\ seen \subseteq Fingerprints
    /\ Len(queue) <= MaxQueue /\ Range(queue) \subseteq Deliveries
    /\ running \in BOOLEAN /\ cancelled \subseteq loops /\ loops \subseteq Loops
    /\ processor \in Loops \union {None}
    /\ got \in [Loops -> Deliveries \union {None}]
    /\ Range(wired) \subseteq Handlers
    /\ at \in [Deliveries -> {"none", "created", "handling", "delayed", "over"}]
    /\ \A d \in Deliveries : Range(todo[d]) \subseteq Handlers
    /\ failing \in [Deliveries -> BOOLEAN]
    /\ retries \in [Deliveries -> 0..MaxRetries]
    /\ status \in [Deliveries -> {None, "completed", "failed"}]
    /\ window \in [Fingerprints -> SUBSET Deliveries]

(* An event is handled if its sender was told that it is queued, and then    *)
(* it is in one place, the queue, a loop or its task, whatever loops there   *)
(* are: handle, _process_loop.                                               *)
Places(d) ==
    Cardinality({i \in DOMAIN queue : queue[i] = d}) + Cardinality({l \in Loops : got[l] = d})
        + IF at[d] = "none" THEN 0 ELSE 1

QueuedIsHandled == \A d \in Deliveries : Places(d) = IF answer[d] = "queued" THEN 1 ELSE 0

(* In the window of its fingerprint at most one event is handled.            *)
OncePerWindow == \A f \in Fingerprints : Cardinality(window[f]) <= 1

(* FAILED is said after all tries: a single success of the last handler      *)
(* settles the event: _process_event.                                        *)
FailedAfterAllTries ==
    \A d \in Deliveries : status[d] = "failed" => failing[d] /\ retries[d] = MaxRetries

(* While the service runs, an event that was queued gets its result.         *)
QueuedIsSettled ==
    \A d \in Deliveries : answer[d] = "queued" ~> (status[d] # None \/ ~running)
=============================================================================
