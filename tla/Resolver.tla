-------------------------------- MODULE Resolver --------------------------------
(***************************************************************************)
(* The resolutions of one IssueResolver, app/integrations/resolver.py:     *)
(* resolve and cancel, with the slots of its semaphore.                    *)
(*                                                                         *)
(* A resolution moves from one await to the next.  The handler of webhooks  *)
(* makes a resolver of its own for every event, so that its resolutions     *)
(* meet no limit and cannot be cancelled from outside.                      *)
(***************************************************************************)
EXTENDS Naturals, FiniteSets

CONSTANTS
    Calls,         \* calls of resolve
    Requests,      \* request_id
    MaxConcurrent, \* max_concurrent
    Distinct,      \* whether the calls have requests of their own
    None

(* What the constants must be. *)
ResolverAssumption ==
    /\ MaxConcurrent \in Nat \ {0} /\ Distinct \in BOOLEAN /\ None \notin Calls
    /\ Distinct => Calls \subseteq Requests

VARIABLES
    request,   \* the request of each call
    free,      \* the slots that are left in _semaphore
    events,    \* _cancellation_events: the call that has registered the event of a request
    cancelled, \* the calls whose event is set
    at,        \* where each call is
    outcome,   \* the status of its ResolutionResult
    results,   \* _results: the status that is recorded of each request
    promised   \* the calls that cancel found before their last look at the event

vars == <<request, free, events, cancelled, at, outcome, results, promised>>

Init ==
    /\ request \in [Calls -> Requests]
    /\ Distinct => \A c \in Calls : request[c] = c
    /\ free = MaxConcurrent
    /\ events = [r \in Requests |-> None]
    /\ cancelled = {}
    /\ at = [c \in Calls |-> "new"]
    /\ outcome = [c \in Calls |-> "pending"]
    /\ results = [r \in Requests |-> None]
    /\ promised = {}

Move(c, to) == at' = [at EXCEPT ![c] = to]

(* The result is recorded, and the event of the request forgotten.          *)
Close(c, how) ==
    /\ Move(c, "over")
    /\ outcome' = [outcome EXCEPT ![c] = how]
    /\ results' = [results EXCEPT ![request[c]] = how]
    /\ events' = [events EXCEPT ![request[c]] = None]

(* The finally of resolve. *)
Finish(c, how) == Close(c, how) /\ free' = free + 1

IsCancelled(c) == events[request[c]] \in cancelled

-----------------------------------------------------------------------------
(* resolve: it does not wait for a slot.                                   *)

Begin(c) ==
    /\ at[c] = "new"
    /\ \/ /\ free > 0
          /\ Move(c, "prompt")
          /\ free' = free - 1
          /\ outcome' = [outcome EXCEPT ![c] = "running"]
          /\ events' = [events EXCEPT ![request[c]] = c]
          /\ UNCHANGED results
       \/ /\ free = 0
          /\ Close(c, "failed")
          /\ UNCHANGED free
    /\ UNCHANGED <<request, cancelled, promised>>

(* Faulty: it looks at the event before the prompt and not behind the LLM. *)
AwaitOnce(c) ==
    /\ at[c] \in {"prompt", "llm"}
    /\ \/ Finish(c, "failed")
       \/ at[c] = "llm" /\ Finish(c, "timed_out")
       \/ at[c] = "prompt" /\ IsCancelled(c) /\ Finish(c, "cancelled")
       \/ /\ at[c] = "llm" \/ ~IsCancelled(c)
          /\ Move(c, IF at[c] = "prompt" THEN "llm" ELSE "comment")
          /\ UNCHANGED <<free, events, outcome, results>>
    /\ UNCHANGED <<request, cancelled, promised>>

(* The prompt and the answer of the LLM, each with a look at the event.     *)
Await(c) ==
    /\ at[c] \in {"prompt", "llm"}
    /\ \/ Finish(c, "failed")
       \/ at[c] = "llm" /\ Finish(c, "timed_out")
       \/ IsCancelled(c) /\ Finish(c, "cancelled")
       \/ /\ ~IsCancelled(c)
          /\ Move(c, IF at[c] = "prompt" THEN "llm" ELSE "comment")
          /\ UNCHANGED <<free, events, outcome, results>>
    /\ UNCHANGED <<request, cancelled, promised>>

(* The comment is posted, or not. *)
Comment(c) ==
    /\ at[c] = "comment"
    /\ Finish(c, "completed")
    /\ UNCHANGED <<request, cancelled, promised>>

(* The task of the call is cancelled: the result stays as it is. *)
Abort(c) ==
    /\ at[c] \in {"prompt", "llm", "comment"}
    /\ Finish(c, outcome[c])
    /\ UNCHANGED <<request, cancelled, promised>>

(* cancel, which returns True. *)
Cancel(r) ==
    /\ events[r] # None
    /\ cancelled' = cancelled \union {events[r]}
    /\ promised' = promised \union {c \in Calls : request[c] = r /\ at[c] \in {"prompt", "llm"}}
    /\ UNCHANGED <<request, free, events, at, outcome, results>>

Resolve(c) == Await(c) \/ Comment(c)

Next ==
    \/ \E c \in Calls : Begin(c) \/ Resolve(c) \/ Abort(c)
    \/ \E r \in Requests : Cancel(r)

Spec == Init /\ [][Next]_vars

(* The LLM has a timeout; the git provider is taken to answer. *)
Fairness == \A c \in Calls : WF_vars(Resolve(c))

-----------------------------------------------------------------------------

Running == {c \in Calls : at[c] \in {"prompt", "llm", "comment"}}

TypeOK ==
    /\ request \in [Calls -> Requests]
    /\ free \in 0..MaxConcurrent
    /\ events \in [Requests -> Calls \union {None}]
    /\ cancelled \subseteq Calls /\ promised \subseteq Calls
    /\ at \in [Calls -> {"new", "prompt", "llm", "comment", "over"}]
    /\ outcome \in [Calls -> {"pending", "running", "failed", "timed_out", "cancelled", "completed"}]

(* Every way out of resolve gives the slot back that was taken, and no other. *)
SlotsAreReturned == free + Cardinality(Running) = MaxConcurrent

(* Where requests are distinct, a resolution that cancel has found in time   *)
(* is not completed; and the result of a call is the one on record.          *)
CancelIsHonoured == Distinct => \A c \in promised : outcome[c] # "completed"

ResultsAreOnRecord == Distinct => \A c \in Calls : at[c] = "over" => results[request[c]] = outcome[c]

(* A resolution ends.                                                       *)
ResolutionsEnd == \A c \in Calls : c \in Running ~> at[c] = "over"
=============================================================================
