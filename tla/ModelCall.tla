------------------------------- MODULE ModelCall -------------------------------
(***************************************************************************)
(* One request of an agent to its language model: the retries of one model *)
(* and the fallback to the next in app/llm/llm.py, with the pool of API    *)
(* keys of credential_pool.py.                                             *)
(*                                                                         *)
(* Two budgets end the retries of a model, one for rate limits and one for *)
(* the other errors.  A rejected key has none: the next key is tried until *)
(* the pool has no more.  Waits are sleeps of some length.                 *)
(***************************************************************************)
EXTENDS Naturals, FiniteSets

CONSTANTS
    Keys,            \* the keys of the pool, by priority
    Models,          \* the length of the chain: the primary and its fallbacks
    MaxRetries,      \* _max_retries
    MaxRateRetries,  \* RATE_LIMIT_MAX_RETRIES
    DeepThinkers     \* the models of the chain that are known for long thinking

ASSUME CallAssumption ==
    /\ Keys \subseteq Nat /\ IsFiniteSet(Keys)
    /\ Models \in Nat \ {0}
    /\ MaxRetries \in Nat \ {0}
    /\ MaxRateRetries \in Nat
    /\ DeepThinkers \subseteq 1..Models

VARIABLES
    keys,  \* the state of each key
    call   \* the request: where it is, the model, the attempts of each budget, how often it was sent

callVars == <<keys, call>>

NoCall == [at |-> "out", model |-> 1, rate |-> 0, generic |-> 0, sent |-> 0]

CallInit ==
    /\ keys = [k \in Keys |-> "live"]
    /\ call = NoCall

(* CredentialPool.get: the first key that is not cooling; none when every   *)
(* key is, and then the request goes out with the key of the backend.      *)
Available == {k \in Keys : keys[k] = "live"}

First(k) == k \in Available /\ \A j \in Available : k <= j

(* Time has passed for the keys before the pool is asked: cooling takes a   *)
(* minute and a dead key is back after an hour, by which time the request  *)
(* that found it dead is assumed to be over.                               *)
Recover(over) ==
    keys' \in {f \in [Keys -> {"live", "cooling", "dead"}] :
                  \A k \in Keys : f[k] = keys[k] \/ (f[k] = "live" /\ keys[k] \in over)}

(* ask_tool. *)
Ask ==
    /\ call.at = "out"
    /\ Recover({"cooling", "dead"})
    /\ call' = [NoCall EXCEPT !.at = "send", !.sent = 1]

Wake ==
    /\ call.at = "sleep"
    /\ Recover({"cooling"})
    /\ call' = [call EXCEPT !.at = "send", !.sent = @ + 1]

Ended(outcome) == [NoCall EXCEPT !.at = outcome]

Answer ==
    /\ call.at = "send"
    /\ call' = Ended("answered")
    /\ UNCHANGED keys

(* What a model raised: the next model of the chain gets budgets of its    *)
(* own, and after the last the error reaches the agent.                    *)
Raised(error) ==
    IF call.model < Models
    THEN [call EXCEPT !.at = "sleep", !.model = @ + 1, !.rate = 0, !.generic = 0]
    ELSE Ended(error)

Retried(budget) == [call EXCEPT !.at = "sleep", ![budget] = @ + 1]

(* HTTP 429: the key cools down for a minute. *)
RateLimit ==
    /\ call.at = "send"
    /\ keys' = [k \in Keys |-> IF First(k) THEN "cooling" ELSE keys[k]]
    /\ call' = IF call.rate + 1 > MaxRateRetries THEN Raised("failed") ELSE Retried("rate")

(* Faulty: the rejected key stays in use. *)
SameKeyAgain ==
    /\ call.at = "send"
    /\ call' = IF Available = {} THEN Raised("failed")
               ELSE [call EXCEPT !.at = "sleep"]
    /\ UNCHANGED keys

(* HTTP 401 or 403: the key is dead for an hour. *)
Reject ==
    /\ call.at = "send"
    /\ keys' = [k \in Keys |-> IF First(k) THEN "dead" ELSE keys[k]]
    /\ call' = IF Available = {} THEN Raised("failed")
               ELSE [call EXCEPT !.at = "sleep"]

(* A timeout never falls back to another model. *)
TimeOut ==
    /\ call.at = "send"
    /\ call' = IF call.model \in DeepThinkers \/ call.generic + 1 >= MaxRetries
               THEN Ended("failed")
               ELSE Retried("generic")
    /\ UNCHANGED keys

(* Any other error: what looks transient is retried, and the rest once.  A  *)
(* client may have its own error for a context that is too long.           *)
OtherError ==
    /\ call.at = "send"
    /\ \E transient \in BOOLEAN, error \in {"failed", "overflow"} :
         call' = IF (~transient /\ call.generic >= 1) \/ call.generic + 1 >= MaxRetries
                 THEN Raised(error) ELSE Retried("generic")
    /\ UNCHANGED keys

(* The context is too long for the model: a larger one may follow. *)
Overflow ==
    /\ call.at = "send"
    /\ call' = Raised("overflow")
    /\ UNCHANGED keys

Calling == Answer \/ RateLimit \/ Reject \/ TimeOut \/ OtherError \/ Overflow \/ Wake

-----------------------------------------------------------------------------

CallTypeOK ==
    /\ keys \in [Keys -> {"live", "cooling", "dead"}]
    /\ call \in [at : {"out", "send", "sleep", "answered", "failed", "overflow"},
                 model : 1..Models, rate : 0..MaxRateRetries, generic : 0..MaxRetries, sent : Nat]

(* A request to the model is sent a bounded number of times, whatever the   *)
(* order of rate limits, rejected keys, timeouts and errors, although the  *)
(* loop over rejected keys counts nothing.                                 *)
RequestsAreBounded == call.sent <= Models * (MaxRetries + MaxRateRetries) + Cardinality(Keys)
=============================================================================
