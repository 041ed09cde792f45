------------------------------ MODULE RateLimiter -------------------------------
(***************************************************************************)
(* The rolling-window limiter of app/llm/rate_limiter.py and those who     *)
(* call it, the attempts of class LLM, which share one limiter per          *)
(* endpoint on one event loop.                                              *)
(*                                                                         *)
(* Time is relative: a timestamp is kept as its age, a deadline as what is *)
(* left of it, in ticks.  A sleeper wakes at its deadline or later.         *)
(***************************************************************************)
EXTENDS Integers, Sequences

CONSTANTS
    Callers,     \* concurrent requests
    Rpm,         \* rpm: requests in a window
    Window,      \* window_s, in ticks
    BaseBlock,   \* ADAPTIVE_BASE_BLOCK_S
    MaxBlock,    \* ADAPTIVE_MAX_BLOCK_S
    MaxPressure, \* 8 in the code
    RetryAfters  \* what a 429 may say, 0 for nothing; empty if there is no 429

(* What the constants must be. *)
LimiterAssumption ==
    /\ Rpm \in Nat \ {0} /\ Window \in Nat \ {0}
    /\ BaseBlock \in Nat \ {0} /\ MaxBlock \in Nat /\ MaxPressure \in Nat \ {0}
    /\ RetryAfters \subseteq Nat

VARIABLES
    stamps,     \* _timestamps, as ages, the oldest first
    blocked,    \* _blocked_until, what is left
    penalty,    \* _adaptive_block_until, what is left
    pressure,   \* _pressure
    streak,     \* _success_streak, up to 2
    calm,       \* _total_429 is 0
    at,         \* where each caller is
    left,       \* what is left of the deadline of each sleeper
    recent      \* the ages of the requests that were really sent, while in a window

vars == <<stamps, blocked, penalty, pressure, streak, calm, at, left, recent>>

Larger(a, b) == IF a < b THEN b ELSE a
Smaller(a, b) == IF a < b THEN a ELSE b
Minus1(n) == Larger(n - 1, 0)

Init ==
    /\ stamps = <<>>
    /\ blocked = 0 /\ penalty = 0
    /\ pressure = 0 /\ streak = 0
    /\ calm = TRUE
    /\ at = [c \in Callers |-> "idle"]
    /\ left = [c \in Callers |-> 0]
    /\ recent = <<>>

-----------------------------------------------------------------------------
(* acquire.                                                                *)

(* The head leaves the deque as long as it is old. *)
Evict(ages) ==
    LET n == CHOOSE n \in 0..Len(ages) :
                 /\ \A i \in 1..n : ages[i] >= Window
                 /\ n < Len(ages) => ages[n + 1] < Window
    IN  SubSeq(ages, n + 1, Len(ages))

(* Faulty: a window that lets one more in. *)
WaitOneLate ==
    LET within == Evict(stamps)
        block == Larger(blocked, penalty)
    IN  IF Len(within) <= Rpm THEN block ELSE Larger(block, Window - Head(within))

(* Faulty: a full window makes it forget the pressure. *)
WaitForWindowOnly ==
    LET within == Evict(stamps)
    IN  IF Len(within) < Rpm THEN Larger(blocked, penalty) ELSE Window - Head(within)

(* wait_seconds, once the old timestamps are gone. *)
Wait ==
    LET within == Evict(stamps)
        block == Larger(blocked, penalty)
    IN  IF Len(within) < Rpm THEN block ELSE Larger(block, Window - Head(within))

(* record, and the request. *)
Send(c, window) ==
    /\ stamps' = Append(window, 0)
    /\ recent' = Append(recent, 0)
    /\ at' = [at EXCEPT ![c] = "sent"]
    /\ left' = [left EXCEPT ![c] = 0]

Pass(c) ==
    /\ at[c] = "idle"
    /\ Wait = 0
    /\ Send(c, Evict(stamps))
    /\ UNCHANGED <<blocked, penalty, pressure, streak, calm>>

(* Faulty: a wait for a whole window. *)
SleepLong(c) ==
    /\ at[c] = "idle"
    /\ Wait > 0
    /\ at' = [at EXCEPT ![c] = "waiting"]
    /\ left' = [left EXCEPT ![c] = Larger(Wait, Window)]
    /\ stamps' = Evict(stamps)
    /\ UNCHANGED <<blocked, penalty, pressure, streak, calm, recent>>

Sleep(c) ==
    /\ at[c] = "idle"
    /\ Wait > 0
    /\ at' = [at EXCEPT ![c] = "waiting"]
    /\ left' = [left EXCEPT ![c] = Wait]
    /\ stamps' = Evict(stamps)
    /\ UNCHANGED <<blocked, penalty, pressure, streak, calm, recent>>

(* The deadline is over: the sleeper does not look again. *)
Wake(c) ==
    /\ at[c] = "waiting"
    /\ left[c] = 0
    /\ Send(c, stamps)
    /\ UNCHANGED <<blocked, penalty, pressure, streak, calm>>

(* The surrounding task is cancelled in its sleep. *)
Cancel(c) ==
    /\ at[c] = "waiting"
    /\ at' = [at EXCEPT ![c] = "idle"]
    /\ left' = [left EXCEPT ![c] = 0]
    /\ UNCHANGED <<stamps, blocked, penalty, pressure, streak, calm, recent>>

-----------------------------------------------------------------------------
(* The answer of the server.                                               *)

(* on_success; an error that is no 429 tells the limiter nothing.           *)
Answer(c) ==
    /\ at[c] = "sent"
    /\ at' = [at EXCEPT ![c] = "idle"]
    /\ \/ /\ streak' = Smaller(streak + 1, 2)
          /\ IF pressure > 0 /\ streak' = 2
             THEN pressure' = pressure - 1 /\ penalty' = penalty \div 2
             ELSE UNCHANGED <<pressure, penalty>>
       \/ UNCHANGED <<streak, pressure, penalty>>
    /\ UNCHANGED <<stamps, blocked, calm, left, recent>>

(* Doubled with every level of pressure. *)
Block[p \in 1..MaxPressure] == IF p = 1 THEN BaseBlock ELSE 2 * Block[p - 1]

(* Faulty: without the cap. *)
PenaltyUncapped(p) == Block[p]

Penalty(p) == Smaller(Block[p], MaxBlock)

(* on_rate_limit_response: the request is entered a second time. *)
Reject(c) ==
    /\ at[c] = "sent"
    /\ at' = [at EXCEPT ![c] = "idle"]
    /\ \E after \in RetryAfters :
        IF after > 0
        THEN blocked' = Larger(blocked, after) /\ UNCHANGED <<pressure, penalty>>
        ELSE /\ pressure' = Smaller(pressure + 1, MaxPressure)
             /\ penalty' = Larger(penalty, Penalty(pressure'))
             /\ UNCHANGED blocked
    /\ streak' = 0
    /\ calm' = FALSE
    /\ stamps' = Append(stamps, 0)
    /\ UNCHANGED <<left, recent>>

-----------------------------------------------------------------------------

Older(ages) == [i \in DOMAIN ages |-> Smaller(ages[i] + 1, Window)]

Tick ==
    /\ stamps' = Older(stamps)
    /\ recent' = Evict(Older(recent))
    /\ blocked' = Minus1(blocked)
    /\ penalty' = Minus1(penalty)
    /\ left' = [c \in Callers |-> Minus1(left[c])]
    /\ UNCHANGED <<pressure, streak, calm, at>>

Acquire(c) == Pass(c) \/ Sleep(c) \/ Wake(c)

Next ==
    \/ Tick
    \/ \E c \in Callers : Acquire(c) \/ Cancel(c) \/ Answer(c) \/ Reject(c)

Spec == Init /\ [][Next]_vars

-----------------------------------------------------------------------------

TypeOK ==
    /\ stamps \in Seq(0..Window) /\ recent \in Seq(0..Window - 1)
    /\ blocked \in Nat /\ penalty \in 0..MaxBlock
    /\ pressure \in 0..MaxPressure /\ streak \in 0..2
    /\ calm \in BOOLEAN
    /\ at \in [Callers -> {"idle", "waiting", "sent"}]
    /\ left \in [Callers -> Nat]

(* No window holds more requests than the limit ("pacing using a true      *)
(* rolling window of request timestamps").  The code does not keep it once  *)
(* a 429 has come, nor with several callers: see README, section 6.         *)
WindowIsKept == Len(recent) <= Rpm

(* The same until the server first answers 429. *)
WindowIsKeptWhileCalm == calm => WindowIsKept

(* Nobody sends while the server has asked for a pause, or a penalty is    *)
(* running ("server-side 429 pressure is respected").  The code keeps it    *)
(* for one caller: see README, section 6.                                   *)
PressureIsRespected ==
    [][(\E c \in Callers : at[c] # "sent" /\ at'[c] = "sent") => blocked = 0 /\ penalty = 0]_vars

(* Without pressure a request is made to wait only when the window is full *)
(* of requests that were sent ("The limiter NEVER delays a request while    *)
(* the rolling window has capacity"), and by the time it may go there is    *)
(* room again, if time is all it has waited for.                            *)
NoNeedlessWait ==
    \A c \in Callers :
        at[c] = "waiting" /\ calm /\ left[c] > 0 =>
            /\ Len(recent) >= Rpm
            /\ recent[1] + left[c] <= Window
=============================================================================
