---------------------------- MODULE AgentWork_proofs -----------------------------
(***************************************************************************)
(* Proofs about the work of an agent: what a run leaves in the journal and *)
(* how often it asks the model, for every length of a run and of an answer, *)
(* every number of nudges, tasks, keys and models; what the log of a       *)
(* conversation says of it, for every set of threads; what the registry    *)
(* says of the runs, for every set of runs, sessions and homes; what the    *)
(* model is shown of the tools, for every memory and every batch; and that *)
(* the memory keeps its limits and the answer that was just added to it.    *)
(***************************************************************************)
EXTENDS AgentWork, Sequences, FiniteSetTheorems, WellFoundedInduction, TLAPS

(* ---- A run of the agent.                                               *)

Agents ==
    [state : {"IDLE", "RUNNING", "FINISHED", "ERROR"}, steps : 0..MaxSteps,
     task : Tasks \union {None}, graph : BOOLEAN, chat : BOOLEAN, worked : BOOLEAN,
     narrations : 0..MaxNarrations, gates : 0..MaxGateNudges,
     reason : Verified \union {"unknown", "max_steps", "token_budget", "error"},
     budget : {"left", "spent", "graced"}, work : Nat]

(* Where a run has a task, where it is in a step that has been saved before, *)
(* and where nothing has ended it.                                          *)
InLoop == {"loop", "save", "think", "wait", "retry", "wait again", "act", "tools"}
InStep == {"think", "wait", "retry", "wait again", "act", "tools"}
BeforeEnd == {"start", "save", "think", "wait", "retry", "wait again", "act"}

Tasked == pc \in InLoop => agent.task # None

TaskHasRow == agent.task # None => status[agent.task] # "free"

RowComesFirst == \A t \in Tasks : status[t] = "free" => saved[t] = None

Undecided == pc \in BeforeEnd => agent.state # "FINISHED"

(* Who is finished in the middle of an answer has called terminate. *)
InAnswer == pc = "tools" => left > 0 /\ (agent.state = "FINISHED" => agent.worked)

Earned ==
    agent.state = "FINISHED" /\ agent.reason \in Verified =>
        plan[agent.task] # "open" \/ ~agent.worked \/ agent.gates = MaxGateNudges \/ after

Behind(n) ==
    agent.task # None /\ saved[agent.task] # None => agent.work - saved[agent.task] <= n

IsSaved == pc \in InStep => Behind(0)

IInv ==
    /\ TypeOK
    /\ Tasked /\ TaskHasRow /\ RowComesFirst
    /\ Undecided /\ InAnswer /\ Earned
    /\ IsSaved /\ Behind(1)

Assumptions == CallAssumption /\ JournalAssumption /\ RunAssumption

LEMMA Assumed == Assumptions
BY CallAssumption, JournalAssumption, RunAssumption DEF Assumptions

-----------------------------------------------------------------------------
(* What the updates of the agent do to the fields that matter.             *)

LEMMA Started ==
    ASSUME RunAssumption, NEW r \in Agents, NEW c \in BOOLEAN
    PROVE  LET a == [r EXCEPT !.state = "RUNNING", !.steps = 0, !.worked = FALSE,
                              !.reason = "unknown", !.chat = c]
           IN  a \in Agents /\ a.state = "RUNNING" /\ a.task = r.task /\ a.work = r.work
<1>1. 0 \in 0..MaxSteps
  BY SMT DEF RunAssumption
<1>2. QED
  BY <1>1, Zenon DEF Agents, Verified

LEMMA Assigned ==
    ASSUME NEW r \in Agents, NEW t \in Tasks
    PROVE  LET a == [r EXCEPT !.task = t]
               b == [r EXCEPT !.task = t, !.graph = TRUE]
           IN  /\ a \in Agents /\ a.state = r.state /\ a.task = t /\ a.work = r.work
               /\ b \in Agents /\ b.state = r.state /\ b.task = t /\ b.work = r.work
BY Zenon DEF Agents

LEMMA Stops ==
    ASSUME NEW r \in Agents, NEW x \in {"token_budget", "max_steps"}
    PROVE  LET a == [r EXCEPT !.state = "FINISHED", !.reason = x]
           IN  a \in Agents /\ a.reason = x /\ a.task = r.task /\ a.work = r.work
BY Zenon DEF Agents

LEMMA Fails ==
    ASSUME NEW r \in Agents
    PROVE  LET a == [r EXCEPT !.state = "ERROR", !.reason = "error"]
           IN  a \in Agents /\ a.state = "ERROR" /\ a.task = r.task /\ a.work = r.work
BY Zenon DEF Agents

LEMMA Finishes ==
    ASSUME NEW r \in Agents
    PROVE  LET a == [r EXCEPT !.state = "FINISHED", !.reason = "final_answer"]
           IN  /\ a \in Agents /\ a.task = r.task /\ a.work = r.work
               /\ a.worked = r.worked /\ a.gates = r.gates
BY Zenon DEF Agents, Verified

LEMMA Terminates ==
    ASSUME NEW r \in Agents
    PROVE  LET a == [r EXCEPT !.worked = TRUE, !.state = "FINISHED", !.reason = "terminate"]
           IN  /\ a \in Agents /\ a.state = "FINISHED" /\ a.worked
               /\ a.task = r.task /\ a.work = r.work /\ a.gates = r.gates
BY Zenon DEF Agents, Verified

LEMMA Works ==
    ASSUME NEW r \in Agents
    PROVE  LET a == [r EXCEPT !.worked = TRUE]
           IN  /\ a \in Agents /\ a.state = r.state /\ a.worked /\ a.reason = r.reason
               /\ a.task = r.task /\ a.work = r.work /\ a.gates = r.gates
BY Zenon DEF Agents

LEMMA Nudged ==
    ASSUME NEW r \in Agents, r.gates < MaxGateNudges, RunAssumption
    PROVE  LET a == [r EXCEPT !.gates = @ + 1]
               b == [r EXCEPT !.worked = TRUE, !.gates = @ + 1]
           IN  /\ a \in Agents /\ a.state = r.state /\ a.task = r.task /\ a.work = r.work
               /\ b \in Agents /\ b.state = r.state /\ b.task = r.task /\ b.work = r.work
               /\ b.worked /\ b.reason = r.reason
<1>1. r.gates + 1 \in 0..MaxGateNudges
  BY SMT DEF Agents, RunAssumption
<1>2. QED
  BY <1>1, Zenon DEF Agents

LEMMA Narrates ==
    ASSUME NEW r \in Agents, r.narrations < MaxNarrations, RunAssumption
    PROVE  LET a == [r EXCEPT !.narrations = @ + 1]
           IN  a \in Agents /\ a.state = r.state /\ a.task = r.task /\ a.work = r.work
<1>1. r.narrations + 1 \in 0..MaxNarrations
  BY SMT DEF Agents, RunAssumption
<1>2. QED
  BY <1>1, Zenon DEF Agents

LEMMA StepDone ==
    ASSUME NEW r \in Agents
    PROVE  LET a == [r EXCEPT !.work = @ + 1]
           IN  /\ a \in Agents /\ a.state = r.state /\ a.reason = r.reason /\ a.task = r.task
               /\ a.worked = r.worked /\ a.gates = r.gates /\ a.work = r.work + 1
<1>1. r.work + 1 \in Nat
  BY SMT DEF Agents
<1>2. QED
  BY <1>1, Zenon DEF Agents

LEMMA Spent ==
    ASSUME NEW r \in Agents, NEW b \in {"left", "spent", "graced"}
    PROVE  LET a == [r EXCEPT !.budget = b]
           IN  a \in Agents /\ a.state = r.state /\ a.task = r.task /\ a.work = r.work
BY Zenon DEF Agents

LEMMA Steps ==
    ASSUME NEW r \in Agents, r.steps < MaxSteps, RunAssumption,
           NEW b \in {"left", "spent", "graced"}
    PROVE  LET a == [r EXCEPT !.steps = @ + 1, !.budget = b]
           IN  a \in Agents /\ a.state = r.state /\ a.task = r.task /\ a.work = r.work
<1>1. r.steps + 1 \in 0..MaxSteps
  BY SMT DEF Agents, RunAssumption
<1>2. QED
  BY <1>1, Zenon DEF Agents

LEMMA Idles ==
    ASSUME NEW r \in Agents, RunAssumption
    PROVE  LET a == [r EXCEPT !.state = "IDLE", !.steps = 0, !.worked = FALSE,
                              !.reason = "unknown", !.chat = FALSE]
           IN  a \in Agents /\ a.state = "IDLE" /\ a.task = r.task /\ a.work = r.work
<1>1. 0 \in 0..MaxSteps
  BY SMT DEF RunAssumption
<1>2. QED
  BY <1>1, Zenon DEF Agents, Verified

Resumed(r, t, g, w) ==
    [r EXCEPT !.state = "IDLE", !.steps = 0, !.task = t, !.graph = g, !.work = w]

LEMMA IsFresh ==
    ASSUME RunAssumption
    PROVE  Fresh \in Agents /\ Fresh.state = "IDLE" /\ Fresh.task = None
<1>1. 0 \in 0..MaxSteps /\ 0 \in 0..MaxNarrations /\ 0 \in 0..MaxGateNudges /\ 0 \in Nat
  BY SMT DEF RunAssumption
<1>2. QED
  BY <1>1, Zenon DEF Agents, Fresh, Agent, Verified

-----------------------------------------------------------------------------
(* The request.                                                            *)

LEMMA NoCallType ==
    ASSUME CallAssumption
    PROVE  NoCall \in [at : {"out", "send", "sleep", "answered", "failed", "overflow"},
                       model : 1..Models, rate : 0..MaxRateRetries, generic : 0..MaxRetries,
                       sent : Nat]
<1>1. 1 \in 1..Models /\ 0 \in 0..MaxRateRetries /\ 0 \in 0..MaxRetries /\ 0 \in Nat
  BY SMT DEF CallAssumption
<1>2. QED
  BY <1>1, Zenon DEF NoCall

LEMMA CallingTyped ==
    ASSUME CallAssumption, CallTypeOK, Ask \/ Calling
    PROVE  CallTypeOK'
<1> DEFINE Requests == [at : {"out", "send", "sleep", "answered", "failed", "overflow"},
                        model : 1..Models, rate : 0..MaxRateRetries, generic : 0..MaxRetries,
                        sent : Nat]
<1>1. NoCall \in Requests /\ call \in Requests
  BY NoCallType DEF CallTypeOK
<1>2. ASSUME NEW x \in {"answered", "failed", "overflow"}
      PROVE  Ended(x) \in Requests
  BY <1>1, <1>2, Zenon DEF Ended
<1>3. ASSUME NEW x \in {"failed", "overflow"}
      PROVE  Raised(x) \in Requests
  <2>1. CASE call.model < Models
    <3>1. call.model + 1 \in 1..Models /\ 0 \in 0..MaxRateRetries /\ 0 \in 0..MaxRetries
      BY <1>1, <2>1, SMT DEF CallAssumption
    <3>2. [call EXCEPT !.at = "sleep", !.model = @ + 1, !.rate = 0, !.generic = 0] \in Requests
      BY <1>1, <3>1, Zenon
    <3>3. QED
      BY <2>1, <3>2, Zenon DEF Raised
  <2>2. CASE ~(call.model < Models)
    BY <1>2, <1>3, <2>2, Zenon DEF Raised
  <2>3. QED
    BY <2>1, <2>2
<1>4. ASSUME call.rate + 1 <= MaxRateRetries
      PROVE  Retried("rate") \in Requests
  <2>1. call.rate + 1 \in 0..MaxRateRetries
    BY <1>1, <1>4, SMT DEF CallAssumption
  <2>2. QED
    BY <1>1, <2>1, Zenon DEF Retried
<1>5. ASSUME ~(call.generic + 1 >= MaxRetries)
      PROVE  Retried("generic") \in Requests
  <2>1. call.generic + 1 \in 0..MaxRetries
    BY <1>1, <1>5, SMT DEF CallAssumption
  <2>2. QED
    BY <1>1, <2>1, Zenon DEF Retried
<1>6. [call EXCEPT !.at = "sleep"] \in Requests
  BY <1>1, Zenon
<1>7. [NoCall EXCEPT !.at = "send", !.sent = 1] \in Requests
  <2>1. 1 \in Nat
    BY SMT
  <2>2. QED
    BY <1>1, <2>1, Zenon
<1>8. [call EXCEPT !.at = "send", !.sent = @ + 1] \in Requests
  <2>1. call.sent + 1 \in Nat
    BY <1>1, SMT
  <2>2. QED
    BY <1>1, <2>1, Zenon
<1>9. keys' \in [Keys -> {"live", "cooling", "dead"}]
  BY DEF CallTypeOK, Calling, Ask, Wake, Recover, Answer, RateLimit, Reject, TimeOut, OtherError,
     Overflow
<1>10. call' \in Requests
  <2>1. CASE Ask
    BY <1>7, <2>1 DEF Ask
  <2>2. CASE Wake
    BY <1>8, <2>2 DEF Wake
  <2>3. CASE Answer \/ Overflow
    BY <1>2, <1>3, <2>3 DEF Answer, Overflow
  <2>4. CASE RateLimit
    <3>1. call.rate + 1 > MaxRateRetries \/ call.rate + 1 <= MaxRateRetries
      BY <1>1, SMT DEF CallAssumption
    <3>2. QED
      BY <1>3, <1>4, <2>4, <3>1 DEF RateLimit
  <2>5. CASE Reject
    BY <1>3, <1>6, <2>5 DEF Reject
  <2>6. CASE TimeOut
    BY <1>2, <1>5, <2>6 DEF TimeOut
  <2>7. CASE OtherError
    BY <1>3, <1>5, <2>7 DEF OtherError
  <2>8. QED
    BY <2>1, <2>2, <2>3, <2>4, <2>5, <2>6, <2>7 DEF Calling
<1>11. QED
  BY <1>9, <1>10 DEF CallTypeOK

-----------------------------------------------------------------------------
(* How often the request may have been sent: as often as its budgets say,   *)
(* and once for each key that was rejected.  No rejected key is used again  *)
(* before the request is over.                                             *)
Dead == {k \in Keys : keys[k] = "dead"}

Budget == MaxRetries + MaxRateRetries

Used == (call.model - 1) * Budget + call.rate + call.generic + Cardinality(Dead)

CallIsCounted ==
    /\ call.at \in {"send", "sleep"} => call.generic < MaxRetries
    /\ call.at = "send" => call.sent <= Used + 1
    /\ call.at = "sleep" => call.sent <= Used
    /\ call.at \notin {"send", "sleep"} => call.sent = 0

LEMMA DeadIsCounted ==
    ASSUME CallAssumption
    PROVE  /\ IsFiniteSet(Dead) /\ Cardinality(Dead) \in Nat
           /\ Cardinality(Dead) <= Cardinality(Keys) /\ Cardinality(Keys) \in Nat
<1>1. IsFiniteSet(Keys) /\ Dead \subseteq Keys
  BY DEF CallAssumption, Dead
<1>2. QED
  BY <1>1, FS_Subset, FS_CardinalityType

(* The model that follows has budgets of its own. *)
LEMMA ModelBudgets ==
    ASSUME CallAssumption, NEW m \in 1..Models
    PROVE  /\ Budget \in Nat /\ m * Budget \in Nat /\ (m - 1) * Budget \in Nat
           /\ (m - 1) * Budget + Budget = m * Budget
           /\ m * Budget <= Models * Budget
<1>1. Budget \in Nat /\ m \in Nat /\ Models \in Nat /\ m >= 1 /\ Models - m \in Nat
  BY SMT DEF CallAssumption, Budget
<1> HIDE DEF Budget
<1>2. (m - 1) * Budget + Budget = m * Budget
  BY <1>1, SMT
<1>3. (Models - m) * Budget \in Nat /\ m * Budget \in Nat /\ (m - 1) * Budget \in Nat
  BY <1>1, SMT
<1>4. (Models - m) * Budget + m * Budget = Models * Budget
  BY <1>1, SMT
<1>5. QED
  BY <1>1, <1>2, <1>3, <1>4, SMT

(* An update of the request is read by its fields. *)
LEMMA CallFields ==
    ASSUME CallAssumption, CallTypeOK
    PROVE  /\ call.model \in 1..Models /\ call.rate \in 0..MaxRateRetries
           /\ call.generic \in 0..MaxRetries /\ call.sent \in Nat
BY DEF CallTypeOK

LEMMA RaisedIsCounted ==
    ASSUME CallAssumption, CallTypeOK, CallIsCounted, call.at = "send",
           NEW error \in {"failed", "overflow"}, call' = Raised(error),
           Cardinality(Dead') = Cardinality(Dead)
    PROVE  CallIsCounted'
<1>1. CASE call.model < Models
  <2>1. /\ call'.at = "sleep" /\ call'.model = call.model + 1
        /\ call'.rate = 0 /\ call'.generic = 0 /\ call'.sent = call.sent
    BY <1>1 DEF Raised, CallTypeOK
  <2>2. call'.sent <= Used'
    <3> DEFINE d == Cardinality(Dead)
               base == (call.model - 1) * Budget
    <3>1. base \in Nat /\ base + Budget = call.model * Budget /\ Budget \in Nat
      BY CallFields, ModelBudgets
    <3>2. Used' = call.model * Budget + d
      <4>1. Used' = (call'.model - 1) * Budget + call'.rate + call'.generic + Cardinality(Dead')
        BY DEF Used, Budget
      <4>2. call'.model - 1 = call.model
        BY <2>1, CallFields, SMT
      <4>3. call.model * Budget \in Nat /\ d \in Nat
        BY CallFields, ModelBudgets, DeadIsCounted
      <4>4. QED
        BY <2>1, <4>1, <4>2, <4>3
    <3>3. call.sent <= base + call.rate + call.generic + d + 1 /\ call.generic < MaxRetries
      BY DEF CallIsCounted, Used
    <3>4. d \in Nat /\ Budget = MaxRetries + MaxRateRetries
      BY DeadIsCounted DEF Budget
    <3> HIDE DEF d, base
    <3>5. call.sent <= base + Budget + d
      BY <3>1, <3>3, <3>4, CallFields, SMT DEF CallAssumption
    <3>6. QED
      BY <2>1, <3>1, <3>2, <3>5
  <2>3. QED
    BY <2>1, <2>2 DEF CallIsCounted, CallAssumption
<1>2. CASE ~(call.model < Models)
  BY <1>2 DEF Raised, Ended, NoCall, CallIsCounted
<1>3. QED
  BY <1>1, <1>2

(* Whatever is tried again is paid from a budget or with a key. *)
LEMMA AgainIsCounted ==
    ASSUME CallAssumption, CallTypeOK, CallIsCounted, call.at = "send",
           call'.at = "sleep", call'.model = call.model, call'.sent = call.sent,
           call'.rate \in Nat, call'.generic \in Nat, call'.generic < MaxRetries,
           call'.rate + call'.generic + Cardinality(Dead') >
               call.rate + call.generic + Cardinality(Dead)
    PROVE  CallIsCounted'
<1> DEFINE d == Cardinality(Dead)
           e == Cardinality(Dead')
           base == (call.model - 1) * Budget
<1>1. base \in Nat /\ d \in Nat
  BY CallFields, ModelBudgets, DeadIsCounted
<1>2. e \in Nat
  BY FS_Subset, FS_CardinalityType DEF Dead, CallAssumption
<1>3. call.sent <= base + call.rate + call.generic + d + 1
  BY DEF CallIsCounted, Used
<1>4. Used' = base + call'.rate + call'.generic + e
  BY DEF Used, Budget
<1>5. call'.rate + call'.generic + e > call.rate + call.generic + d
  OBVIOUS
<1> HIDE DEF d, e, base
<1>6. call'.sent <= Used'
  BY <1>1, <1>2, <1>3, <1>4, <1>5, CallFields, SMT
<1>7. QED
  BY <1>6 DEF CallIsCounted

(* The pool gives the key of the highest priority. *)
LEMMA FirstExists ==
    ASSUME CallAssumption, Available # {}
    PROVE  \E k \in Available : First(k)
<1>1. Available \subseteq Nat
  BY DEF CallAssumption, Available
<1>2. PICK k \in Available : \A j \in Available : <<j, k>> \notin OpToRel(<, Nat)
  BY <1>1, WFMin, NatLessThanWellFounded, Zenon
<1>3. ASSUME NEW j \in Available
      PROVE  k <= j
  <2>1. ~(j < k)
    BY <1>1, <1>2, Zenon DEF OpToRel
  <2>2. QED
    BY <1>1, <2>1
<1>4. QED
  BY <1>3 DEF First

(* Every step of the request, and the one that makes it. *)
LEMMA CallingIsCounted ==
    ASSUME CallAssumption, CallTypeOK, CallIsCounted, Ask \/ Calling
    PROVE  CallIsCounted'
<1>1. CASE Ask
  <2>1. /\ call'.at = "send" /\ call'.model = 1 /\ call'.sent = 1
        /\ call'.rate = 0 /\ call'.generic = 0
    BY <1>1 DEF Ask, NoCall
  <2>2. Cardinality(Dead') \in Nat
    BY FS_Subset, FS_CardinalityType DEF Dead, CallAssumption
  <2>3. Budget \in Nat /\ Budget' = Budget
    BY DEF CallAssumption, Budget
  <2>4. Used' = Cardinality(Dead')
    <3>1. Used' = (1 - 1) * Budget + 0 + 0 + Cardinality(Dead')
      BY <2>1, <2>3 DEF Used
    <3> HIDE DEF Dead
    <3>2. QED
      BY <2>2, <2>3, <3>1, SMT
  <2>5. QED
    BY <2>1, <2>2, <2>4 DEF CallIsCounted, CallAssumption
<1>2. CASE Wake
  <2>1. call.at = "sleep" /\ call' = [call EXCEPT !.at = "send", !.sent = @ + 1]
    BY <1>2 DEF Wake
  <2>2. /\ call'.at = "send" /\ call'.sent = call.sent + 1 /\ call'.model = call.model
        /\ call'.rate = call.rate /\ call'.generic = call.generic
    BY <2>1 DEF CallTypeOK
  <2>3. Dead' = Dead
    BY <1>2 DEF Wake, Recover, Dead
  <2>4. Used' = Used /\ call.sent <= Used /\ call.generic < MaxRetries
    BY <2>1, <2>2, <2>3 DEF Used, Budget, CallIsCounted
  <2>5. Used \in Nat /\ call.sent \in Nat
    <3>1. (call.model - 1) * Budget \in Nat /\ Cardinality(Dead) \in Nat
      BY CallFields, ModelBudgets, DeadIsCounted
    <3>2. QED
      BY <3>1, CallFields, SMT DEF Used
  <2>6. QED
    BY <2>2, <2>4, <2>5 DEF CallIsCounted
<1>3. CASE Answer \/ Overflow
  <2>1. call.at = "send" /\ UNCHANGED keys
    BY <1>3 DEF Answer, Overflow
  <2>2. Cardinality(Dead') = Cardinality(Dead)
    BY <2>1 DEF Dead
  <2>3. CASE call' = Raised("overflow")
    BY <2>1, <2>2, <2>3, RaisedIsCounted
  <2>4. CASE call' = Ended("answered")
    BY <2>4 DEF Ended, NoCall, CallIsCounted
  <2>5. QED
    BY <1>3, <2>3, <2>4 DEF Answer, Overflow
<1>4. CASE RateLimit
  <2>1. call.at = "send" /\ keys' = [k \in Keys |-> IF First(k) THEN "cooling" ELSE keys[k]]
    BY <1>4 DEF RateLimit
  <2>2. Cardinality(Dead') = Cardinality(Dead)
    BY <2>1 DEF Dead, First, Available
  <2>3. CASE call' = Raised("failed")
    BY <2>1, <2>2, <2>3, RaisedIsCounted
  <2>4. CASE call' = Retried("rate")
    <3>1. /\ call'.at = "sleep" /\ call'.model = call.model /\ call'.sent = call.sent
          /\ call'.rate = call.rate + 1 /\ call'.generic = call.generic
      BY <2>4 DEF Retried, CallTypeOK
    <3>2. call.generic < MaxRetries
      BY <2>1 DEF CallIsCounted
    <3>3. call'.rate + call'.generic + Cardinality(Dead') >
             call.rate + call.generic + Cardinality(Dead)
      BY <2>2, <3>1, CallFields, DeadIsCounted
    <3>4. QED
      BY <2>1, <3>1, <3>2, <3>3, CallFields, AgainIsCounted
  <2>5. QED
    BY <1>4, <2>3, <2>4 DEF RateLimit
<1>5. CASE Reject
  <2>1. call.at = "send" /\ keys' = [k \in Keys |-> IF First(k) THEN "dead" ELSE keys[k]]
    BY <1>5 DEF Reject
  <2>2. CASE Available = {}
    <3>1. Cardinality(Dead') = Cardinality(Dead)
      BY <2>1, <2>2 DEF Dead, First
    <3>2. QED
      BY <1>5, <2>1, <2>2, <3>1, RaisedIsCounted DEF Reject
  <2>3. CASE Available # {}
    <3>1. PICK j \in Available : First(j)
      BY <2>3, FirstExists
    <3>2. Dead' = Dead \union {j} /\ j \notin Dead
      <4>1. \A k \in Keys : First(k) <=> k = j
        BY <3>1 DEF First, Available, CallAssumption
      <4>2. j \in Keys /\ keys[j] = "live"
        BY <3>1 DEF Available
      <4>3. QED
        BY <2>1, <4>1, <4>2 DEF Dead
    <3>3. Cardinality(Dead') = Cardinality(Dead) + 1
      BY <3>2, DeadIsCounted, FS_AddElement
    <3>4. call' = [call EXCEPT !.at = "sleep"]
      BY <1>5, <2>3 DEF Reject
    <3>5. /\ call'.at = "sleep" /\ call'.model = call.model /\ call'.sent = call.sent
          /\ call'.rate = call.rate /\ call'.generic = call.generic
      BY <3>4 DEF CallTypeOK
    <3>6. call.generic < MaxRetries
      BY <2>1 DEF CallIsCounted
    <3>7. call'.rate + call'.generic + Cardinality(Dead') >
             call.rate + call.generic + Cardinality(Dead)
      BY <3>3, <3>5, CallFields, DeadIsCounted
    <3>8. QED
      BY <2>1, <3>5, <3>6, <3>7, CallFields, AgainIsCounted
  <2>4. QED
    BY <2>2, <2>3
<1>6. CASE TimeOut \/ OtherError
  <2>1. call.at = "send" /\ UNCHANGED keys
    BY <1>6 DEF TimeOut, OtherError
  <2>2. Cardinality(Dead') = Cardinality(Dead)
    BY <2>1 DEF Dead
  <2>3. CASE call' = Ended("failed")
    BY <2>3 DEF Ended, NoCall, CallIsCounted
  <2>4. CASE \E error \in {"failed", "overflow"} : call' = Raised(error)
    BY <2>1, <2>2, <2>4, RaisedIsCounted
  <2>5. CASE call' = Retried("generic") /\ ~(call.generic + 1 >= MaxRetries)
    <3>1. /\ call'.at = "sleep" /\ call'.model = call.model /\ call'.sent = call.sent
          /\ call'.rate = call.rate /\ call'.generic = call.generic + 1
      BY <2>5 DEF Retried, CallTypeOK
    <3>2. call'.generic < MaxRetries
      BY <2>5, <3>1, CallFields DEF CallAssumption
    <3>3. call'.rate + call'.generic + Cardinality(Dead') >
             call.rate + call.generic + Cardinality(Dead)
      BY <2>2, <3>1, CallFields, DeadIsCounted
    <3>4. QED
      BY <2>1, <3>1, <3>2, <3>3, CallFields, AgainIsCounted
  <2>6. QED
    BY <1>6, <2>3, <2>4, <2>5 DEF TimeOut, OtherError
<1>7. QED
  BY <1>1, <1>2, <1>3, <1>4, <1>5, <1>6 DEF Calling

-----------------------------------------------------------------------------
(* One lemma for each action.                                              *)

Places ==
    {"prompt", "start", "loop", "save", "think", "wait", "retry", "wait again", "act", "tools",
     "verdict", "last save", "down"}

LEMMA TypeParts ==
    ASSUME TypeOK
    PROVE  /\ CallTypeOK /\ JournalTypeOK /\ agent \in Agents /\ pc \in Places
           /\ left \in 0..MaxBatch /\ plan \in [Tasks -> {"none", "open", "done"}]
           /\ after \in BOOLEAN
           /\ prompts \in 0..MaxPrompts /\ commands \in 0..MaxCommands /\ kills \in 0..MaxKills
BY DEF TypeOK, Agents, Places

LEMMA TypesKept ==
    ASSUME CallTypeOK', JournalTypeOK', agent' \in Agents, pc' \in Places,
           left' \in 0..MaxBatch, plan' \in [Tasks -> {"none", "open", "done"}],
           after' \in BOOLEAN,
           prompts' \in 0..MaxPrompts, commands' \in 0..MaxCommands, kills' \in 0..MaxKills
    PROVE  TypeOK'
BY DEF TypeOK, Agents, Places

(* What does not touch the journal, the plan or the request. *)
LEMMA AgentSteps ==
    ASSUME Assumptions, IInv, agent' \in Agents, pc' \in Places,
           CallTypeOK', UNCHANGED <<journalVars, plan, commands, kills>>,
           left' \in 0..MaxBatch, after' \in BOOLEAN, prompts' \in 0..MaxPrompts,
           agent'.task = agent.task,
           Tasked', Undecided', InAnswer', Earned', IsSaved', Behind(1)'
    PROVE  IInv'
<1>1. TypeOK'
  BY DEF IInv, TypeOK, Agents, Places, JournalTypeOK, journalVars
<1>2. TaskHasRow' /\ RowComesFirst'
  BY DEF IInv, TaskHasRow, RowComesFirst, journalVars
<1>3. QED
  BY <1>1, <1>2 DEF IInv

LEMMA PromptIInv ==
    ASSUME Assumptions, IInv, Prompt
    PROVE  IInv'
<1>1. agent \in Agents /\ CallTypeOK /\ left \in 0..MaxBatch /\ prompts \in 0..MaxPrompts
  BY DEF IInv, TypeOK, Agents
<1>2. /\ pc' = "start" /\ after' = FALSE
      /\ prompts < MaxPrompts /\ prompts' = prompts + 1
      /\ UNCHANGED <<callVars, journalVars, left, plan, commands, kills>>
  BY DEF Prompt, Goto
<1>3. agent' \in Agents /\ agent'.state = "RUNNING" /\ agent'.task = agent.task
      /\ agent'.work = agent.work
  <2>1. PICK c \in BOOLEAN :
           agent' = [agent EXCEPT !.state = "RUNNING", !.steps = 0, !.worked = FALSE,
                                  !.reason = "unknown", !.chat = c]
    BY Zenon DEF Prompt
  <2>2. QED
    BY <1>1, <2>1, Started, Zenon DEF Assumptions
<1>4. CallTypeOK' /\ prompts' \in 0..MaxPrompts
  BY <1>1, <1>2 DEF CallTypeOK, callVars, Assumptions, RunAssumption
<1>5. Tasked' /\ Undecided' /\ InAnswer' /\ Earned' /\ IsSaved'
  BY <1>2, <1>3 DEF Tasked, Undecided, InAnswer, Earned, IsSaved, InLoop, InStep
<1>6. Behind(1)'
  BY <1>2, <1>3 DEF IInv, Behind, journalVars
<1>7. QED
  BY <1>1, <1>2, <1>3, <1>4, <1>5, <1>6, AgentSteps DEF Places

LEMMA StartIInv ==
    ASSUME Assumptions, IInv, Start
    PROVE  IInv'
<1>1. agent \in Agents /\ agent.state # "FINISHED" /\ TypeOK
  BY DEF IInv, TypeOK, Agents, Start, Undecided, BeforeEnd
<1>2. pc' = "loop" /\ UNCHANGED <<callVars, saved, left, after, bounds>>
  BY DEF Start, Goto
<1>3. PICK t \in Tasks :
         /\ IF agent.task = None THEN TaskStart(t) ELSE t = agent.task /\ UNCHANGED status
         /\ \/ /\ agent' = [agent EXCEPT !.task = t, !.graph = TRUE]
               /\ plan' = [plan EXCEPT ![t] = "open"]
            \/ agent' = [agent EXCEPT !.task = t] /\ UNCHANGED plan
  BY DEF Start
<1>4. agent' \in Agents /\ agent'.state = agent.state /\ agent'.task = t
      /\ agent'.work = agent.work
  <2>1. CASE agent' = [agent EXCEPT !.task = t, !.graph = TRUE]
    BY <1>1, <2>1, Assigned, Zenon
  <2>2. CASE agent' = [agent EXCEPT !.task = t]
    BY <1>1, <2>2, Assigned, Zenon
  <2>3. QED
    BY <1>3, <2>1, <2>2
<1>5. plan' \in [Tasks -> {"none", "open", "done"}]
  BY <1>1, <1>3 DEF TypeOK
<1>6. /\ status' \in [Tasks -> {"free", "in_progress", "completed", "partial", "failed",
                               "blocked", "paused", "interrupted"}]
      /\ status'[t] # "free"
      /\ \A u \in Tasks : status'[u] = "free" => status[u] = "free"
  BY <1>1, <1>3 DEF TypeOK, JournalTypeOK, TaskStart, IInv, TaskHasRow
<1>7. TypeOK'
  BY <1>1, <1>2, <1>4, <1>5, <1>6
  DEF TypeOK, Agents, CallTypeOK, callVars, JournalTypeOK, bounds
<1>8. Tasked' /\ TaskHasRow' /\ RowComesFirst'
  BY <1>2, <1>4, <1>6
  DEF IInv, Tasked, TaskHasRow, RowComesFirst, Assumptions, JournalAssumption
<1>9. Undecided' /\ InAnswer' /\ Earned' /\ IsSaved'
  BY <1>1, <1>2, <1>4 DEF Undecided, InAnswer, Earned, IsSaved, BeforeEnd, InStep
<1>10. Behind(1)'
  <2>1. CASE agent.task = None
    BY <1>2, <1>3, <1>4, <2>1 DEF IInv, RowComesFirst, TaskStart, Behind
  <2>2. CASE agent.task # None
    BY <1>2, <1>3, <1>4, <2>2 DEF IInv, Behind
  <2>3. QED
    BY <2>1, <2>2
<1>11. QED
  BY <1>7, <1>8, <1>9, <1>10 DEF IInv

LEMMA LoopIInv ==
    ASSUME Assumptions, IInv, Loop
    PROVE  IInv'
<1>1. /\ agent \in Agents /\ CallTypeOK /\ left \in 0..MaxBatch /\ after \in BOOLEAN
      /\ prompts \in 0..MaxPrompts /\ agent.task # None
  BY DEF IInv, TypeOK, Agents, Loop, Tasked, InLoop
<1>2. UNCHANGED <<callVars, journalVars, left, plan, after, bounds>>
  BY DEF Loop
<1>3. CASE NextStep /\ agent.state = "RUNNING" /\ agent.steps < MaxSteps
  <2>1. PICK b \in {"left", "spent", "graced"} :
           agent' = [agent EXCEPT !.steps = @ + 1, !.budget = b]
    BY <1>1, <1>3, Zenon DEF NextStep, Agents
  <2>2. agent' \in Agents /\ agent'.state = agent.state /\ agent'.task = agent.task
        /\ agent'.work = agent.work
    BY <1>1, <1>3, <2>1, Steps, Zenon DEF Assumptions
  <2>3. pc' = "save"
    BY <1>3 DEF NextStep, Goto
  <2>4. QED
    BY <1>1, <1>2, <1>3, <2>2, <2>3, AgentSteps
    DEF IInv, Places, Tasked, Undecided, InAnswer, Earned, IsSaved, Behind, InLoop, InStep,
        CallTypeOK, callVars, journalVars, bounds
<1>4. CASE Stop("token_budget") \/ Stop("max_steps")
  <2>1. PICK x \in {"token_budget", "max_steps"} :
           agent' = [agent EXCEPT !.state = "FINISHED", !.reason = x]
    BY <1>4 DEF Stop
  <2>2. agent' \in Agents /\ agent'.reason = x /\ agent'.task = agent.task
        /\ agent'.work = agent.work
    BY <1>1, <2>1, Stops, Zenon
  <2>3. pc' = "verdict"
    BY <1>4 DEF Stop, Goto
  <2>4. Tasked' /\ Undecided' /\ InAnswer' /\ Earned' /\ IsSaved' /\ Behind(1)'
    BY <1>2, <2>2, <2>3
    DEF IInv, Tasked, Undecided, InAnswer, Earned, IsSaved, Behind, InLoop, InStep, BeforeEnd,
        Verified, journalVars
  <2>5. QED
    BY <1>1, <1>2, <2>2, <2>3, <2>4, AgentSteps DEF Places, CallTypeOK, callVars, bounds
<1>5. CASE UNCHANGED agent /\ pc' = "verdict"
  <2>1. Tasked' /\ Undecided' /\ InAnswer' /\ Earned' /\ IsSaved' /\ Behind(1)'
    BY <1>2, <1>5
    DEF IInv, Tasked, Undecided, InAnswer, Earned, IsSaved, Behind, InLoop, InStep, BeforeEnd,
        journalVars
  <2>2. QED
    BY <1>1, <1>2, <1>5, <2>1, AgentSteps DEF Places, CallTypeOK, callVars, bounds
<1>6. QED
  BY <1>3, <1>4, <1>5 DEF Loop, Goto

LEMMA SaveIInv ==
    ASSUME Assumptions, IInv, Save
    PROVE  IInv'
<1>1. /\ agent \in Agents /\ agent.task \in Tasks /\ agent.work \in Nat
      /\ saved \in [Tasks -> Nat \union {None}]
  BY DEF IInv, TypeOK, JournalTypeOK, Agents, Save, Tasked, InLoop
<1>2. /\ pc = "save" /\ pc' = "think" /\ saved' = [saved EXCEPT ![agent.task] = agent.work]
      /\ UNCHANGED <<callVars, status, agent, left, plan, after, bounds>>
  BY DEF Save, Goto, Checkpoint
<1>3. TypeOK'
  <2>1. saved' \in [Tasks -> Nat \union {None}]
    BY <1>1, <1>2
  <2>2. UNCHANGED <<callVars, status, agent, left, plan, after, bounds>> /\ pc' = "think"
    BY <1>2
  <2>3. QED
    BY <2>1, <2>2, TypeParts, TypesKept
    DEF IInv, CallTypeOK, callVars, JournalTypeOK, bounds, Places
<1>4. Tasked' /\ TaskHasRow' /\ RowComesFirst'
  BY <1>1, <1>2 DEF IInv, Tasked, TaskHasRow, RowComesFirst, InLoop
<1>5. Undecided' /\ InAnswer' /\ Earned'
  BY <1>2 DEF IInv, Undecided, InAnswer, Earned, BeforeEnd
<1>6. IsSaved' /\ Behind(1)'
  BY <1>1, <1>2 DEF IsSaved, Behind
<1>7. QED
  BY <1>3, <1>4, <1>5, <1>6 DEF IInv

(* What changes the request only, or lets the run go on within a step. *)
LEMMA WaitingIInv ==
    ASSUME Assumptions, IInv, CallTypeOK',
           UNCHANGED <<journalVars, agent, left, plan, after, bounds>>,
           pc' = pc \/ (pc \in InStep \ {"tools"} /\ pc' \in InStep \ {"tools"})
    PROVE  IInv'
<1>1. TypeOK'
  BY TypeParts, TypesKept DEF IInv, JournalTypeOK, journalVars, bounds, InStep, Places
<1>2. Tasked' /\ TaskHasRow' /\ RowComesFirst'
  BY DEF IInv, Tasked, TaskHasRow, RowComesFirst, InLoop, InStep, journalVars
<1>3. Undecided' /\ InAnswer' /\ Earned'
  BY DEF IInv, Undecided, InAnswer, Earned, BeforeEnd, InStep
<1>4. IsSaved' /\ Behind(1)'
  BY DEF IInv, IsSaved, Behind, InStep, journalVars
<1>5. QED
  BY <1>1, <1>2, <1>3, <1>4 DEF IInv

LEMMA ThinkIInv ==
    ASSUME Assumptions, IInv, Think
    PROVE  IInv'
<1>1. CallTypeOK'
  BY CallingTyped DEF IInv, TypeOK, Think, Assumptions
<1>2. pc \in {"think", "retry"} /\ pc' \in {"wait", "wait again"}
  BY DEF Think, Goto
<1>3. UNCHANGED <<journalVars, agent, left, plan, after, bounds>>
  BY DEF Think
<1>4. QED
  BY <1>1, <1>2, <1>3, WaitingIInv DEF InStep

LEMMA WireIInv ==
    ASSUME Assumptions, IInv, Wire
    PROVE  IInv'
<1>1. CallTypeOK'
  BY CallingTyped DEF IInv, TypeOK, Wire, Assumptions
<1>2. QED
  BY <1>1, WaitingIInv DEF Wire, runVars

LEMMA AnsweredIInv ==
    ASSUME Assumptions, IInv, Answered
    PROVE  IInv'
<1>1. /\ agent \in Agents /\ CallTypeOK /\ left \in 0..MaxBatch /\ after \in BOOLEAN
      /\ prompts \in 0..MaxPrompts
  BY DEF IInv, TypeOK, Agents
<1>2. /\ pc \in {"wait", "wait again"} /\ pc' = "act" /\ call' = NoCall
      /\ UNCHANGED <<keys, journalVars, left, plan, after, bounds>>
  BY DEF Answered, Goto
<1>3. agent' \in Agents /\ agent'.state = agent.state /\ agent'.task = agent.task
      /\ agent'.work = agent.work
  <2>1. PICK b \in {agent.budget, "spent"} : agent' = [agent EXCEPT !.budget = b]
    <3>1. PICK b \in {agent.budget} \union {"spent" : x \in {agent.budget} \intersect {"left"}} :
             agent' = [agent EXCEPT !.budget = b]
      BY DEF Answered
    <3>2. b \in {agent.budget, "spent"}
      BY Zenon
    <3>3. QED
      BY <3>1, <3>2
  <2>2. b \in {"left", "spent", "graced"}
    BY <1>1 DEF Agents
  <2>3. QED
    BY <1>1, <2>1, <2>2, Spent, Zenon
<1>4. CallTypeOK'
  BY <1>1, <1>2, NoCallType DEF CallTypeOK, Assumptions
<1>5. Tasked' /\ Undecided' /\ InAnswer' /\ Earned' /\ IsSaved' /\ Behind(1)'
  BY <1>2, <1>3
  DEF IInv, Tasked, Undecided, InAnswer, Earned, IsSaved, Behind, InLoop, InStep, BeforeEnd,
      journalVars
<1>6. QED
  BY <1>1, <1>2, <1>3, <1>4, <1>5, AgentSteps DEF Places, bounds

LEMMA UnansweredIInv ==
    ASSUME Assumptions, IInv, Unanswered
    PROVE  IInv'
<1>1. /\ agent \in Agents /\ CallTypeOK /\ left \in 0..MaxBatch /\ after \in BOOLEAN
      /\ prompts \in 0..MaxPrompts
  BY DEF IInv, TypeOK, Agents
<1>2. /\ pc \in {"wait", "wait again"} /\ call' = NoCall
      /\ UNCHANGED <<keys, journalVars, left, plan, after, bounds>>
  BY DEF Unanswered
<1>3. CallTypeOK'
  BY <1>1, <1>2, NoCallType DEF CallTypeOK, Assumptions
<1>4. CASE pc' = "retry" /\ UNCHANGED agent
  BY <1>2, <1>3, <1>4, WaitingIInv DEF InStep
<1>5. CASE pc' = "verdict" /\ agent' = [agent EXCEPT !.state = "ERROR", !.reason = "error"]
  <2>1. agent' \in Agents /\ agent'.state = "ERROR" /\ agent'.task = agent.task
        /\ agent'.work = agent.work
    BY <1>1, <1>5, Fails, Zenon
  <2>2. Tasked' /\ Undecided' /\ InAnswer' /\ Earned' /\ IsSaved' /\ Behind(1)'
    BY <1>2, <1>5, <2>1
    DEF IInv, Tasked, Undecided, InAnswer, Earned, IsSaved, Behind, InLoop, InStep, BeforeEnd,
        journalVars
  <2>3. QED
    BY <1>1, <1>2, <1>3, <1>5, <2>1, <2>2, AgentSteps DEF Places, bounds
<1>6. QED
  BY <1>4, <1>5 DEF Unanswered, Goto

(* The end of a step: its work is in the memory, and not yet saved. *)
LEMMA DoneIInv ==
    ASSUME Assumptions, IInv, pc \in {"act", "tools"}, NEW a \in Agents, Done(a),
           a.task = agent.task, a.work = agent.work,
           a.state = "FINISHED" /\ a.reason \in Verified =>
              plan'[a.task] # "open" \/ ~a.worked \/ a.gates = MaxGateNudges \/ after',
           saved' = saved \/ Checkpoint(agent.task, agent.work),
           UNCHANGED <<callVars, status, bounds>>,
           left' \in 0..MaxBatch, plan' \in [Tasks -> {"none", "open", "done"}],
           after' \in BOOLEAN
    PROVE  IInv'
<1>1. pc' = "loop" /\ agent' = [a EXCEPT !.work = @ + 1]
  BY DEF Done, Goto
<1>2. /\ agent' \in Agents /\ agent'.state = a.state /\ agent'.reason = a.reason
      /\ agent'.task = a.task /\ agent'.worked = a.worked /\ agent'.gates = a.gates
      /\ agent'.work = a.work + 1
  BY <1>1, StepDone, Zenon
<1>3. agent.task \in Tasks /\ agent.work \in Nat /\ TypeOK
  BY DEF IInv, TypeOK, Tasked, InLoop
<1>4. saved' \in [Tasks -> Nat \union {None}]
  BY <1>3 DEF TypeOK, JournalTypeOK, Checkpoint
<1>5. TypeOK'
  BY <1>1, <1>2, <1>3, <1>4, TypeParts, TypesKept
  DEF CallTypeOK, callVars, JournalTypeOK, bounds, Places
<1>6. Tasked' /\ TaskHasRow'
  BY <1>1, <1>2, <1>3 DEF IInv, Tasked, TaskHasRow, Assumptions, JournalAssumption
<1>7. RowComesFirst'
  BY <1>3, <1>4 DEF IInv, RowComesFirst, TaskHasRow, Checkpoint, TypeOK, JournalTypeOK,
     Assumptions,
     JournalAssumption
<1>8. Undecided' /\ InAnswer' /\ IsSaved' /\ Earned'
  BY <1>1, <1>2 DEF Undecided, InAnswer, IsSaved, Earned, BeforeEnd, InStep
<1>9. Behind(1)'
  <2>1. saved[agent.task] # None => saved[agent.task] \in Nat /\ agent.work <= saved[agent.task]
    <3>1. saved[agent.task] \in Nat \union {None} /\ agent.task # None /\ Behind(0)
      BY <1>3 DEF IInv, IsSaved, InStep, TypeOK, JournalTypeOK, Assumptions, JournalAssumption
    <3>2. QED
      BY <1>3, <3>1 DEF Behind
  <2>2. CASE saved' = saved
    BY <1>2, <1>3, <2>1, <2>2 DEF Behind
  <2>3. CASE Checkpoint(agent.task, agent.work)
    <3>1. saved'[agent.task] = agent.work
      BY <1>3, <2>3 DEF Checkpoint, TypeOK, JournalTypeOK
    <3>2. QED
      BY <1>2, <1>3, <3>1 DEF Behind
  <2>4. QED
    BY <2>2, <2>3
<1>10. QED
  BY <1>5, <1>6, <1>7, <1>8, <1>9 DEF IInv

LEMMA TextIInv ==
    ASSUME Assumptions, IInv, Text
    PROVE  IInv'
<1>1. /\ agent \in Agents /\ agent.gates \in 0..MaxGateNudges /\ agent.state # "FINISHED"
      /\ left \in 0..MaxBatch /\ plan \in [Tasks -> {"none", "open", "done"}]
      /\ after \in BOOLEAN
  BY DEF IInv, TypeOK, Agents, Text, Undecided, BeforeEnd
<1>2. pc = "act" /\ UNCHANGED <<callVars, journalVars, left, plan, after, bounds>>
  BY DEF Text
<1>3. CASE Done(agent)
  BY <1>1, <1>2, <1>3, DoneIInv DEF journalVars
<1>4. CASE Done(Finish("final_answer")) /\ (~agent.worked \/ ~Gated)
  <2> DEFINE a == [agent EXCEPT !.state = "FINISHED", !.reason = "final_answer"]
  <2>3. /\ a \in Agents /\ a.task = agent.task /\ a.work = agent.work
        /\ a.worked = agent.worked /\ a.gates = agent.gates
    BY <1>1, Finishes, Zenon
  <2>4. ~agent.worked \/ agent.gates = MaxGateNudges \/ plan[agent.task] # "open"
    BY <1>1, <1>4 DEF Gated, Unfinished, Assumptions, RunAssumption
  <2>5. Done(a)
    BY <1>4 DEF Finish
  <2> HIDE DEF a
  <2>6. QED
    BY <1>1, <1>2, <2>3, <2>4, <2>5, DoneIInv DEF journalVars
<1>5. CASE agent.narrations < MaxNarrations /\ Done([agent EXCEPT !.narrations = @ + 1])
  <2> DEFINE a == [agent EXCEPT !.narrations = @ + 1]
  <2>1. a \in Agents /\ a.state = agent.state /\ a.task = agent.task /\ a.work = agent.work
    BY <1>1, <1>5, Narrates, Zenon DEF Assumptions
  <2>2. Done(a)
    BY <1>5
  <2> HIDE DEF a
  <2>3. QED
    BY <1>1, <1>2, <2>1, <2>2, DoneIInv DEF journalVars
<1>6. CASE Gated /\ Done([agent EXCEPT !.gates = @ + 1])
  <2> DEFINE a == [agent EXCEPT !.gates = @ + 1]
  <2>1. a \in Agents /\ a.state = agent.state /\ a.task = agent.task /\ a.work = agent.work
    BY <1>1, <1>6, Nudged, Zenon DEF Assumptions, Gated
  <2>2. Done(a)
    BY <1>6
  <2> HIDE DEF a
  <2>3. QED
    BY <1>1, <1>2, <2>1, <2>2, DoneIInv DEF journalVars
<1>7. QED
  BY <1>3, <1>4, <1>5, <1>6 DEF Text

LEMMA BatchIInv ==
    ASSUME Assumptions, IInv, Batch
    PROVE  IInv'
<1>1. /\ agent \in Agents /\ CallTypeOK /\ left \in 0..MaxBatch /\ after \in BOOLEAN
      /\ plan \in [Tasks -> {"none", "open", "done"}] /\ prompts \in 0..MaxPrompts
      /\ agent.state # "FINISHED"
  BY DEF IInv, TypeOK, Agents, Batch, Undecided, BeforeEnd
<1>2. pc = "act" /\ UNCHANGED <<callVars, journalVars, plan, after, bounds>>
  BY DEF Batch
<1>3. PICK n \in 0..MaxBatch :
         left' = n /\ IF n = 0 THEN Done(agent) ELSE UNCHANGED agent /\ Goto("tools")
  BY DEF Batch
<1>4. CASE Done(agent)
  BY <1>1, <1>2, <1>3, <1>4, DoneIInv DEF journalVars
<1>5. CASE n # 0 /\ UNCHANGED agent /\ pc' = "tools"
  <2>1. Tasked' /\ Undecided' /\ InAnswer' /\ Earned' /\ IsSaved' /\ Behind(1)'
    <3>1. left' > 0
      BY <1>3, <1>5, SMT DEF Assumptions, RunAssumption
    <3>2. QED
      BY <1>1, <1>2, <1>5, <3>1
      DEF IInv, Tasked, Undecided, InAnswer, Earned, IsSaved, Behind, InLoop, InStep, BeforeEnd,
          journalVars
  <2>2. QED
    BY <1>1, <1>2, <1>3, <1>5, <2>1, AgentSteps DEF Places, CallTypeOK, callVars, bounds
<1>6. QED
  BY <1>3, <1>4, <1>5 DEF Goto

(* A tool call that is not the last of its answer, and one that is. *)
LEMMA CalledIInv ==
    ASSUME Assumptions, IInv, pc = "tools", NEW a \in Agents, Called(a),
           a.task = agent.task, a.work = agent.work, a.state = "FINISHED" => a.worked,
           a.state = "FINISHED" /\ a.reason \in Verified =>
              plan'[a.task] # "open" \/ ~a.worked \/ a.gates = MaxGateNudges \/ after',
           saved' = saved \/ Checkpoint(agent.task, agent.work),
           UNCHANGED <<callVars, status, bounds>>,
           plan' \in [Tasks -> {"none", "open", "done"}], after' \in BOOLEAN
    PROVE  IInv'
<1>1. left' \in 0..MaxBatch /\ (left # 1 => left' > 0)
  <2>1. left \in 0..MaxBatch /\ left > 0 /\ left' = left - 1
    BY DEF IInv, TypeOK, InAnswer, Called
  <2>2. QED
    BY <2>1, SMT DEF Assumptions, RunAssumption
<1>2. CASE left = 1
  <2>1. Done(a)
    BY <1>2 DEF Called
  <2>2. QED
    BY <1>1, <2>1, DoneIInv
<1>3. CASE left # 1
  <2>1. agent' = a /\ pc' = "tools"
    BY <1>3 DEF Called
  <2>2. agent.task \in Tasks /\ agent.work \in Nat /\ TypeOK /\ Behind(0)
    BY DEF IInv, TypeOK, Tasked, InLoop, IsSaved, InStep
  <2>3. saved' \in [Tasks -> Nat \union {None}]
    BY <2>2 DEF TypeOK, JournalTypeOK, Checkpoint
  <2>4. TypeOK'
    BY <1>1, <2>1, <2>2, <2>3, TypeParts, TypesKept
    DEF CallTypeOK, callVars, JournalTypeOK, bounds, Places
  <2>5. Tasked' /\ TaskHasRow'
    BY <2>1, <2>2 DEF IInv, Tasked, TaskHasRow, Assumptions, JournalAssumption
  <2>6. RowComesFirst'
    BY <2>2, <2>3 DEF IInv, RowComesFirst, TaskHasRow, Checkpoint, TypeOK, JournalTypeOK,
       Assumptions, JournalAssumption
  <2>7. Undecided' /\ InAnswer' /\ Earned'
    BY <1>1, <1>3, <2>1 DEF Undecided, InAnswer, Earned, BeforeEnd
  <2>8. Behind(0)' /\ Behind(1)'
    <3>1. saved[agent.task] \in Nat \union {None} /\ agent.task # None
      BY <2>2 DEF TypeOK, JournalTypeOK, Assumptions, JournalAssumption
    <3>2. CASE saved' = saved
      BY <2>1, <2>2, <3>1, <3>2 DEF Behind
    <3>3. CASE Checkpoint(agent.task, agent.work)
      <4>1. saved'[agent.task] = agent.work
        BY <2>2, <3>3 DEF Checkpoint, TypeOK, JournalTypeOK
      <4>2. QED
        BY <2>1, <2>2, <4>1 DEF Behind
    <3>4. QED
      BY <3>2, <3>3
  <2>9. QED
    BY <2>4, <2>5, <2>6, <2>7, <2>8 DEF IInv, IsSaved
<1>4. QED
  BY <1>2, <1>3

LEMMA ToolIInv ==
    ASSUME Assumptions, IInv, Tool
    PROVE  IInv'
<1>1. /\ agent \in Agents /\ pc = "tools" /\ after \in BOOLEAN
      /\ plan \in [Tasks -> {"none", "open", "done"}]
      /\ (agent.state = "FINISHED" => agent.worked)
  BY DEF IInv, TypeOK, Agents, InAnswer, Tool
<1>2. after' = (after \/ agent.state = "FINISHED") /\ UNCHANGED <<callVars, status, bounds>>
  BY DEF Tool
<1>3. after' \in BOOLEAN /\ (agent.state = "FINISHED" => after')
  BY <1>1, <1>2
<1>4. CASE Called(agent) /\ UNCHANGED <<plan, saved>>
  BY <1>1, <1>2, <1>3, <1>4, CalledIInv
<1>5. ASSUME Called([agent EXCEPT !.worked = TRUE]), Stock,
             NEW p \in {"none", "open", "done"}, plan' = [plan EXCEPT ![agent.task] = p]
      PROVE  IInv'
  <2> DEFINE a == [agent EXCEPT !.worked = TRUE]
  <2>1. /\ a \in Agents /\ a.state = agent.state /\ a.worked /\ a.reason = agent.reason
        /\ a.task = agent.task /\ a.work = agent.work /\ a.gates = agent.gates
    BY <1>1, Works, Zenon
  <2>2. Called(a)
    BY <1>5
  <2> HIDE DEF a
  <2>3. plan' \in [Tasks -> {"none", "open", "done"}]
    BY <1>1, <1>5
  <2>4. saved' = saved \/ Checkpoint(agent.task, agent.work)
    BY <1>5 DEF Stock
  <2>5. QED
    BY <1>1, <1>2, <1>3, <2>1, <2>2, <2>3, <2>4, CalledIInv
<1>6. CASE /\ Called([agent EXCEPT !.worked = TRUE])
           /\ Stock
           /\ \E p \in {plan[agent.task], "open"} \union
                       {"done" : x \in {plan[agent.task]} \intersect {"open"}} :
                 plan' = [plan EXCEPT ![agent.task] = p]
  <2>1. PICK p \in {plan[agent.task], "open"} \union
                     {"done" : x \in {plan[agent.task]} \intersect {"open"}} :
           plan' = [plan EXCEPT ![agent.task] = p]
    BY <1>6
  <2>2. p \in {plan[agent.task], "open", "done"}
    BY Zenon
  <2>3. agent.task \in Tasks
    BY <1>1 DEF IInv, TypeOK, Tasked, InLoop
  <2>4. p \in {"none", "open", "done"}
    BY <1>1, <2>2, <2>3
  <2>5. QED
    BY <1>5, <1>6, <2>1, <2>4
<1>7. QED
  BY <1>4, <1>6 DEF Tool

LEMMA TerminateIInv ==
    ASSUME Assumptions, IInv, Terminate
    PROVE  IInv'
<1>1. /\ agent \in Agents /\ agent.gates \in 0..MaxGateNudges /\ pc = "tools"
      /\ after \in BOOLEAN /\ plan \in [Tasks -> {"none", "open", "done"}]
      /\ (agent.state = "FINISHED" => agent.worked) /\ Earned
  BY DEF IInv, TypeOK, Agents, InAnswer, Terminate
<1>2. UNCHANGED <<callVars, status, plan, after, bounds>>
  BY DEF Terminate
<1>3. saved' = saved \/ Checkpoint(agent.task, agent.work)
  BY DEF Terminate, Stock
<1>4. CASE /\ agent.gates < MaxGateNudges /\ Unfinished
           /\ Called([agent EXCEPT !.worked = TRUE, !.gates = @ + 1])
  <2> DEFINE a == [agent EXCEPT !.worked = TRUE, !.gates = @ + 1]
  <2>1. /\ a \in Agents /\ a.state = agent.state /\ a.task = agent.task
        /\ a.work = agent.work /\ a.worked /\ a.reason = agent.reason
    BY <1>1, <1>4, Nudged, Zenon DEF Assumptions
  <2>2. Called(a)
    BY <1>4
  <2> HIDE DEF a
  <2>3. agent.state = "FINISHED" /\ agent.reason \in Verified => after
    BY <1>1, <1>4, SMT DEF Earned, Unfinished
  <2>4. QED
    BY <1>1, <1>2, <1>3, <2>1, <2>2, <2>3, CalledIInv
<1>5. CASE /\ ~(agent.gates < MaxGateNudges /\ Unfinished)
           /\ Called([agent EXCEPT !.worked = TRUE, !.state = "FINISHED", !.reason = "terminate"])
  <2> DEFINE a == [agent EXCEPT !.worked = TRUE, !.state = "FINISHED", !.reason = "terminate"]
  <2>1. /\ a \in Agents /\ a.task = agent.task /\ a.work = agent.work /\ a.worked
        /\ a.gates = agent.gates
    BY <1>1, Terminates, Zenon
  <2>2. Called(a)
    BY <1>5
  <2> HIDE DEF a
  <2>3. agent.gates = MaxGateNudges \/ plan[agent.task] # "open"
    BY <1>1, <1>5, SMT DEF Unfinished, Assumptions, RunAssumption
  <2>4. QED
    BY <1>1, <1>2, <1>3, <2>1, <2>2, <2>3, CalledIInv
<1>6. QED
  BY <1>4, <1>5 DEF Terminate

(* The end of the run, where the shell makes the agent idle again. *)
LEMMA ToPromptIInv ==
    ASSUME Assumptions, IInv, ToPrompt, agent.task # None => agent.task \in Tasks,
           CallTypeOK', UNCHANGED <<status, plan, after, prompts, kills>>,
           saved' = saved \/ (agent.task # None /\ Checkpoint(agent.task, agent.work)),
           left' \in 0..MaxBatch, commands' \in 0..MaxCommands
    PROVE  IInv'
<1>1. pc' = "prompt"
  BY DEF ToPrompt, Goto
<1>2. agent' \in Agents /\ agent'.state = "IDLE" /\ agent'.task = agent.task
      /\ agent'.work = agent.work
  <2>1. agent \in Agents
    BY TypeParts DEF IInv
  <2>2. QED
    BY <2>1, Idles, Zenon DEF ToPrompt, Assumptions
<1>3. TypeOK /\ agent.work \in Nat
  BY DEF IInv, TypeOK
<1>4. saved' \in [Tasks -> Nat \union {None}]
  BY <1>3 DEF TypeOK, JournalTypeOK, Checkpoint
<1>5. TypeOK'
  BY <1>1, <1>2, <1>3, <1>4, TypeParts, TypesKept DEF JournalTypeOK, Places
<1>6. Tasked' /\ TaskHasRow' /\ Undecided' /\ InAnswer' /\ Earned' /\ IsSaved'
  BY <1>1, <1>2
  DEF IInv, Tasked, TaskHasRow, Undecided, InAnswer, Earned, IsSaved, InLoop, InStep, BeforeEnd
<1>7. RowComesFirst'
  BY <1>3, <1>4 DEF IInv, RowComesFirst, TaskHasRow, Checkpoint, TypeOK, JournalTypeOK
<1>8. Behind(1)'
  <2>1. CASE saved' = saved
    BY <1>2, <2>1 DEF IInv, Behind
  <2>2. CASE agent.task # None /\ Checkpoint(agent.task, agent.work)
    <3>1. saved'[agent.task] = agent.work
      BY <1>3, <2>2 DEF Checkpoint, TypeOK, JournalTypeOK
    <3>2. QED
      BY <1>2, <1>3, <3>1 DEF Behind
  <2>3. QED
    BY <2>1, <2>2
<1>9. QED
  BY <1>5, <1>6, <1>7, <1>8 DEF IInv

LEMMA LastSaveIInv ==
    ASSUME Assumptions, IInv, LastSave
    PROVE  IInv'
<1>1. agent.task \in Tasks \union {None} /\ CallTypeOK /\ left \in 0..MaxBatch
      /\ commands \in 0..MaxCommands
  BY DEF IInv, TypeOK
<1>2. UNCHANGED <<callVars, status, left, plan, after, bounds>> /\ ToPrompt
  BY DEF LastSave
<1>3. saved' = saved \/ (agent.task # None /\ Checkpoint(agent.task, agent.work))
  BY DEF LastSave
<1>4. QED
  BY <1>1, <1>2, <1>3, ToPromptIInv DEF CallTypeOK, callVars, bounds

LEMMA CancelIInv ==
    ASSUME Assumptions, IInv, Cancel
    PROVE  IInv'
<1>1. /\ agent.task \in Tasks \union {None} /\ CallTypeOK /\ 0 \in 0..MaxBatch
      /\ commands \in 0..MaxCommands
  <2>1. 0 \in 0..MaxBatch
    BY SMT DEF Assumptions, RunAssumption
  <2>2. QED
    BY <2>1 DEF IInv, TypeOK
<1>2. UNCHANGED <<keys, journalVars, plan, after, prompts, kills>> /\ call' = NoCall /\ left' = 0
  BY DEF Cancel
<1>3. CallTypeOK' /\ commands' \in 0..MaxCommands
  <2>1. commands < MaxCommands /\ commands' = commands + 1
    BY DEF Cancel, Command
  <2>2. commands' \in 0..MaxCommands
    BY <1>1, <2>1, SMT DEF Assumptions, RunAssumption
  <2>3. QED
    BY <1>1, <1>2, <2>2, NoCallType DEF CallTypeOK, Assumptions
<1>4. CASE ToPrompt
  BY <1>1, <1>2, <1>3, <1>4, ToPromptIInv DEF journalVars
<1>5. CASE UNCHANGED agent /\ pc' = "verdict"
  <2>1. TypeOK'
    BY <1>1, <1>2, <1>3, <1>5, TypeParts, TypesKept
    DEF IInv, JournalTypeOK, journalVars, Places
  <2>2. QED
    BY <1>2, <1>5, <2>1
    DEF IInv, Tasked, TaskHasRow, RowComesFirst, Undecided, InAnswer, Earned, IsSaved, Behind,
        InLoop, InStep, BeforeEnd, journalVars
<1>6. QED
  BY <1>4, <1>5 DEF Cancel, Goto

Statuses ==
    {"free", "in_progress", "completed", "partial", "failed", "blocked", "paused", "interrupted"}

LEMMA VerdictIInv ==
    ASSUME Assumptions, IInv, Verdict
    PROVE  IInv'
<1>1. TypeOK /\ agent.task \in Tasks \union {None} /\ status \in [Tasks -> Statuses]
  BY DEF IInv, TypeOK, JournalTypeOK, Statuses
<1>2. pc' = "last save" /\ UNCHANGED <<callVars, saved, agent, left, plan, after, bounds>>
  BY DEF Verdict, Goto
<1>3. /\ status' \in [Tasks -> Statuses]
      /\ \A t \in Tasks : status'[t] = "free" => status[t] = "free"
  <2>1. CASE agent.task = None
    BY <1>1, <2>1 DEF Verdict
  <2>2. CASE agent.task # None
    <3>1. PICK s \in {"completed", "partial", "failed", "blocked", "paused"} :
             TaskUpdate(agent.task, s)
      BY <2>2 DEF Verdict
    <3>2. s \in Statuses \ {"free"}
      BY DEF Statuses
    <3>3. QED
      BY <1>1, <2>2, <3>1, <3>2 DEF TaskUpdate
  <2>3. QED
    BY <2>1, <2>2
<1>4. TypeOK'
  BY <1>1, <1>2, <1>3, TypeParts, TypesKept
  DEF CallTypeOK, callVars, JournalTypeOK, Statuses, bounds, Places
<1>5. TaskHasRow' /\ RowComesFirst'
  BY <1>1, <1>2, <1>3 DEF IInv, TaskHasRow, RowComesFirst
<1>6. Tasked' /\ Undecided' /\ InAnswer' /\ Earned' /\ IsSaved' /\ Behind(1)'
  BY <1>2
  DEF IInv, Tasked, Undecided, InAnswer, Earned, IsSaved, Behind, InLoop, InStep, BeforeEnd
<1>7. QED
  BY <1>4, <1>5, <1>6 DEF IInv

LEMMA ResumeIInv ==
    ASSUME Assumptions, IInv, NEW t \in Tasks, Resume(t)
    PROVE  IInv'
<1>1. /\ TypeOK /\ agent \in Agents /\ agent.work \in Nat /\ status \in [Tasks -> Statuses]
      /\ saved \in [Tasks -> Nat \union {None}] /\ commands \in 0..MaxCommands
  BY DEF IInv, TypeOK, JournalTypeOK, Statuses, Agents
<1>2. /\ UNCHANGED <<callVars, saved, pc, left, plan, after, prompts, kills>>
      /\ status[t] # "free" /\ status' = [status EXCEPT ![t] = "in_progress"]
      /\ commands < MaxCommands /\ commands' = commands + 1
  BY DEF Resume, TaskUpdate, Command
<1>3. PICK g \in BOOLEAN, w \in Nat :
         /\ agent' = Resumed(agent, t, g, w)
         /\ saved[t] # None => w = saved[t]
  <2> DEFINE g == agent.graph \/ plan[t] # "none"
             w == IF saved[t] = None THEN agent.work ELSE saved[t]
  <2>1. g \in BOOLEAN
    BY <1>1, Zenon DEF Agents
  <2>2. w \in Nat /\ (saved[t] # None => w = saved[t])
    BY <1>1
  <2>3. agent' = Resumed(agent, t, g, w)
    BY Zenon DEF Resume, Resumed
  <2> HIDE DEF g, w
  <2>4. QED
    BY <2>1, <2>2, <2>3
<1>4. agent' \in Agents /\ agent'.state = "IDLE" /\ agent'.task = t /\ agent'.work = w
  <2>1. 0 \in 0..MaxSteps
    BY DEF Assumptions, RunAssumption
  <2>2. QED
    BY <1>1, <1>3, <2>1, Zenon DEF Agents, Resumed
<1>5. /\ status' \in [Tasks -> Statuses] /\ status'[t] # "free"
      /\ \A u \in Tasks : status'[u] = "free" => status[u] = "free"
  BY <1>1, <1>2 DEF Statuses
<1>6. commands' \in 0..MaxCommands
  BY <1>1, <1>2, SMT DEF Assumptions, RunAssumption
<1>7. TypeOK'
  BY <1>1, <1>2, <1>4, <1>5, <1>6, TypeParts, TypesKept
  DEF CallTypeOK, callVars, JournalTypeOK, Statuses
<1>8. Tasked' /\ TaskHasRow' /\ RowComesFirst'
  BY <1>2, <1>4, <1>5
  DEF IInv, Tasked, TaskHasRow, RowComesFirst, Assumptions, JournalAssumption
<1>9. Undecided' /\ InAnswer' /\ Earned'
  BY <1>2, <1>4 DEF IInv, Undecided, InAnswer, Earned
<1>10. Behind(0)' /\ Behind(1)'
  <2>1. ASSUME saved[t] # None
        PROVE  agent'.work - saved'[agent'.task] = 0
    BY <1>1, <1>2, <1>3, <1>4, <2>1
  <2>2. QED
    BY <1>2, <1>4, <2>1 DEF Behind
<1>11. QED
  BY <1>7, <1>8, <1>9, <1>10 DEF IInv, IsSaved

(* A new agent, which has no task. *)
LEMMA FreshIInv ==
    ASSUME Assumptions, IInv, agent' = Fresh, pc' \in {"prompt", "down"},
           keys' = [k \in Keys |-> "live"], call' \in {call, NoCall},
           UNCHANGED <<journalVars, plan, after, prompts>>, left' \in {left, 0},
           commands' \in 0..MaxCommands, kills' \in 0..MaxKills
    PROVE  IInv'
<1>1. agent' \in Agents /\ agent'.state = "IDLE" /\ agent'.task = None
  BY IsFresh, Zenon DEF Assumptions
<1>2. CallTypeOK'
  BY NoCallType DEF IInv, TypeOK, CallTypeOK, Assumptions
<1>3. left' \in 0..MaxBatch
  <2>1. 0 \in 0..MaxBatch
    BY SMT DEF Assumptions, RunAssumption
  <2>2. QED
    BY <2>1 DEF IInv, TypeOK
<1>4. TypeOK'
  BY <1>1, <1>2, <1>3, TypeParts, TypesKept DEF IInv, JournalTypeOK, journalVars, Places
<1>5. QED
  BY <1>1, <1>4
  DEF IInv, Tasked, TaskHasRow, RowComesFirst, Undecided, InAnswer, Earned, IsSaved, Behind,
      InLoop, InStep, BeforeEnd, journalVars

LEMMA NewIInv ==
    ASSUME Assumptions, IInv, New
    PROVE  IInv'
<1>1. commands \in 0..MaxCommands /\ kills \in 0..MaxKills
      /\ commands < MaxCommands /\ commands' = commands + 1
  BY DEF IInv, TypeOK, New, Command
<1>2. commands' \in 0..MaxCommands
  BY <1>1, SMT DEF Assumptions, RunAssumption
<1>3. QED
  BY <1>1, <1>2, FreshIInv DEF New

LEMMA KillIInv ==
    ASSUME Assumptions, IInv, Kill
    PROVE  IInv'
<1>1. commands \in 0..MaxCommands /\ kills \in 0..MaxKills
      /\ kills < MaxKills /\ kills' = kills + 1
  BY DEF IInv, TypeOK, Kill
<1>2. kills' \in 0..MaxKills
  BY <1>1, SMT DEF Assumptions, RunAssumption
<1>3. QED
  BY <1>1, <1>2, FreshIInv DEF Kill, Goto

LEMMA LaunchIInv ==
    ASSUME Assumptions, IInv, Launch
    PROVE  IInv'
<1>1. pc' = "prompt" /\ UNCHANGED <<callVars, saved, agent, left, plan, after, bounds>>
  BY DEF Launch, Goto
<1>2. status \in [Tasks -> Statuses]
  BY DEF IInv, TypeOK, JournalTypeOK, Statuses
<1>3. /\ status' \in [Tasks -> Statuses]
      /\ \A t \in Tasks : status'[t] = "free" => status[t] = "free"
  <2>1. status' = [t \in Tasks |->
                     IF status[t] \in {"in_progress", "paused"} THEN "interrupted" ELSE status[t]]
    BY DEF Launch, MarkInterrupted
  <2>2. QED
    BY <1>2, <2>1 DEF Statuses
<1>4. TypeOK'
  BY <1>1, <1>3, TypeParts, TypesKept
  DEF IInv, CallTypeOK, callVars, JournalTypeOK, Statuses, bounds, Places
<1>5. TaskHasRow'
  <2>1. agent.task \in Tasks \union {None}
    BY DEF IInv, TypeOK
  <2>2. QED
    BY <1>1, <1>3, <2>1 DEF IInv, TaskHasRow
<1>6. QED
  BY <1>1, <1>3, <1>4, <1>5
  DEF IInv, Tasked, RowComesFirst, Undecided, InAnswer, Earned, IsSaved, Behind, InLoop, InStep,
      BeforeEnd

-----------------------------------------------------------------------------

LEMMA InitIInv ==
    ASSUME Assumptions, Init
    PROVE  IInv
<1>1. agent \in Agents /\ agent.state = "IDLE" /\ agent.task = None
  BY IsFresh, Zenon DEF Init, Assumptions
<1>2. CallTypeOK
  BY NoCallType DEF Init, CallInit, CallTypeOK, Assumptions
<1>3. JournalTypeOK
  BY DEF Init, JournalInit, JournalTypeOK
<1>4. left \in 0..MaxBatch /\ prompts \in 0..MaxPrompts /\ commands \in 0..MaxCommands
      /\ kills \in 0..MaxKills
  BY SMT DEF Init, Assumptions, RunAssumption
<1>5. TypeOK
  BY <1>1, <1>2, <1>3, <1>4 DEF Init, TypeOK, Agents
<1>6. QED
  BY <1>1, <1>5
  DEF Init, JournalInit, IInv, Tasked, TaskHasRow, RowComesFirst, Undecided, InAnswer, Earned,
      IsSaved, Behind, InLoop, InStep, BeforeEnd

LEMMA NextIInv ==
    ASSUME Assumptions, IInv, [Next]_vars
    PROVE  IInv'
<1>1. CASE UNCHANGED vars
  <2>1. CallTypeOK'
    BY <1>1 DEF IInv, TypeOK, CallTypeOK, vars, callVars
  <2>2. QED
    BY <1>1, <2>1, WaitingIInv DEF vars, runVars
<1>2. CASE Next
  BY <1>2, PromptIInv, StartIInv, LoopIInv, SaveIInv, ThinkIInv, WireIInv, AnsweredIInv,
     UnansweredIInv, TextIInv, BatchIInv, ToolIInv, TerminateIInv, VerdictIInv, LastSaveIInv,
     CancelIInv, ResumeIInv, NewIInv, KillIInv, LaunchIInv
  DEF Next
<1>3. QED
  BY <1>1, <1>2

LEMMA Inductive == Spec => []IInv
<1>1. Init => IInv
  BY InitIInv, Assumed
<1>2. IInv /\ [Next]_vars => IInv'
  BY NextIInv, Assumed
<1>3. QED
  BY <1>1, <1>2, PTL DEF Spec

-----------------------------------------------------------------------------

(* The fields of the agent, of the request and of the journal keep their    *)
(* ranges: no counter of nudges, steps, retries or calls passes its limit.  *)
THEOREM TypeCorrect == Spec => []TypeOK
<1>1. IInv => TypeOK
  BY DEF IInv
<1>2. QED
  BY <1>1, Inductive, PTL

(* When a process dies, the checkpoint is at most one step behind the       *)
(* agent's memory, whatever was resumed, cancelled or killed before.        *)
THEOREM LosesAtMost == Spec => []LosesAtMostAStep
<1>1. IInv => LosesAtMostAStep
  BY DEF IInv, Behind, LosesAtMostAStep
<1>2. QED
  BY <1>1, Inductive, PTL

(* The journal calls a task completed only when its plan is not open, no    *)
(* tool has run, the nudges are used up, or calls came after terminate.     *)
THEOREM CompletedIsEarned == Spec => VerdictIsEarned
<1> DEFINE Earnt ==
      \A t \in Tasks : (status'[t] = "completed" /\ status[t] # "completed") =>
         \/ plan[t] # "open"
         \/ ~agent.worked
         \/ agent.gates = MaxGateNudges
         \/ after
<1>1. ASSUME IInv, Next
      PROVE  Earnt
  <2> SUFFICES ASSUME NEW t \in Tasks, status'[t] = "completed", status[t] # "completed"
               PROVE  plan[t] # "open" \/ ~agent.worked \/ agent.gates = MaxGateNudges \/ after
    OBVIOUS
  <2>1. status \in [Tasks -> Statuses] /\ agent.task \in Tasks \union {None}
    BY <1>1 DEF IInv, TypeOK, JournalTypeOK, Statuses
  <2>2. Verdict
    <3>1. CASE UNCHANGED status
      BY <3>1
    <3>2. CASE Start
      BY <2>1, <3>2 DEF Start, TaskStart
    <3>3. CASE \E u \in Tasks : Resume(u)
      BY <2>1, <3>3 DEF Resume, TaskUpdate
    <3>4. CASE Launch
      BY <2>1, <3>4 DEF Launch, MarkInterrupted
    <3>5. QED
      BY <1>1, <3>1, <3>2, <3>3, <3>4
      DEF Next, Prompt, Loop, Save, Think, Wire, Answered, Unanswered, Text, Batch, Tool,
         Terminate,
          LastSave, Cancel, New, Kill, journalVars
  <2>3. PICK s : /\ TaskUpdate(agent.task, s)
                 /\ s = "completed" => agent.state = "FINISHED" /\ agent.reason \in Verified
    BY <2>2 DEF Verdict
  <2>4. agent.task = t /\ s = "completed"
    BY <2>1, <2>3 DEF TaskUpdate
  <2>5. QED
    BY <1>1, <2>3, <2>4 DEF IInv, Earned
<1>2. ASSUME IInv, [Next]_vars
      PROVE  [Earnt]_vars
  BY <1>1, <1>2
<1>3. QED
  BY <1>2, Inductive, PTL DEF Spec, VerdictIsEarned

(* The request of a run is made and awaited in one place, so a new prompt    *)
(* or a new process, which forget what the pool knew, find none in flight.  *)
CallIsAwaited == pc \notin {"wait", "wait again"} => call.at = "out"

RequestInv == CallIsCounted /\ CallIsAwaited

LEMMA RequestStep ==
    ASSUME CallAssumption, CallTypeOK, RequestInv, [Next]_vars
    PROVE  RequestInv'
<1>1. CASE Think
  <2>1. CallIsCounted'
    BY <1>1, CallingIsCounted DEF Think, RequestInv
  <2>2. CallIsAwaited'
    BY <1>1 DEF Think, Goto, CallIsAwaited
  <2>3. QED
    BY <2>1, <2>2 DEF RequestInv
<1>2. CASE Wire
  <2>1. CallIsCounted'
    BY <1>2, CallingIsCounted DEF Wire, RequestInv
  <2>2. call.at \in {"send", "sleep"}
    BY <1>2 DEF Wire, Calling, Answer, RateLimit, Reject, TimeOut, OtherError, Overflow, Wake
  <2>3. CallIsAwaited'
    BY <1>2, <2>2 DEF Wire, runVars, RequestInv, CallIsAwaited
  <2>4. QED
    BY <2>1, <2>3 DEF RequestInv
<1>3. CASE call' = NoCall
  BY <1>3 DEF NoCall, RequestInv, CallIsCounted, CallIsAwaited
<1>4. CASE New
  <2>1. call' = call /\ pc' = pc /\ pc = "prompt"
    BY <1>4 DEF New
  <2>2. QED
    BY <2>1 DEF RequestInv, CallIsCounted, CallIsAwaited
<1>5. CASE UNCHANGED callVars /\ (pc' = pc \/ pc \notin {"wait", "wait again"})
  BY <1>5 DEF callVars, RequestInv, CallIsCounted, CallIsAwaited, Used, Dead
<1>6. QED
  <2>1. CASE Answered \/ Unanswered \/ Cancel \/ Kill
    BY <1>3, <2>1 DEF Answered, Unanswered, Cancel, Kill
  <2>2. CASE Prompt \/ Start \/ Loop \/ Save \/ Text \/ Batch \/ Tool \/ Terminate \/ Verdict
    BY <1>5, <2>2 DEF Prompt, Start, Loop, Save, Text, Batch, Tool, Terminate, Verdict
  <2>3. CASE LastSave \/ (\E t \in Tasks : Resume(t)) \/ Launch
    BY <1>5, <2>3 DEF LastSave, Resume, Launch
  <2>4. CASE UNCHANGED vars
    BY <1>5, <2>4 DEF vars, runVars
  <2>5. QED
    BY <1>1, <1>2, <1>4, <2>1, <2>2, <2>3, <2>4 DEF Next

(* A request of a run is sent a bounded number of times, whatever the order *)
(* of rate limits, rejected keys, timeouts and errors: the loop over the    *)
(* rejected keys of ask_tool ends although it counts nothing.               *)
THEOREM RequestsEnd == Spec => []RequestsAreBounded
<1>1. Init => RequestInv
  BY DEF Init, CallInit, NoCall, RequestInv, CallIsCounted, CallIsAwaited
<1>2. IInv /\ RequestInv /\ [Next]_vars => RequestInv'
  BY RequestStep, CallAssumption DEF IInv, TypeOK
<1>3. IInv /\ RequestInv => RequestsAreBounded
  <2> SUFFICES ASSUME CallTypeOK, CallIsCounted
               PROVE  RequestsAreBounded
    BY DEF IInv, TypeOK, RequestInv
  <2> DEFINE d == Cardinality(Dead)
             c == Cardinality(Keys)
             base == (call.model - 1) * Budget
             most == Models * Budget
  <2>1. /\ base \in Nat /\ Budget \in Nat /\ base + Budget = call.model * Budget
        /\ call.model * Budget <= most
    BY CallFields, ModelBudgets, CallAssumption
  <2>2. d \in Nat /\ c \in Nat /\ d <= c
    BY DeadIsCounted, CallAssumption
  <2>3. most \in Nat
    <3>1. Models \in 1..Models
      BY SMT, CallAssumption DEF CallAssumption
    <3>2. QED
      BY <3>1, ModelBudgets, CallAssumption
  <2>4. \/ call.generic < MaxRetries /\ call.sent <= base + call.rate + call.generic + d + 1
        \/ call.sent = 0
    <3>1. CASE call.at = "send"
      BY <3>1 DEF CallIsCounted, Used
    <3>2. CASE call.at = "sleep"
      <4>1. call.generic < MaxRetries /\ call.sent <= base + call.rate + call.generic + d
        BY <3>2 DEF CallIsCounted, Used
      <4> HIDE DEF d, base
      <4>2. QED
        BY <2>1, <2>2, <4>1, CallFields, CallAssumption, SMT
    <3>3. CASE call.at \notin {"send", "sleep"}
      BY <3>3 DEF CallIsCounted
    <3>4. QED
      BY <3>1, <3>2, <3>3
  <2>5. Budget = MaxRetries + MaxRateRetries
    BY DEF Budget
  <2>6. call.rate <= MaxRateRetries /\ call.rate \in Nat /\ call.generic \in Nat
    BY CallFields, CallAssumption, SMT DEF CallAssumption
  <2>7. call.sent <= most + c
    <3> HIDE DEF d, c, base, most
    <3>1. call.model * Budget \in Int
      BY <2>1, SMT
    <3>2. base + Budget <= most
      BY <2>1
    <3>3. QED
      BY <2>1, <2>2, <2>3, <2>4, <2>5, <2>6, <3>2, CallFields, CallAssumption, SMT
      DEF CallAssumption
  <2>8. QED
    BY <2>7 DEF RequestsAreBounded, Budget
<1>4. QED
  BY <1>1, <1>2, <1>3, Inductive, PTL DEF Spec

-----------------------------------------------------------------------------
(* ---- The conversation.                                                 *)

(* Whoever is between the two files of the log. *)
Writing == {t \in Threads : io[t].at = "replaced"}

(* One append at a time is in progress, so what it has read is still what    *)
(* the file holds when it replaces it, and the number is behind by the      *)
(* append that is between the files and by those that a death cut off.      *)
LogSound ==
    /\ \A t, u \in Conv!Holding : t = u
    /\ \A t \in Threads : io[t].at = "read" => io[t].existing = lines
    /\ countFile = count
    /\ count <= Len(lines) /\ (Writing # {} => count < Len(lines))
    /\ Len(lines) <= count + crashes + (IF Writing = {} THEN 0 ELSE 1)

(* A loop is between its check and its step at most once after a stop.      *)
StopSound ==
    \A t \in Threads :
        late[t] <= 1 /\ (~cancelled \/ threadPc[t] = "step" => late[t] = 0)

(* An event that this process has logged, or that a thread of it is about   *)
(* to write.                                                               *)
Logged(e) == \E i \in since + 1..Len(lines) : lines[i] = e

Pending(t, e) == io[t].at \in {"waiting", "read"} /\ io[t].event = e

Noted(e) == Logged(e) \/ \E t \in Threads : Pending(t, e)

(* An interrupt explains every end. *)
AfterStop(e) == Noted(e) \/ Noted("interrupt")

(* Where a thread keeps a conversation running, and where it can be before  *)
(* any run of this process has begun.                                      *)
RunningAt ==
    {"announce", "look", "check", "step", "stepping", "after", "leave", "settle", "unwind",
     "abandon", "failed", "error"}

NotBegun == {"idle", "send", "run", "token", "open", "interrupt", "judge", "close"}

(* StatusIsExplained with the calls in progress: each status has its event,  *)
(* or somebody who will change it.                                         *)
StatusSound ==
    /\ conversationStatus = "IDLE" =>
         ~Noted("started") /\ \A t \in Threads : threadPc[t] \in NotBegun
    /\ conversationStatus = "RUNNING" =>
         Noted("resumed") \/ \E t \in Threads : threadPc[t] \in RunningAt
    /\ conversationStatus = "PAUSED" => Noted("interrupt")
    /\ conversationStatus = "FINISHED" => AfterStop("finished")
    /\ conversationStatus = "ERROR" => AfterStop("error")

(* What a thread has noted by the place where it is. *)
ThreadSound(t) ==
    /\ threadPc[t] \in {"leave", "settle"} =>
         AfterStop("finished") \/ conversationStatus \in Conv!Terminal
    /\ threadPc[t] \in {"unwind", "abandon"} => Noted("interrupt")
    /\ threadPc[t] \in {"failed", "failed2", "error"} => AfterStop("error")

StepsSound ==
    \A t \in Threads : threadPc[t] \in {"check", "step"} => steps[t] < MaxSteps

ConvInv ==
    /\ Conv!TypeOK /\ LogSound /\ StepsSound /\ StopSound /\ StatusSound
    /\ \A t \in Threads : ThreadSound(t)

ConvAssumed == Conv!LogAssumption /\ Conv!CallsAssumption

-----------------------------------------------------------------------------
(* What an operation does to the log.                                      *)

Logs(t, e) ==
    io[t].at = "out" /\ Conv!Append1(t, e) /\ UNCHANGED <<lines, countFile, count, crashes>>

LogMove(t) ==
    \/ UNCHANGED Conv!logVars \/ Conv!Appending(t) \/ Conv!Reindex \/ Conv!Reopen
    \/ \E e \in Conv!Kinds : Logs(t, e)

LEMMA LogsKept ==
    ASSUME ConvAssumed, Conv!LogTypeOK, LogSound, NEW t \in Threads, NEW e \in Conv!Kinds,
    Logs(t, e)
    PROVE  Conv!LogTypeOK' /\ LogSound'
<1> DEFINE r == [io[t] EXCEPT !.at = "waiting", !.event = e]
<1>0. e \in EventKinds /\ e # None
  BY DEF ConvAssumed, Conv!CallsAssumption, Conv!LogAssumption
<1>1. io' = [io EXCEPT ![t] = r] /\ r.at = "waiting" /\ r.event = e
  BY DEF Logs, Conv!Append1, Conv!LogTypeOK
<1>2. r \in [at : {"out", "waiting", "read", "replaced"},
             event : EventKinds \union {None}, existing : Seq(EventKinds)]
  BY <1>0 DEF Conv!LogTypeOK
<1> HIDE DEF r
<1>3. Conv!LogTypeOK'
  BY <1>0, <1>1, <1>2 DEF Logs, Conv!LogTypeOK
<1>4. \A u \in Threads : u # t => io'[u] = io[u]
  BY <1>1 DEF Conv!LogTypeOK
<1>5. io'[t].at = "waiting" /\ io[t].at = "out"
  BY <1>1 DEF Logs, Conv!LogTypeOK
<1>6. Conv!Holding' = Conv!Holding /\ Writing' = Writing
  BY <1>4, <1>5 DEF Conv!Holding, Writing
<1>7. LogSound'
  BY <1>4, <1>5, <1>6 DEF Logs, LogSound
<1>8. QED
  BY <1>3, <1>7

LEMMA ReadKept ==
    ASSUME ConvAssumed, Conv!LogTypeOK, LogSound, NEW t \in Threads, Conv!Read(t)
    PROVE  Conv!LogTypeOK' /\ LogSound'
<1> DEFINE r == [io[t] EXCEPT !.at = "read", !.existing = lines]
<1>1. io' = [io EXCEPT ![t] = r] /\ r.at = "read" /\ r.existing = lines /\ r.event = io[t].event
  BY DEF Conv!Read, Conv!LogTypeOK
<1>2. r \in [at : {"out", "waiting", "read", "replaced"},
             event : EventKinds \union {None}, existing : Seq(EventKinds)]
  BY DEF Conv!LogTypeOK
<1> HIDE DEF r
<1>3. Conv!LogTypeOK'
  BY <1>1, <1>2 DEF Conv!Read, Conv!LogTypeOK
<1>4. \A u \in Threads : u # t => io'[u] = io[u]
  BY <1>1 DEF Conv!LogTypeOK
<1>5. io'[t].at = "read" /\ io'[t].existing = lines /\ io[t].at = "waiting"
  BY <1>1 DEF Conv!Read, Conv!LogTypeOK
<1>6. Conv!Holding = {} /\ Conv!Holding' = {t} /\ Writing = {} /\ Writing' = {}
  BY <1>4, <1>5 DEF Conv!Read, Conv!Holding, Writing
<1>7. LogSound'
  BY <1>4, <1>5, <1>6 DEF Conv!Read, LogSound, Conv!Holding
<1>8. QED
  BY <1>3, <1>7

LEMMA ReplaceKept ==
    ASSUME ConvAssumed, Conv!LogTypeOK, LogSound, NEW t \in Threads, Conv!Replace(t)
    PROVE  Conv!LogTypeOK' /\ LogSound'
<1> DEFINE r == [io[t] EXCEPT !.at = "replaced"]
<1>1. io' = [io EXCEPT ![t] = r] /\ r.at = "replaced" /\ r.event = io[t].event
  BY DEF Conv!Replace, Conv!LogTypeOK
<1>2. r \in [at : {"out", "waiting", "read", "replaced"},
             event : EventKinds \union {None}, existing : Seq(EventKinds)]
  BY DEF Conv!LogTypeOK
<1> HIDE DEF r
<1>3. io[t].event \in EventKinds /\ io[t].existing = lines /\ io[t].at = "read"
  BY DEF Conv!Replace, Conv!LogTypeOK, LogSound
<1>4. lines' = Append(lines,
io[t].event) /\ lines' \in Seq(EventKinds) /\ Len(lines') = Len(lines) + 1
  BY <1>3 DEF Conv!Replace, Conv!LogTypeOK
<1>5. Conv!LogTypeOK'
  BY <1>1, <1>2, <1>3, <1>4 DEF Conv!Replace, Conv!LogTypeOK
<1>6. \A u \in Threads : u # t => io'[u] = io[u]
  BY <1>1 DEF Conv!LogTypeOK
<1>7. io'[t].at = "replaced"
  BY <1>1 DEF Conv!LogTypeOK
<1>8. t \in Conv!Holding /\ Conv!Holding = {t} /\ Conv!Holding' = {t}
  BY <1>3, <1>6, <1>7 DEF Conv!Holding, LogSound
<1>9. Writing = {} /\ Writing' = {t} /\ \A u \in Threads : io'[u].at # "read"
  BY <1>3, <1>6, <1>7, <1>8 DEF Conv!Holding, Writing
<1>10. LogSound'
  BY <1>4, <1>8, <1>9 DEF Conv!Replace, LogSound, Conv!LogTypeOK
<1>11. QED
  BY <1>5, <1>10

LEMMA CountKept ==
    ASSUME ConvAssumed, Conv!LogTypeOK, LogSound, NEW t \in Threads, Conv!Count(t)
    PROVE  Conv!LogTypeOK' /\ LogSound'
<1>1. Conv!Out \in [at : {"out", "waiting", "read", "replaced"},
               event : EventKinds \union {None}, existing : Seq(EventKinds)]
  BY DEF Conv!Out
<1>2. io' = [io EXCEPT ![t] = Conv!Out] /\ Conv!Out.at = "out"
  BY DEF Conv!Count, Conv!Out
<1>3. Conv!LogTypeOK'
  BY <1>1, <1>2 DEF Conv!Count, Conv!LogTypeOK
<1>4. \A u \in Threads : u # t => io'[u] = io[u]
  BY <1>2 DEF Conv!LogTypeOK
<1>5. io'[t].at = "out" /\ io[t].at = "replaced"
  BY <1>2 DEF Conv!Count, Conv!LogTypeOK
<1>6. Conv!Holding = {t} /\ Conv!Holding' = {} /\ Writing = {t} /\ Writing' = {}
  BY <1>4, <1>5 DEF Conv!Holding, Writing, LogSound
<1>7. LogSound'
  BY <1>4, <1>5, <1>6 DEF Conv!Count, LogSound, Conv!LogTypeOK, Conv!Holding
<1>8. QED
  BY <1>3, <1>7

LEMMA ReindexKept ==
    ASSUME ConvAssumed, Conv!LogTypeOK, LogSound, Conv!Reindex
    PROVE  Conv!LogTypeOK' /\ LogSound'
<1>1. Conv!LogTypeOK'
  BY DEF Conv!Reindex, Conv!LogTypeOK
<1>2. Conv!Holding' = {} /\ Writing' = {} /\ \A u \in Threads : io[u].at # "read"
  BY DEF Conv!Reindex, Conv!Holding, Writing
<1>3. LogSound'
  BY <1>2 DEF Conv!Reindex, LogSound, Conv!LogTypeOK
<1>4. QED
  BY <1>1, <1>3

LEMMA ReopenKept ==
    ASSUME ConvAssumed, Conv!LogTypeOK, LogSound, Conv!Reopen
    PROVE  Conv!LogTypeOK' /\ LogSound'
<1>1. Conv!Out \in [at : {"out", "waiting", "read", "replaced"},
               event : EventKinds \union {None}, existing : Seq(EventKinds)]
  BY DEF Conv!Out
<1>2. \A u \in Threads : io'[u].at = "out"
  BY DEF Conv!Reopen, Conv!Out
<1>3. Conv!LogTypeOK'
  BY <1>1, <1>2 DEF Conv!Reopen, Conv!LogTypeOK, ConvAssumed, Conv!LogAssumption
<1>4. Conv!Holding' = {} /\ Writing' = {}
  BY <1>2 DEF Conv!Holding, Writing
<1>5. LogSound'
  BY <1>2, <1>4 DEF Conv!Reopen, LogSound, Conv!LogTypeOK
<1>6. QED
  BY <1>3, <1>5

LEMMA LogKept ==
    ASSUME ConvAssumed, Conv!LogTypeOK, LogSound, NEW t \in Threads, LogMove(t)
    PROVE  Conv!LogTypeOK' /\ LogSound'
<1>1. CASE UNCHANGED Conv!logVars
  <2>1. Conv!LogTypeOK' = Conv!LogTypeOK /\ LogSound' = LogSound
    BY <1>1 DEF Conv!logVars, Conv!LogTypeOK, LogSound, Conv!Holding, Writing
  <2>2. QED
    BY <2>1
<1>2. QED
  BY <1>1, ReadKept, ReplaceKept, CountKept, ReindexKept, ReopenKept, LogsKept
  DEF LogMove, Conv!Appending

-----------------------------------------------------------------------------
(* What has been noted stays noted while the process lives.                *)

LEMMA NotedLogs ==
    ASSUME Conv!LogTypeOK, NEW t \in Threads, NEW e \in Conv!Kinds, Logs(t, e), since' = since
    PROVE  \A x \in Conv!Kinds : Noted(x)' <=> Noted(x) \/ x = e
<1>1. \A u \in Threads : u # t => io'[u] = io[u]
  BY DEF Logs, Conv!Append1, Conv!LogTypeOK
<1>2. io'[t].at = "waiting" /\ io'[t].event = e /\ io[t].at = "out"
  BY DEF Logs, Conv!Append1, Conv!LogTypeOK
<1>3. QED
  BY <1>1, <1>2 DEF Logs, Noted, Logged, Pending

LEMMA NotedQuietly ==
    ASSUME ConvAssumed, Conv!LogTypeOK, LogSound, since \in 0..Len(lines), NEW t \in Threads,
           UNCHANGED Conv!logVars \/ Conv!Appending(t) \/ Conv!Reindex, since' = since
    PROVE  \A x \in Conv!Kinds : Noted(x)' <=> Noted(x)
<1>1. CASE UNCHANGED Conv!logVars \/ Conv!Reindex
  BY <1>1 DEF Conv!logVars, Conv!Reindex, Noted, Logged, Pending
<1>2. CASE Conv!Read(t)
  <2>1. \A u \in Threads : u # t => io'[u] = io[u]
    BY <1>2 DEF Conv!Read, Conv!LogTypeOK
  <2>2. io'[t].at = "read" /\ io'[t].event = io[t].event /\ io[t].at = "waiting"
    BY <1>2 DEF Conv!Read, Conv!LogTypeOK
  <2>3. \A u \in Threads, x \in Conv!Kinds : Pending(u, x)' <=> Pending(u, x)
    BY <2>1, <2>2 DEF Pending
  <2>4. QED
    BY <1>2, <2>3 DEF Conv!Read, Noted, Logged
<1>3. CASE Conv!Replace(t)
  <2>1. io[t].event \in EventKinds /\ io[t].existing = lines /\ io[t].at = "read"
    BY <1>3 DEF Conv!Replace, Conv!LogTypeOK, LogSound
  <2>2. /\ lines' = Append(lines, io[t].event)
        /\ Len(lines') = Len(lines) + 1
        /\ lines'[Len(lines) + 1] = io[t].event
        /\ \A i \in 1..Len(lines) : lines'[i] = lines[i]
    BY <1>3, <2>1 DEF Conv!Replace, Conv!LogTypeOK
  <2>3. Len(lines) \in Nat /\ since \in Nat
    BY DEF Conv!LogTypeOK
  <2>4. \A x \in Conv!Kinds : Logged(x)' <=> Logged(x) \/ io[t].event = x
    BY <2>2, <2>3 DEF Logged
  <2>5. \A u \in Threads : u # t => io'[u] = io[u]
    BY <1>3 DEF Conv!Replace, Conv!LogTypeOK
  <2>6. io'[t].at = "replaced"
    BY <1>3 DEF Conv!Replace, Conv!LogTypeOK
  <2>7. \A u \in Threads, x \in Conv!Kinds : Pending(u, x)' <=> Pending(u, x) /\ u # t
    BY <2>5, <2>6 DEF Pending
  <2>8. \A x \in Conv!Kinds : Pending(t, x) <=> io[t].event = x
    BY <2>1 DEF Pending
  <2>9. QED
    BY <2>4, <2>7, <2>8 DEF Noted
<1>4. CASE Conv!Count(t)
  <2>1. \A u \in Threads : u # t => io'[u] = io[u]
    BY <1>4 DEF Conv!Count, Conv!LogTypeOK
  <2>2. io'[t].at = "out" /\ io[t].at = "replaced"
    BY <1>4 DEF Conv!Count, Conv!LogTypeOK, Conv!Out
  <2>3. \A u \in Threads, x \in Conv!Kinds : Pending(u, x)' <=> Pending(u, x)
    BY <2>1, <2>2 DEF Pending
  <2>4. QED
    BY <1>4, <2>3 DEF Conv!Count, Noted, Logged
<1>5. QED
  BY <1>1, <1>2, <1>3, <1>4 DEF Conv!Appending

-----------------------------------------------------------------------------
(* What the steps of a thread do to the log.                               *)

Quiet(t) == UNCHANGED Conv!logVars \/ Conv!Appending(t) \/ Conv!Reindex

LEMMA StepMoves ==
    ASSUME NEW t \in Threads, Conv!Call(t) \/ Conv!Work(t)
    PROVE  since' = since /\ (Quiet(t) \/ \E e \in Conv!Kinds : Logs(t, e))
<1> USE DEF Conv!Jump, Conv!Goto, Conv!Log, Logs, Conv!At, Quiet, Conv!Kinds
<1>1. CASE Conv!Call(t)
  BY <1>1 DEF Conv!Call
<1>2. CASE Conv!Work(t)
  BY <1>2 DEF Conv!Work, Conv!Sent, Conv!Run, Conv!NewToken, Conv!Open, Conv!Announce, Conv!Look,
     Conv!Check, Conv!Begin, Conv!End, Conv!After, Conv!Leave,
     Conv!Settle, Conv!Unwind, Conv!Abandon, Conv!Failed, Conv!Error, Conv!Cancel, Conv!Judge,
     Conv!Pause
<1>3. QED
  BY <1>1, <1>2

LEMMA ThreadTypesKept ==
    ASSUME ConvAssumed, ConvInv, NEW t \in Threads, Conv!Call(t) \/ Conv!Work(t)
    PROVE  Conv!TypeOK' /\ LogSound' /\ StepsSound' /\ StopSound'
<1>1. Conv!LogTypeOK' /\ LogSound' /\ since' \in 0..Len(lines')
  <2>1. Conv!LogTypeOK' /\ LogSound' /\ since' = since
    BY StepMoves, LogKept DEF ConvInv, Conv!TypeOK, LogMove, Quiet
  <2>2. Len(lines') >= Len(lines)
    <3>1. CASE Conv!Replace(t)
      <4>1. io[t].existing = lines /\ io[t].event \in EventKinds
        BY <3>1 DEF Conv!Replace, ConvInv, Conv!TypeOK, Conv!LogTypeOK, LogSound
      <4>2. QED
        BY <3>1, <4>1 DEF Conv!Replace, ConvInv, Conv!TypeOK, Conv!LogTypeOK
    <3>2. CASE ~Conv!Replace(t)
      <4>1. lines' = lines
        BY <3>2, StepMoves DEF Quiet, Logs, Conv!logVars, Conv!Reindex, Conv!Appending,
           Conv!Read, Conv!Count
      <4>2. QED
        BY <4>1 DEF ConvInv, Conv!TypeOK, Conv!LogTypeOK
    <3>3. QED
      BY <3>1, <3>2
  <2>3. QED
    BY <2>1, <2>2 DEF ConvInv, Conv!TypeOK, Conv!LogTypeOK
<1>2. Conv!TypeOK'
  <2> USE DEF ConvInv, Conv!TypeOK, StepsSound, Conv!Jump, Conv!Goto, Conv!Log, Conv!At,
      Conv!Labels, Conv!Allowed, Conv!Transitions, Conv!Statuses,
      ConvAssumed, Conv!CallsAssumption
  <2>1. CASE Conv!Call(t)
    <3>1. threadPc' \in [Threads -> Conv!Labels]
      BY <2>1 DEF Conv!Call
    <3>2. calls' \in [Threads -> Nat] /\ \A u \in Threads : calls'[u] <= MaxCalls[u]
      BY <2>1 DEF Conv!Call
    <3>3. QED
      BY <1>1, <2>1, <3>1, <3>2 DEF Conv!Call
  <2>2. CASE Conv!Appending(t) /\ UNCHANGED <<conversationStatus, cancelled, threadPc, steps,
  calls, since, late>>
    BY <1>1, <2>2
  <2>3. CASE Conv!Sent(t)
    BY <1>1, <2>3 DEF Conv!Sent
  <2>4. CASE Conv!Run(t)
    BY <1>1, <2>4 DEF Conv!Run
  <2>5. CASE Conv!NewToken(t)
    BY <1>1, <2>5 DEF Conv!NewToken
  <2>6. CASE Conv!Open(t)
    BY <1>1, <2>6 DEF Conv!Open
  <2>7. CASE Conv!Announce(t)
    BY <1>1, <2>7 DEF Conv!Announce
  <2>8. CASE Conv!Look(t)
    BY <1>1, <2>8 DEF Conv!Look
  <2>9. CASE Conv!Check(t)
    BY <1>1, <2>9 DEF Conv!Check
  <2>10. CASE Conv!Begin(t)
    BY <1>1, <2>10 DEF Conv!Begin
  <2>11. CASE Conv!End(t)
    BY <1>1, <2>11 DEF Conv!End
  <2>12. CASE Conv!After(t)
    BY <1>1, <2>12 DEF Conv!After
  <2>13. CASE Conv!Leave(t)
    BY <1>1, <2>13 DEF Conv!Leave
  <2>14. CASE Conv!Settle(t)
    BY <1>1, <2>14 DEF Conv!Settle
  <2>15. CASE Conv!Unwind(t)
    BY <1>1, <2>15 DEF Conv!Unwind
  <2>16. CASE Conv!Abandon(t)
    BY <1>1, <2>16 DEF Conv!Abandon
  <2>17. CASE Conv!Failed(t)
    BY <1>1, <2>17 DEF Conv!Failed
  <2>18. CASE Conv!Error(t)
    BY <1>1, <2>18 DEF Conv!Error
  <2>19. CASE Conv!Cancel(t)
    BY <1>1, <2>19 DEF Conv!Cancel
  <2>20. CASE Conv!Judge(t)
    BY <1>1, <2>20 DEF Conv!Judge
  <2>21. CASE Conv!Pause(t)
    BY <1>1, <2>21 DEF Conv!Pause
  <2>22. QED
    BY <2>1, <2>2, <2>3, <2>4, <2>5, <2>6, <2>7, <2>8, <2>9, <2>10, <2>11, <2>12, <2>13, <2>14,
       <2>15, <2>16, <2>17, <2>18, <2>19, <2>20, <2>21 DEF Conv!Work
<1>3. StepsSound' /\ StopSound'
  <2> USE DEF ConvInv, Conv!TypeOK, StepsSound, StopSound, Conv!Jump, Conv!Goto, Conv!Log, Conv!At
  <2>1. CASE Conv!Call(t)
    BY <2>1 DEF Conv!Call
  <2>2. CASE Conv!Appending(t) /\ UNCHANGED <<conversationStatus, cancelled, threadPc, steps,
  calls, since, late>>
    BY <2>2
  <2>3. CASE Conv!Sent(t)
    BY <2>3 DEF Conv!Sent
  <2>4. CASE Conv!Run(t)
    BY <2>4 DEF Conv!Run
  <2>5. CASE Conv!NewToken(t)
    BY <2>5 DEF Conv!NewToken
  <2>6. CASE Conv!Open(t)
    BY <2>6 DEF Conv!Open
  <2>7. CASE Conv!Announce(t)
    BY <2>7 DEF Conv!Announce
  <2>8. CASE Conv!Look(t)
    BY <2>8 DEF Conv!Look
  <2>9. CASE Conv!Check(t)
    BY <2>9 DEF Conv!Check
  <2>10. CASE Conv!Begin(t)
    BY <2>10 DEF Conv!Begin
  <2>11. CASE Conv!End(t)
    BY <2>11 DEF Conv!End
  <2>12. CASE Conv!After(t)
    BY <2>12 DEF Conv!After
  <2>13. CASE Conv!Leave(t)
    BY <2>13 DEF Conv!Leave
  <2>14. CASE Conv!Settle(t)
    BY <2>14 DEF Conv!Settle
  <2>15. CASE Conv!Unwind(t)
    BY <2>15 DEF Conv!Unwind
  <2>16. CASE Conv!Abandon(t)
    BY <2>16 DEF Conv!Abandon
  <2>17. CASE Conv!Failed(t)
    BY <2>17 DEF Conv!Failed
  <2>18. CASE Conv!Error(t)
    BY <2>18 DEF Conv!Error
  <2>19. CASE Conv!Cancel(t)
    BY <2>19 DEF Conv!Cancel
  <2>20. CASE Conv!Judge(t)
    BY <2>20 DEF Conv!Judge
  <2>21. CASE Conv!Pause(t)
    BY <2>21 DEF Conv!Pause
  <2>22. QED
    BY <2>1, <2>2, <2>3, <2>4, <2>5, <2>6, <2>7, <2>8, <2>9, <2>10, <2>11, <2>12, <2>13, <2>14,
       <2>15, <2>16, <2>17, <2>18, <2>19, <2>20, <2>21 DEF Conv!Work
<1>4. QED
  BY <1>1, <1>2, <1>3

LEMMA NotedKept ==
    ASSUME ConvAssumed, ConvInv, NEW t \in Threads, Conv!Call(t) \/ Conv!Work(t)
    PROVE  /\ Quiet(t) => \A x \in Conv!Kinds : Noted(x)' <=> Noted(x)
           /\ \A e \in Conv!Kinds : Logs(t, e) =>
                \A x \in Conv!Kinds : Noted(x)' <=> Noted(x) \/ x = e
<1>1. since' = since
  BY StepMoves
<1>2. QED
  BY <1>1, NotedQuietly, NotedLogs DEF ConvInv, Conv!TypeOK, Quiet

LEMMA StatusKept ==
    ASSUME ConvAssumed, ConvInv, NEW t \in Threads, Conv!Call(t) \/ Conv!Work(t)
    PROVE  StatusSound' /\ \A u \in Threads : ThreadSound(u)'
<1> DEFINE Same == \A x \in Conv!Kinds : Noted(x)' <=> Noted(x)
           Plus(e) == \A x \in Conv!Kinds : Noted(x)' <=> Noted(x) \/ x = e
<1>1. /\ UNCHANGED Conv!logVars \/ Conv!Appending(t) \/ Conv!Reindex => Same
      /\ \A e \in Conv!Kinds : Logs(t, e) => Plus(e)
  BY NotedKept DEF Quiet
<1>2. Conv!Kinds = {"message", "started", "finished", "interrupt", "resumed", "error"}
  BY DEF Conv!Kinds
<1>3. threadPc \in [Threads -> Conv!Labels] /\ conversationStatus \in Conv!Statuses
  BY DEF ConvInv, Conv!TypeOK
<1>4. StatusSound /\ \A u \in Threads : ThreadSound(u)
  BY DEF ConvInv
<1> USE DEF Conv!Jump, Conv!Goto, Conv!Log, Conv!At, StatusSound, ThreadSound, AfterStop,
    RunningAt, NotBegun, Conv!Terminal,
    Conv!Allowed, Conv!Transitions, Conv!Statuses
<1>5. CASE Conv!Call(t)
  BY <1>1, <1>2, <1>3, <1>4, <1>5 DEF Conv!Call, Logs
<1>6. CASE Conv!Sent(t)
  BY <1>1, <1>2, <1>3, <1>4, <1>6 DEF Conv!Sent, Logs
<1>7. CASE Conv!Run(t)
  BY <1>1, <1>2, <1>3, <1>4, <1>7 DEF Conv!Run, Logs
<1>8. CASE Conv!NewToken(t)
  BY <1>1, <1>2, <1>3, <1>4, <1>8 DEF Conv!NewToken, Logs
<1>9. CASE Conv!Open(t)
  BY <1>1, <1>2, <1>3, <1>4, <1>9 DEF Conv!Open, Logs
<1>10. CASE Conv!Announce(t)
  BY <1>1, <1>2, <1>3, <1>4, <1>10 DEF Conv!Announce, Logs
<1>11. CASE Conv!Look(t)
  BY <1>1, <1>2, <1>3, <1>4, <1>11 DEF Conv!Look, Logs
<1>12. CASE Conv!Check(t)
  BY <1>1, <1>2, <1>3, <1>4, <1>12 DEF Conv!Check, Logs
<1>13. CASE Conv!Begin(t)
  BY <1>1, <1>2, <1>3, <1>4, <1>13 DEF Conv!Begin, Logs
<1>14. CASE Conv!End(t)
  BY <1>1, <1>2, <1>3, <1>4, <1>14 DEF Conv!End, Logs
<1>15. CASE Conv!After(t)
  BY <1>1, <1>2, <1>3, <1>4, <1>15 DEF Conv!After, Logs
<1>16. CASE Conv!Leave(t)
  BY <1>1, <1>2, <1>3, <1>4, <1>16 DEF Conv!Leave, Logs
<1>17. CASE Conv!Settle(t)
  BY <1>1, <1>2, <1>3, <1>4, <1>17 DEF Conv!Settle, Logs
<1>18. CASE Conv!Unwind(t)
  BY <1>1, <1>2, <1>3, <1>4, <1>18 DEF Conv!Unwind, Logs
<1>19. CASE Conv!Abandon(t)
  BY <1>1, <1>2, <1>3, <1>4, <1>19 DEF Conv!Abandon, Logs
<1>20. CASE Conv!Failed(t)
  BY <1>1, <1>2, <1>3, <1>4, <1>20 DEF Conv!Failed, Logs
<1>21. CASE Conv!Error(t)
  BY <1>1, <1>2, <1>3, <1>4, <1>21 DEF Conv!Error, Logs
<1>22. CASE Conv!Cancel(t)
  BY <1>1, <1>2, <1>3, <1>4, <1>22 DEF Conv!Cancel, Logs
<1>23. CASE Conv!Judge(t)
  BY <1>1, <1>2, <1>3, <1>4, <1>23 DEF Conv!Judge, Logs
<1>24. CASE Conv!Pause(t)
  BY <1>1, <1>2, <1>3, <1>4, <1>24 DEF Conv!Pause, Logs
<1>25. CASE Conv!Appending(t) /\ UNCHANGED <<conversationStatus, cancelled, threadPc, steps,
calls, since, late>>
  BY <1>1, <1>2, <1>3, <1>4, <1>25
<1>26. QED
  BY <1>5, <1>6, <1>7, <1>8, <1>9, <1>10, <1>11, <1>12, <1>13, <1>14, <1>15, <1>16, <1>17, <1>18,
     <1>19, <1>20, <1>21, <1>22, <1>23, <1>24, <1>25 DEF Conv!Work

LEMMA CrashKept ==
    ASSUME ConvAssumed, ConvInv, Conv!Crash
    PROVE  ConvInv'
<1>1. Conv!LogTypeOK' /\ LogSound'
  BY ReopenKept DEF ConvInv, Conv!TypeOK, Conv!Crash
<1>2. Conv!TypeOK'
  <2>1. lines' = lines /\ Len(lines) \in Nat /\ MaxSteps \in Nat
    BY DEF ConvInv, Conv!TypeOK, Conv!Crash, Conv!Reopen, Conv!LogTypeOK, ConvAssumed,
       Conv!CallsAssumption
  <2>2. since' \in 0..Len(lines') /\ steps' \in [Threads -> 0..MaxSteps]
    BY <2>1 DEF Conv!Crash
  <2>3. threadPc' \in [Threads -> Conv!Labels] /\ conversationStatus' \in Conv!Statuses
    BY DEF Conv!Crash, Conv!Labels, Conv!Statuses, Conv!Transitions
  <2>4. QED
    BY <1>1, <2>2, <2>3 DEF ConvInv, Conv!TypeOK, Conv!Crash
<1>3. StepsSound' /\ StopSound'
  BY DEF Conv!Crash, StepsSound, StopSound
<1>4. \A x \in Conv!Kinds : ~Noted(x)'
  <2>1. \A x \in Conv!Kinds : ~Logged(x)'
    BY DEF Conv!Crash, Conv!Reopen, Logged, ConvInv, Conv!TypeOK, Conv!LogTypeOK
  <2>2. \A u \in Threads : io'[u].at = "out"
    BY DEF Conv!Crash, Conv!Reopen, Conv!Out
  <2>3. QED
    BY <2>1, <2>2 DEF Noted, Pending
<1>5. StatusSound' /\ \A t \in Threads : ThreadSound(t)'
  BY <1>4 DEF Conv!Crash, StatusSound, ThreadSound, NotBegun, Conv!Kinds
<1>6. QED
  BY <1>1, <1>2, <1>3, <1>5 DEF ConvInv

LEMMA InitConv ==
    ASSUME ConvAssumed, Conv!Init
    PROVE  ConvInv
<1>1. \A t \in Threads : io[t] = Conv!Out
  BY DEF Conv!Init, Conv!LogInit
<1>2. Conv!Out \in [at : {"out", "waiting", "read", "replaced"},
               event : EventKinds \union {None}, existing : Seq(EventKinds)] /\ Conv!Out.at = "out"
  BY DEF Conv!Out
<1>3. Conv!TypeOK
  <2>1. MaxSteps \in Nat /\ MaxCrashes \in Nat /\ MaxCalls \in [Threads -> Nat]
    BY DEF ConvAssumed, Conv!CallsAssumption, Conv!LogAssumption
  <2>2. since \in 0..Len(lines) /\ steps \in [Threads -> 0..MaxSteps]
    BY <2>1 DEF Conv!Init, Conv!LogInit
  <2>3. threadPc \in [Threads -> Conv!Labels] /\ conversationStatus \in Conv!Statuses
    BY DEF Conv!Init, Conv!Labels, Conv!Statuses, Conv!Transitions
  <2>4. Conv!LogTypeOK
    BY <1>1, <1>2, <2>1 DEF Conv!Init, Conv!LogInit, Conv!LogTypeOK
  <2>5. \A t \in Threads : calls[t] <= MaxCalls[t]
    BY <2>1 DEF Conv!Init
  <2>6. QED
    BY <2>2, <2>3, <2>4, <2>5 DEF Conv!Init, Conv!TypeOK
<1>4. Conv!Holding = {} /\ Writing = {}
  BY <1>1, <1>2 DEF Conv!Holding, Writing
<1>5. LogSound
  BY <1>1, <1>2, <1>4 DEF Conv!Init, Conv!LogInit, LogSound
<1>6. StepsSound /\ StopSound
  BY DEF Conv!Init, StepsSound, StopSound
<1>7. \A x \in Conv!Kinds : ~Noted(x)
  BY <1>1, <1>2 DEF Conv!Init, Conv!LogInit, Noted, Logged, Pending
<1>8. StatusSound /\ \A t \in Threads : ThreadSound(t)
  BY <1>7 DEF Conv!Init, StatusSound, ThreadSound, NotBegun, Conv!Kinds
<1>9. QED
  BY <1>3, <1>5, <1>6, <1>8 DEF ConvInv

LEMMA NextConv ==
    ASSUME ConvAssumed, ConvInv, [Conv!Next]_(Conv!vars)
    PROVE  ConvInv'
<1>1. CASE UNCHANGED Conv!vars
  <2> USE <1>1 DEF Conv!vars, Conv!logVars
  <2>1. Conv!TypeOK'
    BY DEF ConvInv, Conv!TypeOK, Conv!LogTypeOK
  <2>2. LogSound' /\ StepsSound' /\ StopSound'
    BY DEF ConvInv, LogSound, Conv!Holding, Writing, StepsSound, StopSound
  <2>3. \A x \in Conv!Kinds : Noted(x)' <=> Noted(x)
    BY DEF Noted, Logged, Pending
  <2>4. StatusSound' /\ \A t \in Threads : ThreadSound(t)'
    BY <2>3 DEF ConvInv, StatusSound, ThreadSound, AfterStop, Conv!Kinds
  <2>5. QED
    BY <2>1, <2>2, <2>4 DEF ConvInv
<1>2. CASE Conv!Crash
  BY <1>2, CrashKept
<1>3. ASSUME NEW t \in Threads, Conv!Call(t) \/ Conv!Work(t)
      PROVE  ConvInv'
  BY <1>3, ThreadTypesKept, StatusKept DEF ConvInv
<1>4. QED
  BY <1>1, <1>2, <1>3 DEF Conv!Next

LEMMA ConvInvImplies ==
    ASSUME ConvInv
    PROVE  Conv!LagIsBounded /\ Conv!StopIsHeeded /\ Conv!StatusIsExplained
<1>1. Conv!LagIsBounded
  BY DEF Writing, ConvInv, LogSound, Conv!LagIsBounded, Conv!TypeOK, Conv!LogTypeOK
<1>2. Conv!StopIsHeeded
  BY DEF ConvInv, StopSound, Conv!StopIsHeeded
<1>3. Conv!StatusIsExplained
  <2> DEFINE logged == {lines[i] : i \in since + 1..Len(lines)}
  <2> SUFFICES ASSUME \A t \in Threads : Conv!At(t, "idle")
               PROVE  IF conversationStatus = "IDLE" THEN "started" \notin logged
                      ELSE logged \intersect Conv!Accounts[conversationStatus] # {}
    BY DEF Conv!StatusIsExplained
  <2>1. \A x : Noted(x) <=> x \in logged
    BY DEF Conv!At, Noted, Logged, Pending
  <2> HIDE DEF logged
  <2>2. QED
    BY <2>1 DEF ConvInv, StatusSound, AfterStop, RunningAt, Conv!At, Conv!Accounts, Conv!TypeOK,
       Conv!Statuses, Conv!Transitions
<1>4. QED
  BY <1>1, <1>2, <1>3

-----------------------------------------------------------------------------
(* ---- The registry of sessions.                                          *)

(* What is known of a run by the place where it is. *)
RunIsKnown(r) ==
    /\ at[r] = "new" => home[r] = None /\ given[r] = None
    /\ at[r] \in {"new", "starting", "setup"} => own[r] = None /\ made[r] = None
    /\ at[r] = "opening" => own[r] = None /\ made[r] # None
    /\ at[r] \in {"working", "closing"} => own[r] # None
    /\ at[r] \in {"new", "starting", "setup", "opening", "working"} => how[r] = None
    /\ at[r] = "closing" => how[r] \in Reg!Closed
    /\ home[r] = "server" => given[r] # None
    /\ home[r] = "shell" /\ at[r] = "starting" => given[r] = None
    /\ at[r] \in {"leaving", "over"} =>
          how[r] = "cut" \/ (own[r] # None /\ row[own[r]] \in Reg!Closed)

RegistryTyped ==
    /\ row \in [Ids -> Reg!Closed \union {"running", None}]
    /\ at \in [Runs -> Reg!Live \union {"new", "over", "dead"}]
    /\ home \in [Runs -> Homes \union {None}]
    /\ given \in [Runs -> Ids \union {None}]
    /\ made \in [Runs -> Ids \union {None}] /\ own \in [Runs -> Ids \union {None}]
    /\ how \in [Runs -> Reg!Closed \union {"cut", None}]
    /\ tasks \in [Ids -> Runs \union {None}]
    /\ boots \in Nat

(* The first half of RegistryIsExplained, and the second: the run that       *)
(* explains a closed row is past its close, so that nothing cuts it short.  *)
RunningExplained ==
    \A s \in Ids : row[s] = "running" =>
        \E r \in Runs : Reg!Session(r) = s /\ (Reg!Alive(r) \/ at[r] = "dead" \/ how[r] = "cut")

ClosedExplained ==
    \A s \in Ids : row[s] \in Reg!Closed =>
        \/ \E r \in Runs : own[r] = s /\ how[r] = row[s] /\ at[r] \in {"leaving", "over", "dead"}
        \/ row[s] = "interrupted" /\ boots > 0

(* The map names live tasks, and the only one of a session is there. *)
TasksAreLive ==
    \A s \in Ids : tasks[s] # None => Reg!OfServer(tasks[s]) /\ given[tasks[s]] = s

LoneTaskIsThere ==
    \A r \in Runs :
        Reg!OfServer(r) /\ (\A q \in Runs \ {r} : given[q] = given[r] => home[q] # "server")
        => tasks[given[r]] = r

RegInv ==
    /\ RegistryTyped
    /\ \A r \in Runs : RunIsKnown(r)
    /\ RunningExplained /\ ClosedExplained /\ TasksAreLive /\ LoneTaskIsThere

LEMMA InitReg ==
    ASSUME Reg!SessionsAssumption, Reg!Init
    PROVE  RegInv
<1>1. RegistryTyped /\ \A r \in Runs : RunIsKnown(r)
  BY DEF Reg!Init, RegistryTyped, RunIsKnown, Reg!SessionsAssumption, Reg!AllHomes
<1>2. RunningExplained /\ ClosedExplained /\ TasksAreLive
  BY DEF Reg!Init, RunningExplained, ClosedExplained, TasksAreLive, Reg!SessionsAssumption
<1>3. LoneTaskIsThere
  BY DEF Reg!Init, LoneTaskIsThere, Reg!OfServer, Reg!Alive, Reg!Live
<1>4. QED
  BY <1>1, <1>2, <1>3 DEF RegInv

LEMMA PostRunReg ==
    ASSUME Reg!SessionsAssumption, RegInv, NEW r \in Runs, NEW s \in Ids, Reg!PostRun(r, s)
    PROVE  RegInv'
<1> USE DEF RegInv, Reg!SessionsAssumption, Reg!PostRun, Reg!Starts, Reg!Asked, Reg!Goto
<1>1. RegistryTyped'
  BY DEF RegistryTyped, Reg!Live
<1>2. \A q \in Runs : RunIsKnown(q)'
  BY DEF RegistryTyped, RunIsKnown
<1>3. RunningExplained'
  BY DEF RegistryTyped, RunIsKnown, RunningExplained, Reg!Session, Reg!Alive, Reg!Live
<1>4. ClosedExplained'
  BY DEF RegistryTyped, RunIsKnown, ClosedExplained, Reg!Closed
<1>5. TasksAreLive'
  BY DEF RegistryTyped, RunIsKnown, TasksAreLive, Reg!OfServer, Reg!Alive, Reg!Live
<1>6. LoneTaskIsThere'
  BY DEF RegistryTyped, RunIsKnown, LoneTaskIsThere, Reg!OfServer, Reg!Alive, Reg!Live
<1>7. QED
  BY <1>1, <1>2, <1>3, <1>4, <1>5, <1>6 DEF RegInv

LEMMA PostDetachReg ==
    ASSUME Reg!SessionsAssumption, RegInv, NEW r \in Runs, NEW s \in Ids, Reg!PostDetach(r, s)
    PROVE  RegInv'
<1> USE DEF RegInv, Reg!SessionsAssumption, Reg!PostDetach, Reg!Starts, Reg!Asked, Reg!Goto
<1>1. RegistryTyped'
  BY DEF RegistryTyped, Reg!Live, Reg!Closed, Reg!OfServer
<1>2. \A q \in Runs : RunIsKnown(q)'
  BY DEF RegistryTyped, RunIsKnown, Reg!Closed, Reg!OfServer, Reg!Alive, Reg!Live
<1>3. RunningExplained'
  BY DEF RegistryTyped, RunIsKnown, RunningExplained, Reg!Session, Reg!Alive, Reg!Live,
     Reg!OfServer, Reg!Closed
<1>4. ClosedExplained'
  BY DEF RegistryTyped, RunIsKnown, ClosedExplained, Reg!Closed, Reg!OfServer
<1>5. TasksAreLive'
  BY DEF RegistryTyped, RunIsKnown, TasksAreLive, Reg!OfServer, Reg!Alive, Reg!Live
<1>6. LoneTaskIsThere'
  BY DEF RegistryTyped, RunIsKnown, LoneTaskIsThere, Reg!OfServer, Reg!Alive, Reg!Live
<1>7. QED
  BY <1>1, <1>2, <1>3, <1>4, <1>5, <1>6 DEF RegInv

LEMMA DetachReg ==
    ASSUME Reg!SessionsAssumption, RegInv, NEW r \in Runs, Reg!Detach(r)
    PROVE  RegInv'
<1> USE DEF RegInv, Reg!SessionsAssumption, Reg!Detach, Reg!Starts, Reg!Goto
<1>1. RegistryTyped'
  BY DEF RegistryTyped, Reg!Live, Reg!Closed, Reg!OfServer
<1>2. \A q \in Runs : RunIsKnown(q)'
  BY DEF RegistryTyped, RunIsKnown, Reg!Closed, Reg!OfServer, Reg!Alive, Reg!Live
<1>3. RunningExplained'
  BY DEF RegistryTyped, RunIsKnown, RunningExplained, Reg!Session, Reg!Alive, Reg!Live,
     Reg!OfServer, Reg!Closed
<1>4. ClosedExplained'
  BY DEF RegistryTyped, RunIsKnown, ClosedExplained, Reg!Closed, Reg!OfServer
<1>5. TasksAreLive'
  BY DEF RegistryTyped, RunIsKnown, TasksAreLive, Reg!OfServer, Reg!Alive, Reg!Live
<1>6. LoneTaskIsThere'
  BY DEF RegistryTyped, RunIsKnown, LoneTaskIsThere, Reg!OfServer, Reg!Alive, Reg!Live
<1>7. QED
  BY <1>1, <1>2, <1>3, <1>4, <1>5, <1>6 DEF RegInv

LEMMA OneShotReg ==
    ASSUME Reg!SessionsAssumption, RegInv, NEW r \in Runs, Reg!OneShot(r)
    PROVE  RegInv'
<1> USE DEF RegInv, Reg!SessionsAssumption, Reg!OneShot, Reg!Starts, Reg!Goto
<1>1. RegistryTyped'
  BY DEF RegistryTyped, Reg!Live, Reg!Closed, Reg!OfServer
<1>2. \A q \in Runs : RunIsKnown(q)'
  BY DEF RegistryTyped, RunIsKnown, Reg!Closed, Reg!OfServer, Reg!Alive, Reg!Live
<1>3. RunningExplained'
  BY DEF RegistryTyped, RunIsKnown, RunningExplained, Reg!Session, Reg!Alive, Reg!Live,
     Reg!OfServer, Reg!Closed
<1>4. ClosedExplained'
  BY DEF RegistryTyped, RunIsKnown, ClosedExplained, Reg!Closed, Reg!OfServer
<1>5. TasksAreLive'
  BY DEF RegistryTyped, RunIsKnown, TasksAreLive, Reg!OfServer, Reg!Alive, Reg!Live
<1>6. LoneTaskIsThere'
  BY DEF RegistryTyped, RunIsKnown, LoneTaskIsThere, Reg!OfServer, Reg!Alive, Reg!Live
<1>7. QED
  BY <1>1, <1>2, <1>3, <1>4, <1>5, <1>6 DEF RegInv

LEMMA LookUpReg ==
    ASSUME Reg!SessionsAssumption, RegInv, NEW r \in Runs, Reg!LookUp(r)
    PROVE  RegInv'
<1> USE DEF RegInv, Reg!SessionsAssumption, Reg!LookUp, Reg!Goto
<1>1. RegistryTyped'
  BY DEF RegistryTyped, Reg!Live, Reg!Closed, Reg!OfServer
<1>2. \A q \in Runs : RunIsKnown(q)'
  BY DEF RegistryTyped, RunIsKnown, Reg!Closed, Reg!OfServer, Reg!Alive, Reg!Live
<1>3. RunningExplained'
  BY DEF RegistryTyped, RunIsKnown, RunningExplained, Reg!Session, Reg!Alive, Reg!Live,
     Reg!OfServer, Reg!Closed
<1>4. ClosedExplained'
  BY DEF RegistryTyped, RunIsKnown, ClosedExplained, Reg!Closed, Reg!OfServer
<1>5. TasksAreLive'
  BY DEF RegistryTyped, RunIsKnown, TasksAreLive, Reg!OfServer, Reg!Alive, Reg!Live
<1>6. LoneTaskIsThere'
  BY DEF RegistryTyped, RunIsKnown, LoneTaskIsThere, Reg!OfServer, Reg!Alive, Reg!Live
<1>7. QED
  BY <1>1, <1>2, <1>3, <1>4, <1>5, <1>6 DEF RegInv

LEMMA BeginReg ==
    ASSUME Reg!SessionsAssumption, RegInv, NEW r \in Runs, Reg!Begin(r)
    PROVE  RegInv'
<1> USE DEF RegInv, Reg!SessionsAssumption, Reg!Begin, Reg!Goto, Reg!runFree
<1>1. RegistryTyped'
  BY DEF RegistryTyped, Reg!Live, Reg!Closed, Reg!OfServer
<1>2. \A q \in Runs : RunIsKnown(q)'
  BY DEF RegistryTyped, RunIsKnown, Reg!Closed, Reg!OfServer, Reg!Alive, Reg!Live
<1>3. RunningExplained'
  BY DEF RegistryTyped, RunIsKnown, RunningExplained, Reg!Session, Reg!Alive, Reg!Live,
     Reg!OfServer, Reg!Closed
<1>4. ClosedExplained'
  BY DEF RegistryTyped, RunIsKnown, ClosedExplained, Reg!Closed, Reg!OfServer
<1>5. TasksAreLive'
  BY DEF RegistryTyped, RunIsKnown, TasksAreLive, Reg!OfServer, Reg!Alive, Reg!Live
<1>6. LoneTaskIsThere'
  BY DEF RegistryTyped, RunIsKnown, LoneTaskIsThere, Reg!OfServer, Reg!Alive, Reg!Live
<1>7. QED
  BY <1>1, <1>2, <1>3, <1>4, <1>5, <1>6 DEF RegInv

LEMMA CreateReg ==
    ASSUME Reg!SessionsAssumption, RegInv, NEW r \in Runs, Reg!Create(r)
    PROVE  RegInv'
<1> USE DEF RegInv, Reg!SessionsAssumption, Reg!Create, Reg!Goto, Reg!runFree
<1>1. RegistryTyped'
  BY DEF RegistryTyped, Reg!Live, Reg!Closed, Reg!OfServer
<1>2. \A q \in Runs : RunIsKnown(q)'
  BY DEF RegistryTyped, RunIsKnown, Reg!Closed, Reg!OfServer, Reg!Alive, Reg!Live
<1>3. RunningExplained'
  BY DEF RegistryTyped, RunIsKnown, RunningExplained, Reg!Session, Reg!Alive, Reg!Live,
     Reg!OfServer, Reg!Closed
<1>4. ClosedExplained'
  BY DEF RegistryTyped, RunIsKnown, ClosedExplained, Reg!Closed, Reg!OfServer
<1>5. TasksAreLive'
  BY DEF RegistryTyped, RunIsKnown, TasksAreLive, Reg!OfServer, Reg!Alive, Reg!Live
<1>6. LoneTaskIsThere'
  BY DEF RegistryTyped, RunIsKnown, LoneTaskIsThere, Reg!OfServer, Reg!Alive, Reg!Live
<1>7. QED
  BY <1>1, <1>2, <1>3, <1>4, <1>5, <1>6 DEF RegInv

LEMMA KnowReg ==
    ASSUME Reg!SessionsAssumption, RegInv, NEW r \in Runs, Reg!Know(r)
    PROVE  RegInv'
<1> USE DEF RegInv, Reg!SessionsAssumption, Reg!Know, Reg!Goto, Reg!runFree
<1>1. RegistryTyped'
  BY DEF RegistryTyped, Reg!Live, Reg!Closed, Reg!OfServer
<1>2. \A q \in Runs : RunIsKnown(q)'
  BY DEF RegistryTyped, RunIsKnown, Reg!Closed, Reg!OfServer, Reg!Alive, Reg!Live
<1>3. RunningExplained'
  BY DEF RegistryTyped, RunIsKnown, RunningExplained, Reg!Session, Reg!Alive, Reg!Live,
     Reg!OfServer, Reg!Closed
<1>4. ClosedExplained'
  BY DEF RegistryTyped, RunIsKnown, ClosedExplained, Reg!Closed, Reg!OfServer
<1>5. TasksAreLive'
  BY DEF RegistryTyped, RunIsKnown, TasksAreLive, Reg!OfServer, Reg!Alive, Reg!Live
<1>6. LoneTaskIsThere'
  BY DEF RegistryTyped, RunIsKnown, LoneTaskIsThere, Reg!OfServer, Reg!Alive, Reg!Live
<1>7. QED
  BY <1>1, <1>2, <1>3, <1>4, <1>5, <1>6 DEF RegInv

LEMMA EndReg ==
    ASSUME Reg!SessionsAssumption, RegInv, NEW r \in Runs, Reg!End(r)
    PROVE  RegInv'
<1> USE DEF RegInv, Reg!SessionsAssumption, Reg!End, Reg!Goto, Reg!runFree
<1>1. RegistryTyped'
  BY DEF RegistryTyped, Reg!Live, Reg!Closed, Reg!OfServer
<1>2. \A q \in Runs : RunIsKnown(q)'
  BY DEF RegistryTyped, RunIsKnown, Reg!Closed, Reg!OfServer, Reg!Alive, Reg!Live
<1>3. RunningExplained'
  BY DEF RegistryTyped, RunIsKnown, RunningExplained, Reg!Session, Reg!Alive, Reg!Live,
     Reg!OfServer, Reg!Closed
<1>4. ClosedExplained'
  BY DEF RegistryTyped, RunIsKnown, ClosedExplained, Reg!Closed, Reg!OfServer
<1>5. TasksAreLive'
  BY DEF RegistryTyped, RunIsKnown, TasksAreLive, Reg!OfServer, Reg!Alive, Reg!Live
<1>6. LoneTaskIsThere'
  BY DEF RegistryTyped, RunIsKnown, LoneTaskIsThere, Reg!OfServer, Reg!Alive, Reg!Live
<1>7. QED
  BY <1>1, <1>2, <1>3, <1>4, <1>5, <1>6 DEF RegInv

LEMMA CloseReg ==
    ASSUME Reg!SessionsAssumption, RegInv, NEW r \in Runs, Reg!Close(r)
    PROVE  RegInv'
<1> USE DEF RegInv, Reg!SessionsAssumption, Reg!Close, Reg!Goto, Reg!runFree
<1>1. RegistryTyped'
  <2>1. at[r] = "closing" /\ how[r] \in Reg!Closed
    BY DEF RunIsKnown
  <2>2. row' \in [Ids -> Reg!Closed \union {"running", None}]
    BY <2>1 DEF RegistryTyped
  <2>3. at' \in [Runs -> Reg!Live \union {"new", "over", "dead"}]
    BY DEF RegistryTyped, Reg!Live
  <2>4. QED
    BY <2>2, <2>3 DEF RegistryTyped
<1>2. \A q \in Runs : RunIsKnown(q)'
  BY DEF RegistryTyped, RunIsKnown, Reg!Closed, Reg!OfServer, Reg!Alive, Reg!Live
<1>3. RunningExplained'
  BY DEF RegistryTyped, RunIsKnown, RunningExplained, Reg!Session, Reg!Alive, Reg!Live,
     Reg!OfServer, Reg!Closed
<1>4. ClosedExplained'
  BY DEF RegistryTyped, RunIsKnown, ClosedExplained, Reg!Closed, Reg!OfServer
<1>5. TasksAreLive'
  BY DEF RegistryTyped, RunIsKnown, TasksAreLive, Reg!OfServer, Reg!Alive, Reg!Live
<1>6. LoneTaskIsThere'
  BY DEF RegistryTyped, RunIsKnown, LoneTaskIsThere, Reg!OfServer, Reg!Alive, Reg!Live
<1>7. QED
  BY <1>1, <1>2, <1>3, <1>4, <1>5, <1>6 DEF RegInv

LEMMA LeaveReg ==
    ASSUME Reg!SessionsAssumption, RegInv, NEW r \in Runs, Reg!Leave(r)
    PROVE  RegInv'
<1> USE DEF RegInv, Reg!SessionsAssumption, Reg!Leave, Reg!Goto
<1>1. RegistryTyped'
  BY DEF RegistryTyped, Reg!Live, Reg!Closed, Reg!OfServer
<1>2. \A q \in Runs : RunIsKnown(q)'
  BY DEF RegistryTyped, RunIsKnown, Reg!Closed, Reg!OfServer, Reg!Alive, Reg!Live
<1>3. RunningExplained'
  BY DEF RegistryTyped, RunIsKnown, RunningExplained, Reg!Session, Reg!Alive, Reg!Live,
     Reg!OfServer, Reg!Closed
<1>4. ClosedExplained'
  BY DEF RegistryTyped, RunIsKnown, ClosedExplained, Reg!Closed, Reg!OfServer
<1>5. TasksAreLive'
  BY DEF RegistryTyped, RunIsKnown, TasksAreLive, Reg!OfServer, Reg!Alive, Reg!Live
<1>6. LoneTaskIsThere'
  BY DEF RegistryTyped, RunIsKnown, LoneTaskIsThere, Reg!OfServer, Reg!Alive, Reg!Live
<1>7. QED
  BY <1>1, <1>2, <1>3, <1>4, <1>5, <1>6 DEF RegInv

LEMMA CancelReg ==
    ASSUME Reg!SessionsAssumption, RegInv, NEW r \in Runs, Reg!Cancel(r),
    UNCHANGED <<Reg!runFree, row, order, made, own>>
    PROVE  RegInv'
<1> USE DEF RegInv, Reg!SessionsAssumption, Reg!Cancel, Reg!Cancellable, Reg!Unwound, Reg!Outcomes, Reg!Goto, Reg!runFree
<1>1. RegistryTyped'
  BY DEF RegistryTyped, Reg!Live, Reg!Closed, Reg!OfServer
<1>2. \A q \in Runs : RunIsKnown(q)'
  BY DEF RegistryTyped, RunIsKnown, Reg!Closed, Reg!OfServer, Reg!Alive, Reg!Live
<1>3. RunningExplained'
  BY DEF RegistryTyped, RunIsKnown, RunningExplained, Reg!Session, Reg!Alive, Reg!Live,
     Reg!OfServer, Reg!Closed
<1>4. ClosedExplained'
  BY DEF RegistryTyped, RunIsKnown, ClosedExplained, Reg!Closed, Reg!OfServer
<1>5. TasksAreLive'
  BY DEF RegistryTyped, RunIsKnown, TasksAreLive, Reg!OfServer, Reg!Alive, Reg!Live
<1>6. LoneTaskIsThere'
  BY DEF RegistryTyped, RunIsKnown, LoneTaskIsThere, Reg!OfServer, Reg!Alive, Reg!Live
<1>7. QED
  BY <1>1, <1>2, <1>3, <1>4, <1>5, <1>6 DEF RegInv

LEMMA KillReg ==
    ASSUME Reg!SessionsAssumption, RegInv, NEW r \in Runs, Reg!Kill(r)
    PROVE  RegInv'
<1> USE DEF RegInv, Reg!SessionsAssumption, Reg!Kill, Reg!Goto
<1>1. RegistryTyped'
  BY DEF RegistryTyped, Reg!Live, Reg!Closed, Reg!OfServer
<1>2. \A q \in Runs : RunIsKnown(q)'
  BY DEF RegistryTyped, RunIsKnown, Reg!Closed, Reg!OfServer, Reg!Alive, Reg!Live
<1>3. RunningExplained'
  BY DEF RegistryTyped, RunIsKnown, RunningExplained, Reg!Session, Reg!Alive, Reg!Live,
     Reg!OfServer, Reg!Closed
<1>4. ClosedExplained'
  BY DEF RegistryTyped, RunIsKnown, ClosedExplained, Reg!Closed, Reg!OfServer
<1>5. TasksAreLive'
  BY DEF RegistryTyped, RunIsKnown, TasksAreLive, Reg!OfServer, Reg!Alive, Reg!Live
<1>6. LoneTaskIsThere'
  BY DEF RegistryTyped, RunIsKnown, LoneTaskIsThere, Reg!OfServer, Reg!Alive, Reg!Live
<1>7. QED
  BY <1>1, <1>2, <1>3, <1>4, <1>5, <1>6 DEF RegInv

LEMMA CrashReg ==
    ASSUME Reg!SessionsAssumption, RegInv, Reg!Crash
    PROVE  RegInv'
<1> USE DEF RegInv, Reg!SessionsAssumption, Reg!Crash
<1>1. RegistryTyped'
  BY DEF RegistryTyped, Reg!Live, Reg!Closed, Reg!OfServer
<1>2. \A q \in Runs : RunIsKnown(q)'
  BY DEF RegistryTyped, RunIsKnown, Reg!Closed, Reg!OfServer, Reg!Alive, Reg!Live
<1>3. RunningExplained'
  BY DEF RegistryTyped, RunIsKnown, RunningExplained, Reg!Session, Reg!Alive, Reg!Live,
     Reg!OfServer, Reg!Closed
<1>4. ClosedExplained'
  BY DEF RegistryTyped, RunIsKnown, ClosedExplained, Reg!Closed, Reg!OfServer
<1>5. TasksAreLive'
  BY DEF RegistryTyped, RunIsKnown, TasksAreLive, Reg!OfServer, Reg!Alive, Reg!Live
<1>6. LoneTaskIsThere'
  BY DEF RegistryTyped, RunIsKnown, LoneTaskIsThere, Reg!OfServer, Reg!Alive, Reg!Live
<1>7. QED
  BY <1>1, <1>2, <1>3, <1>4, <1>5, <1>6 DEF RegInv

LEMMA StopReg ==
    ASSUME Reg!SessionsAssumption, RegInv, Reg!Stop
    PROVE  RegInv'
<1> USE DEF RegInv, Reg!SessionsAssumption, Reg!Stop, Reg!Cancellable, Reg!Unwound, Reg!Outcomes
<1>1. RegistryTyped'
  BY DEF RegistryTyped, Reg!Live, Reg!Closed, Reg!OfServer
<1>2. \A q \in Runs : RunIsKnown(q)'
  BY DEF RegistryTyped, RunIsKnown, Reg!Closed, Reg!OfServer, Reg!Alive, Reg!Live
<1>3. RunningExplained'
  BY DEF RegistryTyped, RunIsKnown, RunningExplained, Reg!Session, Reg!Alive, Reg!Live,
     Reg!OfServer, Reg!Closed
<1>4. ClosedExplained'
  BY DEF RegistryTyped, RunIsKnown, ClosedExplained, Reg!Closed, Reg!OfServer
<1>5. TasksAreLive'
  BY DEF RegistryTyped, RunIsKnown, TasksAreLive, Reg!OfServer, Reg!Alive, Reg!Live
<1>6. LoneTaskIsThere'
  BY DEF RegistryTyped, RunIsKnown, LoneTaskIsThere, Reg!OfServer, Reg!Alive, Reg!Live
<1>7. QED
  BY <1>1, <1>2, <1>3, <1>4, <1>5, <1>6 DEF RegInv

LEMMA DownReg ==
    ASSUME Reg!SessionsAssumption, RegInv, Reg!Down
    PROVE  RegInv'
<1> USE DEF RegInv, Reg!SessionsAssumption, Reg!Down
<1>1. RegistryTyped'
  BY DEF RegistryTyped, Reg!Live, Reg!Closed, Reg!OfServer
<1>2. \A q \in Runs : RunIsKnown(q)'
  BY DEF RegistryTyped, RunIsKnown, Reg!Closed, Reg!OfServer, Reg!Alive, Reg!Live
<1>3. RunningExplained'
  BY DEF RegistryTyped, RunIsKnown, RunningExplained, Reg!Session, Reg!Alive, Reg!Live,
     Reg!OfServer, Reg!Closed
<1>4. ClosedExplained'
  BY DEF RegistryTyped, RunIsKnown, ClosedExplained, TasksAreLive, Reg!Closed
<1>5. TasksAreLive'
  BY DEF RegistryTyped, RunIsKnown, TasksAreLive, Reg!OfServer, Reg!Alive, Reg!Live
<1>6. LoneTaskIsThere'
  BY DEF RegistryTyped, RunIsKnown, LoneTaskIsThere, Reg!OfServer, Reg!Alive, Reg!Live
<1>7. QED
  BY <1>1, <1>2, <1>3, <1>4, <1>5, <1>6 DEF RegInv

LEMMA BootReg ==
    ASSUME Reg!SessionsAssumption, RegInv, Reg!Boot
    PROVE  RegInv'
<1> USE DEF RegInv, Reg!SessionsAssumption, Reg!Boot
<1>1. RegistryTyped'
  BY DEF RegistryTyped, Reg!Live, Reg!Closed, Reg!OfServer
<1>2. \A q \in Runs : RunIsKnown(q)'
  BY DEF RegistryTyped, RunIsKnown, Reg!Closed, Reg!OfServer, Reg!Alive, Reg!Live
<1>3. RunningExplained'
  BY DEF RegistryTyped, RunIsKnown, RunningExplained, Reg!Session, Reg!Alive, Reg!Live,
     Reg!OfServer, Reg!Closed
<1>4. ClosedExplained'
  BY DEF RegistryTyped, RunIsKnown, ClosedExplained, Reg!Closed, Reg!OfServer
<1>5. TasksAreLive'
  BY DEF RegistryTyped, RunIsKnown, TasksAreLive, Reg!OfServer, Reg!Alive, Reg!Live
<1>6. LoneTaskIsThere'
  BY DEF RegistryTyped, RunIsKnown, LoneTaskIsThere, Reg!OfServer, Reg!Alive, Reg!Live
<1>7. QED
  BY <1>1, <1>2, <1>3, <1>4, <1>5, <1>6 DEF RegInv

LEMMA NextReg ==
    ASSUME Reg!SessionsAssumption, RegInv, [Reg!Next]_(Reg!vars)
    PROVE  RegInv'
<1>1. CASE UNCHANGED Reg!vars
  BY <1>1 DEF Reg!vars, RegInv, RegistryTyped, RunIsKnown, RunningExplained, ClosedExplained,
     TasksAreLive, LoneTaskIsThere, Reg!Session, Reg!Alive, Reg!OfServer
<1>2. ASSUME NEW s \in Ids, Reg!PostCancel(s)
      PROVE  RegInv'
  <2>1. tasks[s] \in Runs
    BY <1>2 DEF RegInv, RegistryTyped, Reg!PostCancel
  <2>2. QED
    BY <1>2, <2>1, CancelReg DEF Reg!PostCancel
<1>3. ASSUME NEW r \in Runs, Reg!Terminate(r)
      PROVE  RegInv'
  BY <1>3, CancelReg DEF Reg!Terminate
<1>4. CASE Reg!Next
  BY <1>2, <1>3, <1>4, PostRunReg, PostDetachReg, DetachReg, OneShotReg, LookUpReg, BeginReg,
     CreateReg, KnowReg, EndReg, CloseReg, LeaveReg, KillReg, CrashReg, StopReg, DownReg, BootReg
  DEF Reg!Next
<1>5. QED
  BY <1>1, <1>4

LEMMA RegInvImplies == RegInv => RegistryIsExplained
BY DEF RegInv, RunningExplained, ClosedExplained, TasksAreLive, LoneTaskIsThere,
   RegistryIsExplained, Reg!RowIsExplained, Reg!CancelFindsIt

-----------------------------------------------------------------------------
CallIds == Nat \X Nat

Msgs ==
    {m \in [kind : Hist!Kinds, ids : Seq(CallIds), size : Nat] : Hist!IsTool(m) => Len(m.ids) = 1}

-----------------------------------------------------------------------------
(* Induction up to a number, and functions by recursion up to it.          *)

LEMMA UpTo ==
    ASSUME NEW n \in Nat, NEW S, 0 \in S, \A i \in 0..n - 1 : i \in S => i + 1 \in S
    PROVE  0..n \subseteq S
<1> DEFINE B == (0..n) \ S
<1> SUFFICES ASSUME B # {} PROVE FALSE
  OBVIOUS
<1>1. B \subseteq Nat /\ B # {}
  OBVIOUS
<1>2. PICK m \in B : \A k \in B : ~(<<k, m>> \in OpToRel(<, Nat))
  <2> HIDE DEF B
  <2>1. QED
    BY <1>1, NatLessThanWellFounded, WFMin, ZenonT(30)
<1>3. \A k \in B : ~(k < m)
  BY <1>1, <1>2 DEF OpToRel
<1>4. m # 0 /\ m \in 1..n
  OBVIOUS
<1>5. m - 1 \in S
  BY <1>3, <1>4
<1>6. m \in S
  BY <1>4, <1>5
<1>7. QED
  BY <1>6

Recursive(n, A, a, F) ==
    \E f \in [0..n -> A] : f[0] = a /\ \A i \in 1..n : f[i] = F[i][f[i - 1]]

LEMMA Recursion ==
    ASSUME NEW n \in Nat, NEW A, NEW a \in A, NEW F \in [1..n -> [A -> A]]
    PROVE  Recursive(n, A, a, F)
<1> DEFINE S == {m \in 0..n : \E f \in [0..m -> A] :
                     f[0] = a /\ \A i \in 1..m : f[i] = F[i][f[i - 1]]}
<1>1. 0 \in S
  <2>1. [i \in 0..0 |-> a] \in [0..0 -> A]
    OBVIOUS
  <2>2. [i \in 0..0 |-> a][0] = a /\ \A i \in 1..0 : FALSE
    OBVIOUS
  <2>3. \E f \in [0..0 -> A] : f[0] = a /\ \A i \in 1..0 : f[i] = F[i][f[i - 1]]
    BY <2>1, <2>2
  <2>4. QED
    BY <2>3
<1>2. ASSUME NEW m \in 0..n - 1, m \in S PROVE m + 1 \in S
  <2>1. PICK f \in [0..m -> A] : f[0] = a /\ \A i \in 1..m : f[i] = F[i][f[i - 1]]
    BY <1>2
  <2> DEFINE g == [i \in 0..m + 1 |-> IF i = m + 1 THEN F[m + 1][f[m]] ELSE f[i]]
  <2>2. F[m + 1][f[m]] \in A
    <3>1. f[m] \in A /\ m + 1 \in 1..n
      OBVIOUS
    <3>2. QED
      BY <3>1
  <2>3. g \in [0..m + 1 -> A]
    BY <2>2
  <2>4. g[0] = a /\ \A i \in 1..m + 1 : g[i] = F[i][g[i - 1]]
    BY <2>1
  <2>5. m + 1 \in 0..n
    OBVIOUS
  <2> HIDE DEF g
  <2>6. QED
    BY <2>3, <2>4, <2>5
<1>3. n \in S
  <2> HIDE DEF S
  <2>1. 0..n \subseteq S
    BY <1>1, <1>2, UpTo
  <2>2. QED
    BY <2>1
<1>4. QED
  BY <1>3 DEF Recursive

-----------------------------------------------------------------------------
(* Messages and sequences. *)

LEMMA MessageType ==
    ASSUME NEW m \in Msgs
    PROVE  /\ m.kind \in Hist!Kinds /\ m.ids \in Seq(CallIds) /\ m.size \in Nat
           /\ Len(m.ids) \in Nat
           /\ Hist!IsTool(m) => Len(m.ids) = 1 /\ m.ids[1] \in CallIds
           /\ m = [kind |-> m.kind, ids |-> m.ids, size |-> m.size]
BY DEF Msgs

LEMMA Concat ==
    ASSUME NEW A, NEW s \in Seq(A), NEW t \in Seq(A)
    PROVE  /\ s \o t \in Seq(A) /\ Len(s \o t) = Len(s) + Len(t)
           /\ \A i \in 1..Len(s) : (s \o t)[i] = s[i]
           /\ \A i \in 1..Len(t) : (s \o t)[Len(s) + i] = t[i]
OBVIOUS

LEMMA Same ==
    ASSUME NEW A, NEW s \in Seq(A), NEW t \in Seq(A), Len(s) = Len(t),
           \A i \in 1..Len(s) : s[i] = t[i]
    PROVE  s = t
OBVIOUS

-----------------------------------------------------------------------------
(* What sanitize_tool_history makes of any history.                        *)

Owner(out, j) == \E i \in 1..j - 1 : out[i].kind = "calls" /\ j - i <= Len(out[i].ids)

Within(s, x) == \E k \in 1..Len(s) : s[k] = x

Closed(out, i) ==
    /\ i + Len(out[i].ids) <= Len(out)
    /\ \A k \in i + 1..i + Len(out[i].ids) : Hist!IsTool(out[k]) /\ Within(out[i].ids, out[k].ids[1])
    /\ \A l \in 1..Len(out[i].ids) :
         \E k \in i + 1..i + Len(out[i].ids) : out[k].ids[1] = out[i].ids[l]

Whole(out) ==
    /\ \A i \in 1..Len(out) : out[i].kind = "calls" => Closed(out, i)
    /\ \A j \in 1..Len(out) : Hist!IsTool(out[j]) => Owner(out, j)

(* The calls at b wait for the answers to pending. *)
Waits(out, pending, b) ==
    /\ b \in 1..Len(out) /\ out[b].kind = "calls"
    /\ Len(out) - b + Len(pending) = Len(out[b].ids)
    /\ \A k \in b + 1..Len(out) : Hist!IsTool(out[k]) /\ Within(out[b].ids, out[k].ids[1])
    /\ \A l \in 1..Len(out[b].ids) :
         \/ Within(pending, out[b].ids[l])
         \/ \E k \in b + 1..Len(out) : out[k].ids[1] = out[b].ids[l]
    /\ \A k \in 1..Len(pending) : Within(out[b].ids, pending[k])

Passed(acc) ==
    \/ acc.pending = <<>> /\ Whole(acc.out)
    \/ /\ \A j \in 1..Len(acc.out) : Hist!IsTool(acc.out[j]) => Owner(acc.out, j)
       /\ \E b \in 1..Len(acc.out) :
            /\ Waits(acc.out, acc.pending, b)
            /\ \A i \in 1..Len(acc.out) : acc.out[i].kind = "calls" /\ i # b => Closed(acc.out, i)

Accs == [out : Seq(Msgs), pending : Seq(CallIds)]

(* What was said before stays true when a list grows. *)
Grows(out, more) == Len(out) <= Len(more) /\ \A i \in 1..Len(out) : more[i] = out[i]

LEMMA GrowsKeeps ==
    ASSUME NEW out \in Seq(Msgs), NEW more \in Seq(Msgs), Grows(out, more), NEW i \in 1..Len(out)
    PROVE  Closed(out, i) => Closed(more, i)
<1>1. Len(out[i].ids) \in Nat /\ Len(out) \in Nat /\ Len(more) \in Nat
  BY DEF Msgs
<1>2. SUFFICES ASSUME Closed(out, i) PROVE Closed(more, i)
  OBVIOUS
<1> DEFINE n == Len(out[i].ids)
<1>3. more[i] = out[i] /\ \A k \in i + 1..i + n : more[k] = out[k]
  BY <1>1, <1>2 DEF Grows, Closed
<1>4. i + n <= Len(more)
  BY <1>1, <1>2 DEF Grows, Closed
<1>5. \A k \in i + 1..i + n : Hist!IsTool(more[k]) /\ Within(more[i].ids, more[k].ids[1])
  BY <1>2, <1>3 DEF Closed
<1>6. \A l \in 1..n : \E k \in i + 1..i + n : more[k].ids[1] = more[i].ids[l]
  BY <1>2, <1>3 DEF Closed
<1>7. QED
  BY <1>3, <1>4, <1>5, <1>6 DEF Closed

LEMMA GrowsOwns ==
    ASSUME NEW out \in Seq(Msgs), NEW more \in Seq(Msgs), Grows(out, more), NEW j \in 1..Len(out),
           Owner(out, j)
    PROVE  Owner(more, j)
BY DEF Owner, Grows

LEMMA FlushOut ==
    ASSUME NEW acc \in Accs
    PROVE  /\ Hist!Flush(acc) \in Accs /\ Hist!Flush(acc).pending = <<>>
           /\ Grows(acc.out, Hist!Flush(acc).out)
           /\ Len(Hist!Flush(acc).out) = Len(acc.out) + Len(acc.pending)
           /\ \A k \in 1..Len(acc.pending) :
                Hist!Flush(acc).out[Len(acc.out) + k] = Hist!Interrupted(acc.pending[k])
<1> DEFINE s == [i \in DOMAIN acc.pending |-> Hist!Interrupted(acc.pending[i])]
<1>1. acc.out \in Seq(Msgs) /\ acc.pending \in Seq(CallIds)
  BY DEF Accs
<1>2. ASSUME NEW c \in CallIds PROVE Hist!Interrupted(c) \in Msgs
  <2>1. <<c>> \in Seq(CallIds) /\ Len(<<c>>) = 1
    OBVIOUS
  <2>2. QED
    BY <2>1 DEF Hist!Interrupted, Hist!Message, Msgs, Hist!Kinds, Hist!Tools
<1>3. s \in Seq(Msgs) /\ Len(s) = Len(acc.pending)
  <2>1. DOMAIN acc.pending = 1..Len(acc.pending) /\ Len(acc.pending) \in Nat
    BY <1>1
  <2>2. s \in [1..Len(acc.pending) -> Msgs]
    BY <1>1, <1>2, <2>1
  <2>3. QED
    BY <2>1, <2>2
<1>4. acc.out \o s \in Seq(Msgs) /\ Len(acc.out \o s) = Len(acc.out) + Len(acc.pending)
  <2> DEFINE o == acc.out
  <2>1. o \in Seq(Msgs) /\ s \in Seq(Msgs) /\ Len(s) = Len(acc.pending)
    BY <1>1, <1>3
  <2> HIDE DEF s, o
  <2>2. o \o s \in Seq(Msgs) /\ Len(o \o s) = Len(o) + Len(s)
    BY <2>1, Concat
  <2>3. QED
    BY <2>1, <2>2 DEF o
<1>5. \A k \in 1..Len(acc.pending) : (acc.out \o s)[Len(acc.out) + k] = Hist!Interrupted(acc.pending[k])
  <2>1. \A k \in 1..Len(acc.pending) : s[k] = Hist!Interrupted(acc.pending[k])
    BY <1>1
  <2> HIDE DEF s
  <2>2. \A k \in 1..Len(s) : (acc.out \o s)[Len(acc.out) + k] = s[k]
    BY <1>1, <1>3
  <2>3. QED
    BY <1>3, <2>1, <2>2
<1>6. \A k \in 1..Len(acc.out) : (acc.out \o s)[k] = acc.out[k]
  BY <1>1, <1>3
<1>7. Hist!Flush(acc) = [out |-> acc.out \o s, pending |-> <<>>]
  BY DEF Hist!Flush
<1> HIDE DEF s
<1>8. <<>> \in Seq(CallIds)
  OBVIOUS
<1>9. QED
  BY <1>1, <1>4, <1>5, <1>6, <1>7, <1>8 DEF Grows, Accs

LEMMA InterruptedIs ==
    ASSUME NEW c
    PROVE  /\ Hist!Interrupted(c).kind = "unfinished" /\ Hist!IsTool(Hist!Interrupted(c))
           /\ Hist!Interrupted(c).ids = <<c>> /\ Hist!Interrupted(c).ids[1] = c
<1>1. Hist!Interrupted(c).kind = "unfinished" /\ Hist!Interrupted(c).ids = <<c>>
  BY DEF Hist!Interrupted, Hist!Message
<1>2. <<c>>[1] = c
  OBVIOUS
<1>3. QED
  BY <1>1, <1>2 DEF Hist!IsTool, Hist!Tools

LEMMA BlockCloses ==
    ASSUME NEW out \in Seq(Msgs), NEW p \in Seq(CallIds), NEW more \in Seq(Msgs),
           Grows(out, more), Len(more) = Len(out) + Len(p),
           \A k \in 1..Len(p) : more[Len(out) + k] = Hist!Interrupted(p[k]),
           NEW b \in 1..Len(out), Waits(out, p, b),
           \A j \in 1..Len(out) : Hist!IsTool(out[j]) => Owner(out, j),
           \A i \in 1..Len(out) : out[i].kind = "calls" /\ i # b => Closed(out, i)
    PROVE  Whole(more)
<1> DEFINE n == Len(out[b].ids)
<1>1. /\ n \in Nat /\ Len(out) \in Nat /\ Len(p) \in Nat /\ Len(more) \in Nat
      /\ more[b] = out[b] /\ Len(more) = b + n
  <2>1. out[b] \in Msgs /\ n \in Nat
    BY MessageType
  <2>2. Len(out) \in Nat /\ Len(p) \in Nat /\ Len(more) \in Nat /\ more[b] = out[b]
    BY DEF Grows
  <2>3. Len(out) - b + Len(p) = n
    BY DEF Waits
  <2>4. QED
    BY <2>1, <2>2, <2>3
<1>2. \A k \in 1..Len(out) : more[k] = out[k]
  BY DEF Grows
<1>3. \A k \in 1..Len(p) :
        /\ more[Len(out) + k].kind = "unfinished" /\ Hist!IsTool(more[Len(out) + k])
        /\ more[Len(out) + k].ids[1] = p[k]
  BY InterruptedIs
<1>4. \A k \in Len(out) + 1..Len(more) :
        /\ k - Len(out) \in 1..Len(p)
        /\ more[k].kind = "unfinished" /\ Hist!IsTool(more[k]) /\ more[k].ids[1] = p[k - Len(out)]
  <2> SUFFICES ASSUME NEW k \in Len(out) + 1..Len(more)
               PROVE  /\ k - Len(out) \in 1..Len(p)
                      /\ more[k].kind = "unfinished" /\ Hist!IsTool(more[k])
                      /\ more[k].ids[1] = p[k - Len(out)]
    OBVIOUS
  <2>1. k - Len(out) \in 1..Len(p) /\ Len(out) + (k - Len(out)) = k
    BY <1>1
  <2>2. QED
    BY <1>3, <2>1
<1>5. Closed(more, b)
  <2>1. ASSUME NEW k \in b + 1..b + n
        PROVE  Hist!IsTool(more[k]) /\ Within(out[b].ids, more[k].ids[1])
    <3>1. CASE k <= Len(out)
      <4>1. k \in b + 1..Len(out) /\ k \in 1..Len(out)
        BY <1>1, <3>1
      <4>2. QED
        BY <1>2, <4>1 DEF Waits
    <3>2. CASE k > Len(out)
      <4>1. k \in Len(out) + 1..Len(more)
        BY <1>1, <3>2
      <4>2. QED
        BY <1>4, <4>1 DEF Waits
    <3>3. QED
      BY <1>1, <3>1, <3>2
  <2>2. ASSUME NEW l \in 1..n
        PROVE  \E k \in b + 1..b + n : more[k].ids[1] = out[b].ids[l]
    <3>1. CASE Within(p, out[b].ids[l])
      <4>1. PICK k \in 1..Len(p) : p[k] = out[b].ids[l]
        BY <3>1 DEF Within
      <4>2. Len(out) + k \in b + 1..b + n
        BY <1>1
      <4>3. QED
        BY <1>3, <4>1, <4>2
    <3>2. CASE \E k \in b + 1..Len(out) : out[k].ids[1] = out[b].ids[l]
      <4>1. PICK k \in b + 1..Len(out) : out[k].ids[1] = out[b].ids[l]
        BY <3>2
      <4>2. k \in b + 1..b + n /\ k \in 1..Len(out)
        BY <1>1
      <4>3. QED
        BY <1>2, <4>1, <4>2
    <3>3. QED
      BY <3>1, <3>2 DEF Waits
  <2>3. QED
    BY <1>1, <2>1, <2>2 DEF Closed
<1>6. ASSUME NEW i \in 1..Len(more), more[i].kind = "calls" PROVE Closed(more, i)
  <2>1. CASE i > Len(out)
    <3>1. i \in Len(out) + 1..Len(more)
      BY <1>1, <2>1
    <3>2. QED
      BY <1>4, <1>6, <3>1
  <2>2. CASE i <= Len(out)
    <3>1. i \in 1..Len(out) /\ out[i].kind = "calls"
      BY <1>1, <1>2, <1>6, <2>2
    <3>2. QED
      BY <1>5, <3>1, GrowsKeeps
  <2>3. QED
    BY <1>1, <2>1, <2>2
<1>7. ASSUME NEW j \in 1..Len(more), Hist!IsTool(more[j]) PROVE Owner(more, j)
  <2>1. CASE j <= Len(out)
    <3>1. j \in 1..Len(out) /\ Hist!IsTool(out[j])
      BY <1>1, <1>2, <1>7, <2>1
    <3>2. QED
      BY <3>1, GrowsOwns
  <2>2. CASE j > Len(out)
    <3>1. b \in 1..j - 1 /\ j - b <= Len(more[b].ids)
      BY <1>1, <2>2
    <3>2. more[b].kind = "calls"
      BY <1>1 DEF Waits
    <3>3. QED
      BY <3>1, <3>2 DEF Owner
  <2>3. QED
    BY <1>1, <2>1, <2>2
<1>8. QED
  BY <1>6, <1>7 DEF Whole

LEMMA FlushWhole ==
    ASSUME NEW acc \in Accs, Passed(acc)
    PROVE  Whole(Hist!Flush(acc).out)
<1>1. /\ acc.out \in Seq(Msgs) /\ acc.pending \in Seq(CallIds) /\ Hist!Flush(acc).out \in Seq(Msgs)
  BY FlushOut DEF Accs
<1>2. CASE acc.pending = <<>> /\ Whole(acc.out)
  <2>1. Len(acc.pending) = 0 /\ Len(acc.out) \in Nat
    BY <1>1, <1>2
  <2>2. Grows(acc.out, Hist!Flush(acc).out) /\ Len(Hist!Flush(acc).out) = Len(acc.out) + Len(acc.pending)
    BY FlushOut
  <2>3. Hist!Flush(acc).out = acc.out
    <3> DEFINE more == Hist!Flush(acc).out
               out == acc.out
    <3>1. Len(more) = Len(out) /\ \A i \in 1..Len(out) : more[i] = out[i]
      BY <2>1, <2>2 DEF Grows
    <3> HIDE DEF more, out
    <3>2. QED
      BY <1>1, <3>1, Same DEF more, out
  <2>4. QED
    BY <1>2, <2>3
<1>3. CASE ~(acc.pending = <<>> /\ Whole(acc.out))
  BY <1>1, <1>3, FlushOut, BlockCloses DEF Passed
<1>4. QED
  BY <1>2, <1>3

LEMMA LessIs ==
    ASSUME NEW A, NEW s \in Seq(A), NEW c, Within(s, c)
    PROVE  /\ Hist!Less(s, c) \in Seq(A) /\ Len(Hist!Less(s, c)) = Len(s) - 1 /\ Len(s) > 0
           /\ \A i \in 1..Len(Hist!Less(s, c)) : Within(s, Hist!Less(s, c)[i])
           /\ \A x : Within(s, x) => x = c \/ Within(Hist!Less(s, c), x)
<1> DEFINE k == CHOOSE i \in DOMAIN s : s[i] = c
           t == [i \in 1..Len(s) - 1 |-> IF i < k THEN s[i] ELSE s[i + 1]]
<1>1. k \in 1..Len(s) /\ s[k] = c /\ Len(s) \in Nat
  BY DEF Within
<1>2. Hist!Less(s, c) = t
  BY DEF Hist!Less
<1> HIDE DEF k
<1>3. t \in Seq(A) /\ Len(t) = Len(s) - 1 /\ Len(s) > 0
  BY <1>1
<1>4. \A i \in 1..Len(t) : t[i] = IF i < k THEN s[i] ELSE s[i + 1]
  BY <1>3
<1> HIDE DEF t
<1>5. \A i \in 1..Len(t) : Within(s, t[i])
  BY <1>1, <1>3, <1>4 DEF Within
<1>6. ASSUME NEW x, Within(s, x), x # c PROVE Within(t, x)
  <2>1. PICK i \in 1..Len(s) : s[i] = x
    BY <1>6 DEF Within
  <2>2. i # k
    BY <1>1, <1>6, <2>1
  <2>3. CASE i < k
    <3>1. i \in 1..Len(t) /\ t[i] = x
      BY <1>1, <1>3, <1>4, <2>1, <2>3
    <3>2. QED
      BY <3>1 DEF Within
  <2>4. CASE i > k
    <3>1. i - 1 \in 1..Len(t) /\ ~(i - 1 < k) /\ i - 1 + 1 = i
      BY <1>1, <1>3, <2>1, <2>4
    <3>2. t[i - 1] = x
      BY <1>4, <2>1, <3>1
    <3>3. QED
      BY <3>1, <3>2 DEF Within
  <2>5. QED
    BY <1>1, <2>1, <2>2, <2>3, <2>4
<1>7. QED
  BY <1>2, <1>3, <1>5, <1>6

LEMMA AppendGrows ==
    ASSUME NEW out \in Seq(Msgs), NEW m \in Msgs
    PROVE  /\ Append(out, m) \in Seq(Msgs) /\ Len(Append(out, m)) = Len(out) + 1
           /\ Grows(out, Append(out, m)) /\ Append(out, m)[Len(out) + 1] = m
           /\ \A i \in 1..Len(Append(out, m)) : i \in 1..Len(out) \/ i = Len(out) + 1
BY DEF Grows

LEMMA SettlePasses ==
    ASSUME NEW out \in Seq(Msgs), NEW p \in Seq(CallIds), NEW b \in 1..Len(out), Waits(out, p, b),
           \A j \in 1..Len(out) : Hist!IsTool(out[j]) => Owner(out, j),
           \A i \in 1..Len(out) : out[i].kind = "calls" /\ i # b => Closed(out, i),
           NEW m \in Msgs, Hist!IsTool(m), Within(p, m.ids[1])
    PROVE  LET more == Append(out, m) IN
           /\ Waits(more, Hist!Less(p, m.ids[1]), b)
           /\ \A j \in 1..Len(more) : Hist!IsTool(more[j]) => Owner(more, j)
           /\ \A i \in 1..Len(more) : more[i].kind = "calls" /\ i # b => Closed(more, i)
<1> DEFINE more == Append(out, m)
           c == m.ids[1]
           q == Hist!Less(p, c)
           n == Len(out[b].ids)
<1>1. /\ more \in Seq(Msgs) /\ Len(more) = Len(out) + 1 /\ more[Len(out) + 1] = m
      /\ \A i \in 1..Len(out) : more[i] = out[i]
      /\ \A i \in 1..Len(more) : i \in 1..Len(out) \/ i = Len(out) + 1
      /\ Grows(out, more) /\ Len(out) \in Nat
  BY AppendGrows DEF Grows
<1>2. /\ q \in Seq(CallIds) /\ Len(q) = Len(p) - 1 /\ Len(p) > 0 /\ Len(p) \in Nat
      /\ \A i \in 1..Len(q) : Within(p, q[i])
      /\ \A x : Within(p, x) => x = c \/ Within(q, x)
  <2>1. Within(p, c)
    OBVIOUS
  <2>2. QED
    BY <2>1, LessIs
<1>3. m.kind # "calls"
  BY DEF Hist!IsTool, Hist!Tools
<1>4. n \in Nat /\ Len(out) - b + Len(p) = n /\ out[b] \in Msgs
  BY MessageType DEF Waits
<1> HIDE DEF more, q
<1>5. \A k \in 1..Len(p) : Within(out[b].ids, p[k])
  BY DEF Waits
<1>6. \A x : Within(p, x) => Within(out[b].ids, x)
  BY <1>5 DEF Within
<1>7. more[b] = out[b] /\ b \in 1..Len(more)
  BY <1>1
<1>8. Waits(more, q, b)
  <2>1. more[b].kind = "calls" /\ Len(more) - b + Len(q) = Len(more[b].ids)
    BY <1>1, <1>2, <1>4, <1>7 DEF Waits
  <2>2. ASSUME NEW k \in b + 1..Len(more)
        PROVE  Hist!IsTool(more[k]) /\ Within(more[b].ids, more[k].ids[1])
    <3>1. CASE k = Len(out) + 1
      BY <1>1, <1>6, <1>7, <3>1
    <3>2. CASE k # Len(out) + 1
      <4>1. k \in b + 1..Len(out) /\ more[k] = out[k]
        BY <1>1, <3>2
      <4>2. QED
        BY <1>7, <4>1 DEF Waits
    <3>3. QED
      BY <3>1, <3>2
  <2>3. ASSUME NEW l \in 1..Len(more[b].ids)
        PROVE  \/ Within(q, more[b].ids[l])
               \/ \E k \in b + 1..Len(more) : more[k].ids[1] = more[b].ids[l]
    <3>1. CASE \E k \in b + 1..Len(out) : out[k].ids[1] = out[b].ids[l]
      <4>1. PICK k \in b + 1..Len(out) : out[k].ids[1] = out[b].ids[l]
        BY <3>1
      <4>2. k \in b + 1..Len(more) /\ more[k] = out[k]
        BY <1>1
      <4>3. QED
        BY <1>7, <4>1, <4>2
    <3>2. CASE Within(p, out[b].ids[l])
      <4>1. out[b].ids[l] = c \/ Within(q, out[b].ids[l])
        BY <1>2, <3>2
      <4>2. Len(out) + 1 \in b + 1..Len(more) /\ more[Len(out) + 1].ids[1] = c
        BY <1>1
      <4>3. QED
        BY <1>7, <4>1, <4>2
    <3>3. QED
      BY <1>7, <3>1, <3>2 DEF Waits
  <2>4. \A k \in 1..Len(q) : Within(more[b].ids, q[k])
    BY <1>2, <1>6, <1>7
  <2>5. QED
    BY <1>7, <2>1, <2>2, <2>3, <2>4 DEF Waits
<1>9. ASSUME NEW j \in 1..Len(more), Hist!IsTool(more[j]) PROVE Owner(more, j)
  <2>1. CASE j \in 1..Len(out)
    BY <1>1, <1>9, <2>1, GrowsOwns
  <2>2. CASE j = Len(out) + 1
    <3>1. b \in 1..j - 1 /\ j - b <= Len(more[b].ids) /\ more[b].kind = "calls"
      BY <1>1, <1>2, <1>4, <1>7, <2>2 DEF Waits
    <3>2. QED
      BY <3>1 DEF Owner
  <2>3. QED
    BY <1>1, <2>1, <2>2
<1>10. ASSUME NEW i \in 1..Len(more), more[i].kind = "calls", i # b PROVE Closed(more, i)
  <2>1. i \in 1..Len(out)
    BY <1>1, <1>3, <1>10
  <2>2. QED
    BY <1>1, <1>10, <2>1, GrowsKeeps
<1>11. QED
  BY <1>8, <1>9, <1>10 DEF more, q

(* A message that is no result, behind a list in order. *)
LEMMA AppendPasses ==
    ASSUME NEW out \in Seq(Msgs), Whole(out), NEW m \in Msgs, ~Hist!IsTool(m)
    PROVE  LET more == Append(out, m) IN
           /\ \A j \in 1..Len(more) : Hist!IsTool(more[j]) => Owner(more, j)
           /\ \A i \in 1..Len(more) :
                more[i].kind = "calls" /\ i # Len(out) + 1 => Closed(more, i)
           /\ m.kind = "calls" => Waits(more, m.ids, Len(out) + 1)
           /\ m.kind # "calls" => Whole(more)
<1> DEFINE more == Append(out, m)
<1>1. /\ more \in Seq(Msgs) /\ Len(more) = Len(out) + 1 /\ more[Len(out) + 1] = m
      /\ \A i \in 1..Len(out) : more[i] = out[i]
      /\ \A i \in 1..Len(more) : i \in 1..Len(out) \/ i = Len(out) + 1
      /\ Grows(out, more) /\ Len(out) \in Nat
  BY AppendGrows DEF Grows
<1> HIDE DEF more
<1>2. ASSUME NEW j \in 1..Len(more), Hist!IsTool(more[j]) PROVE Owner(more, j)
  <2>1. j \in 1..Len(out) /\ Hist!IsTool(out[j])
    BY <1>1, <1>2
  <2>2. QED
    BY <1>1, <2>1, GrowsOwns DEF Whole
<1>3. ASSUME NEW i \in 1..Len(more), more[i].kind = "calls", i # Len(out) + 1 PROVE Closed(more, i)
  <2>1. i \in 1..Len(out) /\ out[i].kind = "calls"
    BY <1>1, <1>3
  <2>2. QED
    BY <1>1, <2>1, GrowsKeeps DEF Whole
<1>4. ASSUME m.kind = "calls" PROVE Waits(more, m.ids, Len(out) + 1)
  <2>1. m.ids \in Seq(CallIds) /\ Len(m.ids) \in Nat
    BY MessageType
  <2>2. \A l \in 1..Len(m.ids) : Within(m.ids, m.ids[l])
    BY DEF Within
  <2>3. \A k \in Len(out) + 1 + 1..Len(more) : FALSE
    BY <1>1
  <2>4. QED
    BY <1>1, <1>4, <2>1, <2>2, <2>3 DEF Waits
<1>5. ASSUME m.kind # "calls" PROVE Whole(more)
  BY <1>1, <1>2, <1>3, <1>5 DEF Whole
<1>6. QED
  BY <1>2, <1>3, <1>4, <1>5 DEF more

LEMMA PassKeeps ==
    ASSUME NEW acc \in Accs, Passed(acc), NEW m \in Msgs
    PROVE  Hist!Pass(acc, m) \in Accs /\ Passed(Hist!Pass(acc, m))
<1>1. acc.out \in Seq(Msgs) /\ acc.pending \in Seq(CallIds)
  BY DEF Accs
<1>2. CASE Hist!IsTool(m)
  <2>1. m.ids[1] \in Hist!Range(acc.pending) <=> Within(acc.pending, m.ids[1])
    <3>1. DOMAIN acc.pending = 1..Len(acc.pending)
      BY <1>1
    <3>2. QED
      BY <3>1 DEF Hist!Range, Within
  <2>2. CASE ~Within(acc.pending, m.ids[1])
    BY <1>2, <2>1, <2>2 DEF Hist!Pass
  <2>3. CASE Within(acc.pending, m.ids[1])
    <3> DEFINE more == Append(acc.out, m)
               q == Hist!Less(acc.pending, m.ids[1])
    <3>1. Hist!Pass(acc, m) = [out |-> more, pending |-> q]
      BY <1>2, <2>1, <2>3 DEF Hist!Pass, Hist!Settle, Accs
    <3>2. more \in Seq(Msgs) /\ q \in Seq(CallIds) /\ acc.pending # <<>>
      BY <1>1, <2>3, AppendGrows, LessIs
    <3>3. PICK b \in 1..Len(acc.out) :
            /\ Waits(acc.out, acc.pending, b)
            /\ \A j \in 1..Len(acc.out) : Hist!IsTool(acc.out[j]) => Owner(acc.out, j)
            /\ \A i \in 1..Len(acc.out) : acc.out[i].kind = "calls" /\ i # b => Closed(acc.out, i)
      BY <3>2 DEF Passed
    <3>4. /\ Waits(more, q, b)
          /\ \A j \in 1..Len(more) : Hist!IsTool(more[j]) => Owner(more, j)
          /\ \A i \in 1..Len(more) : more[i].kind = "calls" /\ i # b => Closed(more, i)
      BY <1>1, <1>2, <2>3, <3>3, SettlePasses
    <3> HIDE DEF more, q
    <3>5. b \in 1..Len(more)
      BY <3>4 DEF Waits
    <3>6. QED
      BY <3>1, <3>2, <3>4, <3>5 DEF Accs, Passed
  <2>4. QED
    BY <2>2, <2>3
<1>3. CASE ~Hist!IsTool(m)
  <2> DEFINE out == Hist!Flush(acc).out
             more == Append(out, m)
  <2>1. Hist!Flush(acc) \in Accs /\ Hist!Flush(acc).pending = <<>> /\ Whole(out) /\ out \in Seq(Msgs)
    BY FlushOut, FlushWhole DEF Accs
  <2>2. more \in Seq(Msgs) /\ m.ids \in Seq(CallIds) /\ <<>> \in Seq(CallIds)
        /\ Len(out) + 1 \in 1..Len(more)
    BY <2>1, AppendGrows, MessageType
  <2>3. Hist!Flush(acc) = [out |-> out, pending |-> <<>>]
    BY <2>1 DEF Accs
  <2>4. /\ \A j \in 1..Len(more) : Hist!IsTool(more[j]) => Owner(more, j)
        /\ \A i \in 1..Len(more) :
             more[i].kind = "calls" /\ i # Len(out) + 1 => Closed(more, i)
        /\ m.kind = "calls" => Waits(more, m.ids, Len(out) + 1)
        /\ m.kind # "calls" => Whole(more)
    BY <1>3, <2>1, AppendPasses
  <2>5. Hist!Pass(acc, m) = [out |-> more, pending |-> IF m.kind = "calls" THEN m.ids ELSE <<>>]
    <3>1. Hist!Copy(Hist!Flush(acc), m) = [out |-> more, pending |-> <<>>]
      BY <2>3 DEF Hist!Copy
    <3>2. Hist!Pass(acc, m) = IF m.kind = "calls" THEN [Hist!Copy(Hist!Flush(acc), m) EXCEPT !.pending = m.ids]
                         ELSE Hist!Copy(Hist!Flush(acc), m)
      BY <1>3 DEF Hist!Pass
    <3> HIDE DEF more
    <3>3. QED
      BY <3>1, <3>2
  <2> HIDE DEF out, more
  <2>6. QED
    BY <2>2, <2>4, <2>5 DEF Accs, Passed
<1>4. QED
  BY <1>2, <1>3

(* The pass over a history, one message after the other. *)
Passes(h, f) ==
    f = [i \in 0..Len(h) |-> IF i = 0 THEN [out |-> <<>>, pending |-> <<>>] ELSE Hist!Pass(f[i - 1], h[i])]

LEMMA PassesExist ==
    ASSUME NEW h \in Seq(Msgs)
    PROVE  \E f \in [0..Len(h) -> {acc \in Accs : Passed(acc)}] :
              Passes(h, f) /\ Hist!Sanitize(h) = Hist!Flush(f[Len(h)]).out
<1> DEFINE A == {acc \in Accs : Passed(acc)}
           a == [out |-> <<>>, pending |-> <<>>]
           F == [i \in 1..Len(h) |-> [acc \in A |-> Hist!Pass(acc, h[i])]]
           n == Len(h)
<1>1. a \in A
  BY DEF Accs, Passed, Whole
<1>2. n \in Nat /\ \A i \in 1..n : h[i] \in Msgs
  OBVIOUS
<1>3. F \in [1..n -> [A -> A]] /\ \A i \in 1..n : \A acc \in A : F[i][acc] = Hist!Pass(acc, h[i])
  BY <1>2, PassKeeps
<1> HIDE DEF A, F, a
<1>4. PICK f \in [0..n -> A] : f[0] = a /\ \A i \in 1..n : f[i] = F[i][f[i - 1]]
  <2>1. F \in [1..n -> [A -> A]] /\ a \in A /\ n \in Nat
    BY <1>1, <1>2, <1>3
  <2> HIDE DEF n
  <2>2. Recursive(n, A, a, F)
    BY <2>1, Recursion
  <2>3. QED
    BY <2>2 DEF Recursive
<1>5. \A i \in 1..n : f[i] = Hist!Pass(f[i - 1], h[i])
  BY <1>2, <1>3, <1>4
<1>6. Passes(h, f)
  BY <1>2, <1>4, <1>5 DEF Passes, a
<1> DEFINE g == CHOOSE x : Passes(h, x)
<1>7. Passes(h, g)
  BY <1>6
<1>8. Hist!Sanitize(h) = Hist!Flush(g[n]).out
  BY DEF Hist!Sanitize, Passes
<1> HIDE DEF g
<1>9. DOMAIN g = 0..n /\ g[0] = a /\ \A i \in 1..n : g[i] = Hist!Pass(g[i - 1], h[i])
  BY <1>2, <1>7 DEF Passes, a
<1> DEFINE S == {i \in 0..n : g[i] \in A}
<1>10. 0..n \subseteq S
  <2>1. 0 \in S
    BY <1>1, <1>2, <1>9
  <2>2. ASSUME NEW i \in 0..n - 1, i \in S PROVE i + 1 \in S
    <3>1. i + 1 \in 1..n /\ i + 1 \in 0..n /\ i + 1 - 1 = i
      BY <1>2
    <3>2. g[i + 1] = Hist!Pass(g[i], h[i + 1])
      BY <1>9, <3>1
    <3>3. QED
      BY <1>2, <2>2, <3>1, <3>2, PassKeeps DEF A
  <2> HIDE DEF S
  <2>3. QED
    BY <1>2, <2>1, <2>2, UpTo
<1>11. g \in [0..n -> A]
  <2>1. g = [i \in 0..n |-> g[i]]
    BY <1>7 DEF Passes
  <2>2. QED
    BY <1>10, <2>1
<1>12. QED
  BY <1>7, <1>8, <1>11 DEF A

LEMMA SanitizedIsWhole ==
    ASSUME NEW h \in Seq(Msgs)
    PROVE  Hist!Sanitize(h) \in Seq(Msgs) /\ Whole(Hist!Sanitize(h))
<1>1. PICK f \in [0..Len(h) -> {acc \in Accs : Passed(acc)}] : Hist!Sanitize(h) = Hist!Flush(f[Len(h)]).out
  BY PassesExist
<1>2. Len(h) \in 0..Len(h)
  OBVIOUS
<1>3. f[Len(h)] \in Accs /\ Passed(f[Len(h)])
  BY <1>1, <1>2
<1>4. QED
  BY <1>1, <1>3, FlushOut, FlushWhole DEF Accs

LEMMA WholeIsValid ==
    ASSUME asked \in Seq(Msgs), Whole(asked)
    PROVE  Hist!RequestIsValid
<1>1. ASSUME NEW i \in DOMAIN asked, asked[i].kind = "calls"
      PROVE  LET n == Len(asked[i].ids)
                 next == SubSeq(asked, i + 1, i + n)
             IN  /\ \A k \in DOMAIN next : Hist!IsTool(next[k])
                 /\ {next[k].ids[1] : k \in DOMAIN next} = Hist!Range(asked[i].ids)
  <2> DEFINE n == Len(asked[i].ids)
             next == SubSeq(asked, i + 1, i + n)
  <2>1. asked[i] \in Msgs /\ i \in 1..Len(asked) /\ Len(asked) \in Nat
    OBVIOUS
  <2>2. n \in Nat /\ asked[i].ids \in Seq(CallIds)
    BY <2>1, MessageType
  <2>3. Closed(asked, i)
    BY <1>1, <2>1 DEF Whole
  <2>4. i + n <= Len(asked)
    BY <2>3 DEF Closed
  <2>5. DOMAIN next = 1..n /\ \A k \in 1..n : next[k] = asked[i + k]
    BY <2>1, <2>2, <2>4
  <2>6. Hist!Range(asked[i].ids) = {asked[i].ids[l] : l \in 1..n}
    BY <2>2 DEF Hist!Range
  <2> HIDE DEF next
  <2>7. \A k \in 1..n : Hist!IsTool(next[k]) /\ Within(asked[i].ids, next[k].ids[1])
    <3>1. \A k \in 1..n : i + k \in i + 1..i + n
      BY <2>1, <2>2
    <3>2. QED
      BY <2>3, <2>5, <3>1 DEF Closed
  <2>8. \A l \in 1..n : \E k \in 1..n : next[k].ids[1] = asked[i].ids[l]
    <3>1. ASSUME NEW l \in 1..n PROVE \E k \in 1..n : next[k].ids[1] = asked[i].ids[l]
      <4>1. PICK k \in i + 1..i + n : asked[k].ids[1] = asked[i].ids[l]
        BY <2>3 DEF Closed
      <4>2. k - i \in 1..n /\ i + (k - i) = k
        BY <2>1, <2>2
      <4>3. QED
        BY <2>5, <4>1, <4>2
    <3>2. QED
      BY <3>1
  <2>9. {next[k].ids[1] : k \in 1..n} = {asked[i].ids[l] : l \in 1..n}
    <3>1. ASSUME NEW k \in 1..n PROVE \E l \in 1..n : next[k].ids[1] = asked[i].ids[l]
      BY <2>7 DEF Within
    <3> DEFINE giving == {next[k].ids[1] : k \in 1..n}
               due == {asked[i].ids[l] : l \in 1..n}
    <3>2. \A x \in giving : x \in due
      BY <3>1
    <3>3. \A x \in due : x \in giving
      <4>1. SUFFICES ASSUME NEW l \in 1..n PROVE asked[i].ids[l] \in giving
        OBVIOUS
      <4>2. PICK k \in 1..n : next[k].ids[1] = asked[i].ids[l]
        BY <2>8
      <4>3. QED
        BY <4>2
    <3> HIDE DEF giving, due
    <3>4. giving = due
      BY <3>2, <3>3
    <3>5. QED
      BY <3>4 DEF giving, due
  <2>10. QED
    BY <2>5, <2>6, <2>7, <2>9 DEF next
<1>2. ASSUME NEW j \in DOMAIN asked, Hist!IsTool(asked[j])
      PROVE  \E i \in 1..j - 1 : asked[i].kind = "calls" /\ j - i <= Len(asked[i].ids)
  BY <1>2 DEF Whole, Owner
<1>3. QED
  BY <1>1, <1>2 DEF Hist!RequestIsValid

-----------------------------------------------------------------------------
(* The messages of an agent's memory: the calls of one message differ, and  *)
(* a result that says "unfinished" is made for a request only.              *)

IsCalls(m) == m.kind = "calls"

IsPlain(m) == ~Hist!IsTool(m) /\ ~IsCalls(m)

Stored ==
    {m \in Msgs : /\ m.kind # "unfinished"
                  /\ IsCalls(m) => \A j, k \in 1..Len(m.ids) : m.ids[j] = m.ids[k] => j = k}

(* The result of a call is among the results behind its message. *)
HasAnswer(h, b, c) ==
    \E k \in b + 1..Len(h) : h[k].ids = <<c>> /\ \A j \in b + 1..k : Hist!IsTool(h[j])

OpenAt(h, b) == \A j \in b + 1..Len(h) : Hist!IsTool(h[j])

HasCall(h, c) == \E b \in 1..Len(h) : IsCalls(h[b]) /\ Within(h[b].ids, c)

Unique(h) ==
    \A b, d \in 1..Len(h) :
        IsCalls(h[b]) /\ IsCalls(h[d]) /\ b # d =>
            \A c : ~(Within(h[b].ids, c) /\ Within(h[d].ids, c))

(* A memory in which calls are known ids, those of A have their results, and *)
(* so have those with a result anywhere, unless it is spoilt; the calls of O *)
(* have theirs or are going to.                                             *)
Answers(h, b, c, P, A, O) ==
    /\ Hist!HasResult(h, c) /\ c \notin P => HasAnswer(h, b, c)
    /\ c \in A => HasAnswer(h, b, c)
    /\ c \in O => HasAnswer(h, b, c) \/ OpenAt(h, b)

Sound(h, K, P, A, O) ==
    /\ h \in Seq(Stored) /\ Unique(h)
    /\ \A c : HasCall(h, c) \/ Hist!HasResult(h, c) => c \in K
    /\ \A b \in 1..Len(h) : IsCalls(h[b]) =>
         \A c : Within(h[b].ids, c) => Answers(h, b, c, P, A, O)

(* What a shorter or changed memory has kept of a longer one; if o, also    *)
(* the place for further results.                                           *)
KeptFrom(h, g, d, b, o) ==
    /\ IsCalls(h[b]) /\ h[b].ids = g[d].ids
    /\ \A c : HasAnswer(h, b, c) => HasAnswer(g, d, c)
    /\ o /\ OpenAt(h, b) => OpenAt(g, d)

Keeps(h, g, o) ==
    /\ \A d \in 1..Len(g) : IsCalls(g[d]) => \E b \in 1..Len(h) : KeptFrom(h, g, d, b, o)
    /\ \A c : Hist!HasResult(g, c) => Hist!HasResult(h, c)
    /\ Unique(h) => Unique(g)

LEMMA KeepsCalls ==
    ASSUME NEW h, NEW g, Keeps(h, g, TRUE) \/ Keeps(h, g, FALSE), NEW c, HasCall(g, c)
    PROVE  HasCall(h, c)
BY DEF HasCall, Keeps, KeptFrom

LEMMA KeepsSound ==
    ASSUME NEW h, NEW g \in Seq(Stored), Keeps(h, g, TRUE),
           NEW K, NEW P, NEW A, NEW O, Sound(h, K, P, A, O)
    PROVE  Sound(g, K, P, A, O)
<1>1. Unique(g) /\ \A c : HasCall(g, c) \/ Hist!HasResult(g, c) => c \in K
  <2>1. \A c : HasCall(g, c) => HasCall(h, c)
    BY KeepsCalls
  <2>2. QED
    BY <2>1 DEF Keeps, Sound
<1>2. ASSUME NEW d \in 1..Len(g), IsCalls(g[d]), NEW c, Within(g[d].ids, c)
      PROVE  Answers(g, d, c, P, A, O)
  <2>1. PICK b \in 1..Len(h) : KeptFrom(h, g, d, b, TRUE)
    BY <1>2 DEF Keeps
  <2>2. Answers(h, b, c, P, A, O)
    BY <1>2, <2>1 DEF Sound, KeptFrom
  <2>3. Hist!HasResult(g, c) => Hist!HasResult(h, c)
    BY DEF Keeps
  <2>4. QED
    BY <2>1, <2>2, <2>3 DEF Answers, KeptFrom
<1>3. QED
  BY <1>1, <1>2 DEF Sound

LEMMA AnswersSound ==
    ASSUME NEW h, NEW g \in Seq(Stored), Keeps(h, g, FALSE),
           NEW K, NEW P, NEW A, Sound(h, K, P, A, {})
    PROVE  Sound(g, K, P, A, {})
<1>1. Unique(g) /\ \A c : HasCall(g, c) \/ Hist!HasResult(g, c) => c \in K
  <2>1. \A c : HasCall(g, c) => HasCall(h, c)
    BY KeepsCalls
  <2>2. QED
    BY <2>1 DEF Keeps, Sound
<1>2. ASSUME NEW d \in 1..Len(g), IsCalls(g[d]), NEW c, Within(g[d].ids, c)
      PROVE  Answers(g, d, c, P, A, {})
  <2>1. PICK b \in 1..Len(h) : KeptFrom(h, g, d, b, FALSE)
    BY <1>2 DEF Keeps
  <2>2. Answers(h, b, c, P, A, {})
    BY <1>2, <2>1 DEF Sound, KeptFrom
  <2>3. Hist!HasResult(g, c) => Hist!HasResult(h, c)
    BY DEF Keeps
  <2>4. QED
    BY <2>1, <2>2, <2>3 DEF Answers, KeptFrom
<1>3. QED
  BY <1>1, <1>2 DEF Sound

LEMMA KeepsOnward ==
    ASSUME NEW h, NEW g, NEW k, Keeps(h, g, TRUE), Keeps(g, k, TRUE)
    PROVE  Keeps(h, k, TRUE)
<1>1. ASSUME NEW e \in 1..Len(k), IsCalls(k[e])
      PROVE  \E b \in 1..Len(h) : KeptFrom(h, k, e, b, TRUE)
  <2>1. PICK d \in 1..Len(g) : KeptFrom(g, k, e, d, TRUE)
    BY <1>1 DEF Keeps
  <2>2. PICK b \in 1..Len(h) : KeptFrom(h, g, d, b, TRUE)
    BY <2>1 DEF Keeps, KeptFrom
  <2>3. KeptFrom(h, k, e, b, TRUE)
    BY <2>1, <2>2 DEF KeptFrom
  <2>4. QED
    BY <2>3
<1>2. QED
  BY <1>1 DEF Keeps

LEMMA AnswersOnward ==
    ASSUME NEW h, NEW g, NEW k, Keeps(h, g, FALSE), Keeps(g, k, FALSE)
    PROVE  Keeps(h, k, FALSE)
<1>1. ASSUME NEW e \in 1..Len(k), IsCalls(k[e])
      PROVE  \E b \in 1..Len(h) : KeptFrom(h, k, e, b, FALSE)
  <2>1. PICK d \in 1..Len(g) : KeptFrom(g, k, e, d, FALSE)
    BY <1>1 DEF Keeps
  <2>2. PICK b \in 1..Len(h) : KeptFrom(h, g, d, b, FALSE)
    BY <2>1 DEF Keeps, KeptFrom
  <2>3. KeptFrom(h, k, e, b, FALSE)
    BY <2>1, <2>2 DEF KeptFrom
  <2>4. QED
    BY <2>3
<1>2. QED
  BY <1>1 DEF Keeps

LEMMA KeepsItself ==
    ASSUME NEW h
    PROVE  Keeps(h, h, TRUE) /\ Keeps(h, h, FALSE)
BY DEF Keeps, KeptFrom

LEMMA KeepsLess ==
    ASSUME NEW h, NEW g, Keeps(h, g, TRUE)
    PROVE  Keeps(h, g, FALSE)
BY DEF Keeps, KeptFrom

LEMMA SoundMore ==
    ASSUME NEW h, NEW K, NEW P, NEW A, NEW O, Sound(h, K, P, A, O),
           NEW K2, NEW P2, NEW A2, NEW O2,
           K \subseteq K2, P \subseteq P2, A2 \subseteq A, O2 \subseteq O \union A
    PROVE  Sound(h, K2, P2, A2, O2)
<1>1. ASSUME NEW b \in 1..Len(h), IsCalls(h[b]), NEW c, Within(h[b].ids, c)
      PROVE  Answers(h, b, c, P2, A2, O2)
  BY <1>1 DEF Sound, Answers
<1>2. QED
  BY <1>1 DEF Sound

-----------------------------------------------------------------------------
(* One more message. *)

LEMMA AppendStored ==
    ASSUME NEW h \in Seq(Stored), NEW m \in Stored
    PROVE  /\ Append(h, m) \in Seq(Stored) /\ Len(Append(h, m)) = Len(h) + 1 /\ Len(h) \in Nat
           /\ \A i \in 1..Len(h) : Append(h, m)[i] = h[i] /\ i \in 1..Len(Append(h, m))
           /\ Append(h, m)[Len(h) + 1] = m /\ Len(h) + 1 \in 1..Len(Append(h, m))
           /\ \A i \in 1..Len(Append(h, m)) : i \in 1..Len(h) \/ i = Len(h) + 1
OBVIOUS

LEMMA AppendOpen ==
    ASSUME NEW h \in Seq(Stored), NEW m \in Stored, NEW b \in 1..Len(h)
    PROVE  OpenAt(Append(h, m), b) <=> OpenAt(h, b) /\ Hist!IsTool(m)
<1> DEFINE g == Append(h, m)
<1>1. /\ Len(g) = Len(h) + 1 /\ Len(h) \in Nat /\ g[Len(h) + 1] = m
      /\ \A i \in 1..Len(h) : g[i] = h[i]
  BY AppendStored
<1> HIDE DEF g
<1>2. ASSUME OpenAt(g, b) PROVE OpenAt(h, b) /\ Hist!IsTool(m)
  <2>1. ASSUME NEW j \in b + 1..Len(h) PROVE Hist!IsTool(h[j])
    <3>1. j \in b + 1..Len(g) /\ g[j] = h[j]
      BY <1>1
    <3>2. QED
      BY <1>2, <3>1 DEF OpenAt
  <2>2. Len(h) + 1 \in b + 1..Len(g)
    BY <1>1
  <2>3. QED
    BY <1>1, <1>2, <2>1, <2>2 DEF OpenAt
<1>3. ASSUME OpenAt(h, b), Hist!IsTool(m) PROVE OpenAt(g, b)
  <2>1. ASSUME NEW j \in b + 1..Len(g) PROVE Hist!IsTool(g[j])
    <3>1. CASE j = Len(h) + 1
      BY <1>1, <1>3, <3>1
    <3>2. CASE j # Len(h) + 1
      <4>1. j \in b + 1..Len(h) /\ g[j] = h[j]
        BY <1>1, <3>2
      <4>2. QED
        BY <1>3, <4>1 DEF OpenAt
    <3>3. QED
      BY <3>1, <3>2
  <2>2. QED
    BY <2>1 DEF OpenAt
<1>4. QED
  BY <1>2, <1>3 DEF g

LEMMA AppendAnswered ==
    ASSUME NEW h \in Seq(Stored), NEW m \in Stored, NEW b \in 1..Len(h), NEW c
    PROVE  HasAnswer(Append(h, m), b, c) <=>
              HasAnswer(h, b, c) \/ (OpenAt(h, b) /\ Hist!IsTool(m) /\ m.ids = <<c>>)
<1> DEFINE g == Append(h, m)
<1>1. /\ Len(g) = Len(h) + 1 /\ Len(h) \in Nat /\ g[Len(h) + 1] = m
      /\ \A i \in 1..Len(h) : g[i] = h[i]
  BY AppendStored
<1> HIDE DEF g
<1>2. ASSUME HasAnswer(g, b, c)
      PROVE  HasAnswer(h, b, c) \/ (OpenAt(h, b) /\ Hist!IsTool(m) /\ m.ids = <<c>>)
  <2>1. PICK k \in b + 1..Len(g) : g[k].ids = <<c>> /\ \A j \in b + 1..k : Hist!IsTool(g[j])
    BY <1>2 DEF HasAnswer
  <2>2. CASE k = Len(h) + 1
    <3>1. ASSUME NEW j \in b + 1..Len(h) PROVE Hist!IsTool(h[j])
      <4>1. j \in b + 1..k /\ g[j] = h[j]
        BY <1>1, <2>2
      <4>2. QED
        BY <2>1, <4>1
    <3>2. k \in b + 1..k
      BY <1>1
    <3>3. QED
      BY <1>1, <2>1, <2>2, <3>1, <3>2 DEF OpenAt
  <2>3. CASE k # Len(h) + 1
    <3>1. k \in b + 1..Len(h) /\ g[k] = h[k]
      BY <1>1, <2>3
    <3>2. \A j \in b + 1..k : g[j] = h[j]
      BY <1>1, <3>1
    <3>3. QED
      BY <2>1, <3>1, <3>2 DEF HasAnswer
  <2>4. QED
    BY <2>2, <2>3
<1>3. ASSUME HasAnswer(h, b, c) PROVE HasAnswer(g, b, c)
  <2>1. PICK k \in b + 1..Len(h) : h[k].ids = <<c>> /\ \A j \in b + 1..k : Hist!IsTool(h[j])
    BY <1>3 DEF HasAnswer
  <2>2. k \in b + 1..Len(g) /\ g[k] = h[k] /\ \A j \in b + 1..k : g[j] = h[j]
    BY <1>1
  <2>3. QED
    BY <2>1, <2>2 DEF HasAnswer
<1>4. ASSUME OpenAt(h, b), Hist!IsTool(m), m.ids = <<c>> PROVE HasAnswer(g, b, c)
  <2>1. OpenAt(g, b)
    BY <1>4, AppendOpen DEF g
  <2>2. Len(g) \in b + 1..Len(g) /\ g[Len(g)] = m
    BY <1>1
  <2>3. QED
    BY <1>4, <2>1, <2>2 DEF HasAnswer, OpenAt
<1>5. QED
  BY <1>2, <1>3, <1>4 DEF g

LEMMA AppendLast ==
    ASSUME NEW h \in Seq(Stored), NEW m \in Stored
    PROVE  /\ OpenAt(Append(h, m), Len(h) + 1)
           /\ \A c : ~HasAnswer(Append(h, m), Len(h) + 1, c)
BY AppendStored DEF OpenAt, HasAnswer

LEMMA AppendResult ==
    ASSUME NEW h \in Seq(Stored), NEW m \in Stored, NEW c
    PROVE  Hist!HasResult(Append(h, m), c) <=> Hist!HasResult(h, c) \/ (Hist!IsTool(m) /\ m.ids = <<c>>)
<1> DEFINE g == Append(h, m)
<1>1. /\ g[Len(h) + 1] = m /\ DOMAIN g = 1..Len(g) /\ DOMAIN h = 1..Len(h)
      /\ \A i \in 1..Len(h) : g[i] = h[i] /\ i \in 1..Len(g)
      /\ Len(h) + 1 \in 1..Len(g)
      /\ \A i \in 1..Len(g) : i \in 1..Len(h) \/ i = Len(h) + 1
  BY AppendStored
<1> HIDE DEF g
<1>2. Hist!HasResult(g, c) <=> Hist!HasResult(h, c) \/ (Hist!IsTool(m) /\ m.ids = <<c>>)
  BY <1>1 DEF Hist!HasResult
<1>3. QED
  BY <1>2 DEF g

LEMMA AppendCalls ==
    ASSUME NEW h \in Seq(Stored), NEW m \in Stored, NEW c
    PROVE  HasCall(Append(h, m), c) <=> HasCall(h, c) \/ (IsCalls(m) /\ Within(m.ids, c))
<1> DEFINE g == Append(h, m)
<1>1. /\ g[Len(h) + 1] = m
      /\ \A i \in 1..Len(h) : g[i] = h[i] /\ i \in 1..Len(g)
      /\ Len(h) + 1 \in 1..Len(g)
      /\ \A i \in 1..Len(g) : i \in 1..Len(h) \/ i = Len(h) + 1
  BY AppendStored
<1> HIDE DEF g
<1>2. HasCall(g, c) <=> HasCall(h, c) \/ (IsCalls(m) /\ Within(m.ids, c))
  BY <1>1 DEF HasCall
<1>3. QED
  BY <1>2 DEF g

LEMMA AppendUnique ==
    ASSUME NEW h \in Seq(Stored), NEW m \in Stored
    PROVE  Unique(Append(h, m)) <=>
              Unique(h) /\ (IsCalls(m) => \A c : ~(Within(m.ids, c) /\ HasCall(h, c)))
<1> DEFINE g == Append(h, m)
           n == Len(h) + 1
<1>1. /\ g[n] = m /\ n \in 1..Len(g)
      /\ \A i \in 1..Len(h) : g[i] = h[i] /\ i \in 1..Len(g) /\ i # n
      /\ \A i \in 1..Len(g) : i \in 1..Len(h) \/ i = n
  BY AppendStored
<1> HIDE DEF g, n
<1>2. ASSUME Unique(g) PROVE Unique(h)
  BY <1>1, <1>2 DEF Unique
<1>3. ASSUME Unique(g), IsCalls(m), NEW c, Within(m.ids, c), HasCall(h, c) PROVE FALSE
  <2>1. PICK b \in 1..Len(h) : IsCalls(h[b]) /\ Within(h[b].ids, c)
    BY <1>3 DEF HasCall
  <2>2. b \in 1..Len(g) /\ g[b] = h[b] /\ b # n
    BY <1>1
  <2>3. QED
    BY <1>1, <1>3, <2>1, <2>2 DEF Unique
<1>4. ASSUME Unique(h), IsCalls(m) => \A c : ~(Within(m.ids, c) /\ HasCall(h, c)) PROVE Unique(g)
  <2> SUFFICES ASSUME NEW b \in 1..Len(g), NEW d \in 1..Len(g), IsCalls(g[b]), IsCalls(g[d]),
                      b # d, NEW c, Within(g[b].ids, c), Within(g[d].ids, c)
               PROVE  FALSE
    BY DEF Unique
  <2>1. CASE b \in 1..Len(h) /\ d \in 1..Len(h)
    BY <1>1, <1>4, <2>1 DEF Unique
  <2>2. CASE b = n /\ d \in 1..Len(h)
    BY <1>1, <1>4, <2>2 DEF HasCall
  <2>3. CASE d = n /\ b \in 1..Len(h)
    BY <1>1, <1>4, <2>3 DEF HasCall
  <2>4. QED
    BY <1>1, <2>1, <2>2, <2>3
<1>5. QED
  BY <1>2, <1>3, <1>4 DEF g

(* Both grow by one message, or the longer one by a plain one. *)
LEMMA BothGrow ==
    ASSUME NEW h \in Seq(Stored), NEW g \in Seq(Stored), NEW m \in Stored, Keeps(h, g, TRUE)
    PROVE  Keeps(Append(h, m), Append(g, m), TRUE)
<1> DEFINE h2 == Append(h, m)
           g2 == Append(g, m)
<1>1. ASSUME NEW d \in 1..Len(g2), IsCalls(g2[d])
      PROVE  \E b \in 1..Len(h2) : KeptFrom(h2, g2, d, b, TRUE)
  <2>1. CASE d \in 1..Len(g)
    <3>1. g2[d] = g[d]
      BY <2>1, AppendStored
    <3>2. PICK b \in 1..Len(h) : KeptFrom(h, g, d, b, TRUE)
      BY <1>1, <2>1, <3>1 DEF Keeps
    <3>3. h2[b] = h[b] /\ b \in 1..Len(h2)
      BY AppendStored
    <3>4. \A c : HasAnswer(h2, b, c) => HasAnswer(g2, d, c)
      BY <2>1, <3>2, AppendAnswered DEF KeptFrom
    <3>5. OpenAt(h2, b) => OpenAt(g2, d)
      BY <2>1, <3>2, AppendOpen DEF KeptFrom
    <3> HIDE DEF h2, g2
    <3>6. QED
      BY <3>1, <3>2, <3>3, <3>4, <3>5 DEF KeptFrom
  <2>2. CASE d = Len(g) + 1
    <3> DEFINE b == Len(h) + 1
    <3>1. h2[b] = m /\ g2[d] = m /\ b \in 1..Len(h2)
      BY <2>2, AppendStored
    <3>2. OpenAt(g2, d) /\ \A c : ~HasAnswer(h2, b, c)
      BY <2>2, AppendLast
    <3> HIDE DEF h2, g2, b
    <3>3. QED
      BY <1>1, <3>1, <3>2 DEF KeptFrom
  <2>3. QED
    BY <2>1, <2>2, AppendStored
<1>2. ASSUME NEW c, Hist!HasResult(g2, c) PROVE Hist!HasResult(h2, c)
  BY <1>2, AppendResult DEF Keeps
<1>3. ASSUME Unique(h2) PROVE Unique(g2)
  <2>1. Unique(h) /\ (IsCalls(m) => \A c : ~(Within(m.ids, c) /\ HasCall(h, c)))
    BY <1>3, AppendUnique
  <2>2. \A c : HasCall(g, c) => HasCall(h, c)
    BY KeepsCalls
  <2>3. Unique(g) /\ (IsCalls(m) => \A c : ~(Within(m.ids, c) /\ HasCall(g, c)))
    BY <2>1, <2>2 DEF Keeps
  <2>4. QED
    BY <2>3, AppendUnique
<1> HIDE DEF h2, g2
<1>4. QED
  BY <1>1, <1>2, <1>3 DEF Keeps, h2, g2

LEMMA OneGrows ==
    ASSUME NEW h \in Seq(Stored), NEW g \in Seq(Stored), NEW m \in Stored, IsPlain(m),
           Keeps(h, g, TRUE)
    PROVE  Keeps(Append(h, m), g, TRUE)
<1> DEFINE h2 == Append(h, m)
<1>1. ASSUME NEW d \in 1..Len(g), IsCalls(g[d])
      PROVE  \E b \in 1..Len(h2) : KeptFrom(h2, g, d, b, TRUE)
  <2>1. PICK b \in 1..Len(h) : KeptFrom(h, g, d, b, TRUE)
    BY <1>1 DEF Keeps
  <2>2. h2[b] = h[b] /\ b \in 1..Len(h2)
    BY AppendStored
  <2>3. \A c : HasAnswer(h2, b, c) => HasAnswer(h, b, c)
    BY AppendAnswered DEF IsPlain
  <2>4. ~OpenAt(h2, b)
    BY AppendOpen DEF IsPlain
  <2> HIDE DEF h2
  <2>5. QED
    BY <2>1, <2>2, <2>3, <2>4 DEF KeptFrom
<1>2. ASSUME NEW c, Hist!HasResult(g, c) PROVE Hist!HasResult(h2, c)
  BY <1>2, AppendResult DEF Keeps
<1>3. ASSUME Unique(h2) PROVE Unique(g)
  BY <1>3, AppendUnique DEF Keeps
<1> HIDE DEF h2
<1>4. QED
  BY <1>1, <1>2, <1>3 DEF Keeps, h2

-----------------------------------------------------------------------------
(* What the cuts of a memory keep. *)

LEMMA MinIs ==
    ASSUME NEW S, S \subseteq Nat, S # {}
    PROVE  Hist!Min(S) \in S /\ \A y \in S : Hist!Min(S) <= y
<1>1. PICK m \in S : \A k \in S : ~(<<k, m>> \in OpToRel(<, Nat))
  BY NatLessThanWellFounded, WFMin, ZenonT(30)
<1>2. ASSUME NEW k \in S PROVE m <= k
  <2>1. k \in Nat /\ m \in Nat
    OBVIOUS
  <2>2. ~(k < m)
    BY <1>1, <2>1 DEF OpToRel
  <2>3. QED
    BY <2>1, <2>2
<1>3. QED
  BY <1>2 DEF Hist!Min

LEMMA SuffixIs ==
    ASSUME NEW A, NEW h \in Seq(A), NEW s \in 1..Len(h) + 1
    PROVE  /\ SubSeq(h, s, Len(h)) \in Seq(A) /\ Len(SubSeq(h, s, Len(h))) = Len(h) - s + 1
           /\ Len(h) \in Nat /\ DOMAIN h = 1..Len(h)
           /\ \A i \in 1..Len(SubSeq(h, s, Len(h))) : SubSeq(h, s, Len(h))[i] = h[i + s - 1]
<1>1. Len(h) \in Nat /\ DOMAIN h = 1..Len(h)
  OBVIOUS
<1>2. \A i \in s..Len(h) : h[i] \in A
  OBVIOUS
<1>3. SubSeq(h, s, Len(h)) \in Seq(A)
  BY <1>1, <1>2
<1>4. Len(SubSeq(h, s, Len(h))) = Len(h) - s + 1
  BY <1>1
<1>5. \A i \in 1..Len(SubSeq(h, s, Len(h))) : SubSeq(h, s, Len(h))[i] = h[i + s - 1]
  BY <1>1, <1>4
<1>6. QED
  BY <1>1, <1>3, <1>4, <1>5

LEMMA SuffixKeeps ==
    ASSUME NEW h \in Seq(Stored), NEW s \in 1..Len(h) + 1
    PROVE  /\ SubSeq(h, s, Len(h)) \in Seq(Stored)
           /\ Keeps(h, SubSeq(h, s, Len(h)), TRUE)
<1> DEFINE g == SubSeq(h, s, Len(h))
<1>1. /\ g \in Seq(Stored) /\ Len(g) = Len(h) - s + 1 /\ Len(h) \in Nat /\ DOMAIN h = 1..Len(h)
      /\ \A i \in 1..Len(g) : g[i] = h[i + s - 1]
  BY SuffixIs
<1> HIDE DEF g
<1>2. DOMAIN g = 1..Len(g)
  BY <1>1
<1>3. ASSUME NEW d \in 1..Len(g), IsCalls(g[d])
      PROVE  \E b \in 1..Len(h) : KeptFrom(h, g, d, b, TRUE)
  <2> DEFINE b == d + s - 1
  <2>1. b \in 1..Len(h) /\ g[d] = h[b]
    BY <1>1
  <2>2. ASSUME NEW c, HasAnswer(h, b, c) PROVE HasAnswer(g, d, c)
    <3>1. PICK k \in b + 1..Len(h) : h[k].ids = <<c>> /\ \A j \in b + 1..k : Hist!IsTool(h[j])
      BY <2>2 DEF HasAnswer
    <3>2. k - s + 1 \in d + 1..Len(g) /\ g[k - s + 1] = h[k]
      BY <1>1
    <3>3. ASSUME NEW j \in d + 1..k - s + 1 PROVE Hist!IsTool(g[j])
      <4>1. g[j] = h[j + s - 1] /\ j + s - 1 \in b + 1..k
        BY <1>1
      <4>2. QED
        BY <3>1, <4>1
    <3>4. QED
      BY <3>1, <3>2, <3>3 DEF HasAnswer
  <2>3. ASSUME OpenAt(h, b) PROVE OpenAt(g, d)
    <3>1. ASSUME NEW j \in d + 1..Len(g) PROVE Hist!IsTool(g[j])
      <4>1. g[j] = h[j + s - 1] /\ j + s - 1 \in b + 1..Len(h)
        BY <1>1
      <4>2. QED
        BY <2>3, <4>1 DEF OpenAt
    <3>2. QED
      BY <3>1 DEF OpenAt
  <2> HIDE DEF b
  <2>4. QED
    BY <1>3, <2>1, <2>2, <2>3 DEF KeptFrom
<1>4. ASSUME NEW c, Hist!HasResult(g, c) PROVE Hist!HasResult(h, c)
  <2>1. PICK i \in 1..Len(g) : Hist!IsTool(g[i]) /\ g[i].ids = <<c>>
    BY <1>2, <1>4 DEF Hist!HasResult
  <2>2. i + s - 1 \in DOMAIN h /\ g[i] = h[i + s - 1]
    BY <1>1
  <2>3. QED
    BY <2>1, <2>2 DEF Hist!HasResult
<1>5. ASSUME Unique(h) PROVE Unique(g)
  <2>1. ASSUME NEW i \in 1..Len(g)
        PROVE  i + s - 1 \in 1..Len(h) /\ g[i] = h[i + s - 1]
    <3>1. g[i] = h[i + s - 1]
      BY <1>1
    <3>2. QED
      BY <1>1, <3>1
  <2>2. \A b, d \in 1..Len(g) : b # d => b + s - 1 # d + s - 1
    BY <1>1
  <2>3. QED
    BY <1>5, <2>1, <2>2 DEF Unique
<1>6. QED
  BY <1>1, <1>3, <1>4, <1>5 DEF Keeps, g

LEMMA HeadKeeps ==
    ASSUME NEW p \in Seq(Stored), \A i \in 1..Len(p) : IsPlain(p[i]), NEW h \in Seq(Stored)
    PROVE  p \o h \in Seq(Stored) /\ Keeps(h, p \o h, TRUE)
<1> DEFINE g == p \o h
           n == Len(p)
<1>1. /\ g \in Seq(Stored) /\ Len(g) = n + Len(h) /\ Len(h) \in Nat /\ n \in Nat
      /\ DOMAIN h = 1..Len(h)
      /\ \A i \in 1..n : g[i] = p[i]
      /\ \A i \in 1..Len(h) : g[n + i] = h[i]
  BY Concat
<1> HIDE DEF g
<1>2. DOMAIN g = 1..Len(g)
  BY <1>1
<1>3. \A d \in 1..Len(g) : IsPlain(g[d]) \/ (d - n \in 1..Len(h) /\ g[d] = h[d - n])
  <2> SUFFICES ASSUME NEW d \in 1..Len(g)
               PROVE  IsPlain(g[d]) \/ (d - n \in 1..Len(h) /\ g[d] = h[d - n])
    OBVIOUS
  <2>1. CASE d <= n
    BY <1>1, <2>1
  <2>2. CASE d > n
    <3>1. d - n \in 1..Len(h) /\ n + (d - n) = d
      BY <1>1, <2>2
    <3>2. QED
      BY <1>1, <3>1
  <2>3. QED
    BY <1>1, <2>1, <2>2
<1> HIDE DEF n
<1>4. ASSUME NEW d \in 1..Len(g), IsCalls(g[d])
      PROVE  \E b \in 1..Len(h) : KeptFrom(h, g, d, b, TRUE)
  <2> DEFINE b == d - n
  <2>1. b \in 1..Len(h) /\ g[d] = h[b]
    BY <1>3, <1>4 DEF IsPlain
  <2>2. ASSUME NEW c, HasAnswer(h, b, c) PROVE HasAnswer(g, d, c)
    <3>1. PICK k \in b + 1..Len(h) : h[k].ids = <<c>> /\ \A j \in b + 1..k : Hist!IsTool(h[j])
      BY <2>2 DEF HasAnswer
    <3>2. n + k \in d + 1..Len(g) /\ g[n + k] = h[k]
      BY <1>1, <2>1
    <3>3. ASSUME NEW j \in d + 1..n + k PROVE Hist!IsTool(g[j])
      <4>1. j - n \in b + 1..k /\ j - n \in 1..Len(h) /\ n + (j - n) = j
        BY <1>1, <2>1
      <4>2. g[j] = h[j - n]
        BY <1>1, <4>1
      <4>3. QED
        BY <3>1, <4>1, <4>2
    <3>4. QED
      BY <3>1, <3>2, <3>3 DEF HasAnswer
  <2>3. ASSUME OpenAt(h, b) PROVE OpenAt(g, d)
    <3>1. ASSUME NEW j \in d + 1..Len(g) PROVE Hist!IsTool(g[j])
      <4>1. j - n \in b + 1..Len(h) /\ j - n \in 1..Len(h) /\ n + (j - n) = j
        BY <1>1, <2>1
      <4>2. g[j] = h[j - n]
        BY <1>1, <4>1
      <4>3. QED
        BY <2>3, <4>1, <4>2 DEF OpenAt
    <3>2. QED
      BY <3>1 DEF OpenAt
  <2> HIDE DEF b
  <2>4. QED
    BY <1>4, <2>1, <2>2, <2>3 DEF KeptFrom
<1>5. ASSUME NEW c, Hist!HasResult(g, c) PROVE Hist!HasResult(h, c)
  <2>1. PICK i \in 1..Len(g) : Hist!IsTool(g[i]) /\ g[i].ids = <<c>>
    BY <1>2, <1>5 DEF Hist!HasResult
  <2>2. i - n \in 1..Len(h) /\ g[i] = h[i - n]
    BY <1>3, <2>1 DEF IsPlain
  <2>3. QED
    BY <1>1, <2>1, <2>2 DEF Hist!HasResult
<1>6. ASSUME Unique(h) PROVE Unique(g)
  <2>1. \A i \in 1..Len(g) : IsCalls(g[i]) => i - n \in 1..Len(h) /\ g[i] = h[i - n]
    BY <1>3 DEF IsPlain
  <2>2. \A b, d \in 1..Len(g) : b # d => b - n # d - n
    BY <1>1
  <2>3. QED
    BY <1>6, <2>1, <2>2 DEF Unique
<1>7. QED
  BY <1>1, <1>4, <1>5, <1>6 DEF Keeps, g

(* Where messages change into plain ones. *)
LEMMA SamePlacesKeep ==
    ASSUME NEW h \in Seq(Stored), NEW g \in Seq(Stored), Len(g) = Len(h),
           \A i \in 1..Len(h) : g[i] = h[i] \/ (IsPlain(g[i]) /\ ~Hist!IsTool(h[i]))
    PROVE  Keeps(h, g, TRUE)
<1>1. DOMAIN g = 1..Len(h) /\ DOMAIN h = 1..Len(h) /\ Len(h) \in Nat
  OBVIOUS
<1>2. \A i \in 1..Len(h) : (IsCalls(g[i]) => g[i] = h[i]) /\ (Hist!IsTool(h[i]) => g[i] = h[i])
                           /\ (Hist!IsTool(g[i]) => g[i] = h[i])
  BY DEF IsPlain
<1>3. ASSUME NEW d \in 1..Len(g), IsCalls(g[d]) PROVE KeptFrom(h, g, d, d, TRUE)
  <2>1. g[d] = h[d]
    BY <1>2, <1>3
  <2>2. ASSUME NEW c, HasAnswer(h, d, c) PROVE HasAnswer(g, d, c)
    <3>1. PICK k \in d + 1..Len(h) : h[k].ids = <<c>> /\ \A j \in d + 1..k : Hist!IsTool(h[j])
      BY <2>2 DEF HasAnswer
    <3>2. \A j \in d + 1..k : j \in 1..Len(h)
      BY <1>1
    <3>3. k \in d + 1..k /\ k \in d + 1..Len(g)
      BY <1>1
    <3>4. \A j \in d + 1..k : g[j] = h[j]
      BY <1>2, <3>1, <3>2
    <3>5. QED
      BY <3>1, <3>3, <3>4 DEF HasAnswer
  <2>3. ASSUME OpenAt(h, d) PROVE OpenAt(g, d)
    <3>1. \A j \in d + 1..Len(h) : j \in 1..Len(h)
      BY <1>1
    <3>2. QED
      BY <1>2, <2>3, <3>1 DEF OpenAt
  <2>4. QED
    BY <1>3, <2>1, <2>2, <2>3 DEF KeptFrom
<1>4. ASSUME NEW c, Hist!HasResult(g, c) PROVE Hist!HasResult(h, c)
  BY <1>1, <1>2, <1>4 DEF Hist!HasResult
<1>5. ASSUME Unique(h) PROVE Unique(g)
  BY <1>2, <1>5 DEF Unique
<1>6. QED
  BY <1>3, <1>4, <1>5 DEF Keeps

LEMMA PlainKeeps ==
    ASSUME NEW h \in Seq(Stored), NEW m \in Stored, IsPlain(m)
    PROVE  Append(h, m) \in Seq(Stored) /\ Keeps(h, Append(h, m), FALSE)
<1> DEFINE g == Append(h, m)
<1>1. ASSUME NEW d \in 1..Len(g), IsCalls(g[d]) PROVE d \in 1..Len(h) /\ KeptFrom(h, g, d, d, FALSE)
  <2>1. d \in 1..Len(h) /\ g[d] = h[d]
    BY <1>1, AppendStored DEF IsPlain
  <2>2. \A c : HasAnswer(h, d, c) => HasAnswer(g, d, c)
    BY <2>1, AppendAnswered
  <2> HIDE DEF g
  <2>3. QED
    BY <1>1, <2>1, <2>2 DEF KeptFrom
<1>2. ASSUME NEW c, Hist!HasResult(g, c) PROVE Hist!HasResult(h, c)
  BY <1>2, AppendResult DEF IsPlain
<1>3. ASSUME Unique(h) PROVE Unique(g)
  BY <1>3, AppendUnique DEF IsPlain
<1>4. g \in Seq(Stored)
  BY AppendStored
<1> HIDE DEF g
<1>5. QED
  BY <1>1, <1>2, <1>3, <1>4 DEF Keeps, g

-----------------------------------------------------------------------------
(* The messages of some kinds. *)

Pick(g, m, kinds) == IF m.kind \in kinds THEN Append(g, m) ELSE g

Picks(h, kinds, f) ==
    f = [i \in 0..Len(h) |-> IF i = 0 THEN <<>> ELSE Pick(f[i - 1], h[i], kinds)]

LEMMA PickStored ==
    ASSUME NEW g \in Seq(Stored), NEW m \in Stored, NEW kinds
    PROVE  Pick(g, m, kinds) \in Seq(Stored)
BY AppendStored DEF Pick

LEMMA AmongPasses ==
    ASSUME NEW h \in Seq(Stored), NEW kinds
    PROVE  \E f \in [0..Len(h) -> Seq(Stored)] :
              /\ f[0] = <<>> /\ Hist!Among(h, kinds) = f[Len(h)]
              /\ \A i \in 1..Len(h) : f[i] = Pick(f[i - 1], h[i], kinds)
<1> DEFINE A == Seq(Stored)
           F == [i \in 1..Len(h) |-> [g \in A |-> Pick(g, h[i], kinds)]]
           n == Len(h)
<1>1. <<>> \in A
  OBVIOUS
<1>2. n \in Nat /\ \A i \in 1..n : h[i] \in Stored
  OBVIOUS
<1>3. F \in [1..n -> [A -> A]] /\ \A i \in 1..n : \A g \in A : F[i][g] = Pick(g, h[i], kinds)
  BY <1>2, PickStored
<1> HIDE DEF F
<1>4. PICK f \in [0..n -> A] : f[0] = <<>> /\ \A i \in 1..n : f[i] = F[i][f[i - 1]]
  <2>1. F \in [1..n -> [A -> A]] /\ <<>> \in A /\ n \in Nat
    BY <1>1, <1>2, <1>3
  <2> HIDE DEF A, n
  <2>2. Recursive(n, A, <<>>, F)
    BY <2>1, Recursion
  <2>3. QED
    BY <2>2 DEF Recursive
<1>5. \A i \in 1..n : f[i] = Pick(f[i - 1], h[i], kinds)
  <2> SUFFICES ASSUME NEW i \in 1..n PROVE f[i] = Pick(f[i - 1], h[i], kinds)
    OBVIOUS
  <2>1. f[i - 1] \in A
    BY <1>2, <1>4
  <2> HIDE DEF A
  <2>2. F[i][f[i - 1]] = Pick(f[i - 1], h[i], kinds)
    BY <1>3, <2>1
  <2>3. QED
    BY <1>4, <2>2
<1> HIDE DEF A
<1>6. Picks(h, kinds, f)
  BY <1>2, <1>4, <1>5 DEF Picks
<1> DEFINE g == CHOOSE x : Picks(h, kinds, x)
<1>7. Picks(h, kinds, g)
  BY <1>6
<1>8. Hist!Among(h, kinds) = g[n]
  BY DEF Hist!Among, Picks, Pick
<1> HIDE DEF g
<1>9. DOMAIN g = 0..n /\ g[0] = <<>> /\ \A i \in 1..n : g[i] = Pick(g[i - 1], h[i], kinds)
  <2>1. g = [i \in 0..n |-> IF i = 0 THEN <<>> ELSE Pick(g[i - 1], h[i], kinds)]
    BY <1>7 DEF Picks
  <2>2. DOMAIN g = 0..n
    BY <2>1
  <2>3. \A i \in 0..n : g[i] = IF i = 0 THEN <<>> ELSE Pick(g[i - 1], h[i], kinds)
    BY <2>1
  <2> HIDE DEF n
  <2>4. QED
    BY <1>2, <2>2, <2>3
<1> DEFINE S == {i \in 0..n : g[i] \in A}
<1>10. 0..n \subseteq S
  <2>1. 0 \in S
    BY <1>1, <1>2, <1>9
  <2>2. ASSUME NEW i \in 0..n - 1, i \in S PROVE i + 1 \in S
    <3>1. i + 1 \in 1..n /\ i + 1 \in 0..n /\ i + 1 - 1 = i
      BY <1>2
    <3>2. g[i + 1] = Pick(g[i], h[i + 1], kinds)
      BY <1>9, <3>1
    <3>3. g[i + 1] \in A
      BY <1>2, <2>2, <3>1, <3>2, PickStored DEF A
    <3>4. QED
      BY <3>1, <3>3
  <2> HIDE DEF S
  <2>3. QED
    BY <1>2, <2>1, <2>2, UpTo
<1>11. g \in [0..n -> A]
  <2>1. g = [i \in 0..n |-> g[i]]
    BY <1>7 DEF Picks
  <2>2. QED
    BY <1>10, <2>1
<1>12. QED
  BY <1>8, <1>9, <1>11 DEF A

LEMMA PrefixGrows ==
    ASSUME NEW h \in Seq(Stored), NEW i \in 0..Len(h) - 1
    PROVE  /\ SubSeq(h, 1, i) \in Seq(Stored) /\ h[i + 1] \in Stored
           /\ SubSeq(h, 1, i + 1) = Append(SubSeq(h, 1, i), h[i + 1])
<1>1. Len(h) \in Nat /\ i \in Nat /\ i + 1 \in 1..Len(h) /\ \A j \in 1..Len(h) : h[j] \in Stored
  OBVIOUS
<1>2. \A j \in 1..i : h[j] \in Stored
  BY <1>1
<1>3. SubSeq(h, 1, i) \in Seq(Stored) /\ Len(SubSeq(h, 1, i)) = i
  BY <1>1, <1>2
<1>4. SubSeq(h, 1, i + 1) \in Seq(Stored) /\ Len(SubSeq(h, 1, i + 1)) = i + 1
  BY <1>1
<1>5. /\ \A j \in 1..i : SubSeq(h, 1, i)[j] = h[j]
      /\ \A j \in 1..i + 1 : SubSeq(h, 1, i + 1)[j] = h[j]
  BY <1>1
<1> DEFINE p == SubSeq(h, 1, i)
           q == SubSeq(h, 1, i + 1)
<1> HIDE DEF p, q
<1>6. /\ p \in Seq(Stored) /\ Len(p) = i /\ q \in Seq(Stored) /\ Len(q) = i + 1
      /\ \A j \in 1..i : p[j] = h[j]
      /\ \A j \in 1..i + 1 : q[j] = h[j]
  BY <1>3, <1>4, <1>5 DEF p, q
<1>7. Append(p, h[i + 1]) \in Seq(Stored) /\ Len(Append(p, h[i + 1])) = i + 1
  BY <1>1, <1>6
<1>8. \A j \in 1..i + 1 : Append(p, h[i + 1])[j] = h[j]
  BY <1>1, <1>6
<1>9. q = Append(p, h[i + 1])
  BY <1>6, <1>7, <1>8, Same
<1>10. QED
  BY <1>1, <1>6, <1>9 DEF p, q

KeepsPrefix(h, f, i) == Keeps(SubSeq(h, 1, i), f[i], TRUE)

(* Plain messages may go: calls stay with their results. *)
LEMMA AmongKeeps ==
    ASSUME NEW h \in Seq(Stored), NEW kinds, {"calls", "result", "unfinished"} \subseteq kinds
    PROVE  Hist!Among(h, kinds) \in Seq(Stored) /\ Keeps(h, Hist!Among(h, kinds), TRUE)
<1> DEFINE n == Len(h)
<1>1. PICK f \in [0..n -> Seq(Stored)] :
        /\ f[0] = <<>> /\ Hist!Among(h, kinds) = f[n]
        /\ \A i \in 1..n : f[i] = Pick(f[i - 1], h[i], kinds)
  BY AmongPasses
<1>2. n \in Nat /\ n \in 0..n
  OBVIOUS
<1> DEFINE S == {i \in 0..n : KeepsPrefix(h, f, i)}
<1>3. 0 \in S
  <2>1. SubSeq(h, 1, 0) = <<>>
    <3>1. SubSeq(h, 1, 0) \in Seq(Stored) /\ Len(SubSeq(h, 1, 0)) = 0
      OBVIOUS
    <3> DEFINE e == SubSeq(h, 1, 0)
    <3> HIDE DEF e
    <3>2. e \in Seq(Stored) /\ Len(e) = 0
      BY <3>1 DEF e
    <3>3. e = <<>>
      BY <3>2
    <3>4. QED
      BY <3>3 DEF e
  <2>2. f[0] = SubSeq(h, 1, 0)
    BY <1>1, <2>1
  <2>3. Keeps(SubSeq(h, 1, 0), f[0], TRUE)
    BY <2>2, KeepsItself, Zenon
  <2>4. KeepsPrefix(h, f, 0)
    BY <2>3, Zenon DEF KeepsPrefix
  <2>5. 0 \in 0..n
    BY <1>2
  <2>6. QED
    BY <2>4, <2>5
<1>4. ASSUME NEW i \in 0..n - 1, i \in S PROVE i + 1 \in S
  <2>1. /\ SubSeq(h, 1, i) \in Seq(Stored) /\ h[i + 1] \in Stored
        /\ SubSeq(h, 1, i + 1) = Append(SubSeq(h, 1, i), h[i + 1])
    BY PrefixGrows
  <2>2. i + 1 \in 1..n /\ i + 1 \in 0..n /\ i + 1 - 1 = i
    BY <1>2
  <2>3. f[i + 1] = IF h[i + 1].kind \in kinds THEN Append(f[i], h[i + 1]) ELSE f[i]
    BY <1>1, <2>2 DEF Pick
  <2>4. f[i] \in Seq(Stored) /\ Keeps(SubSeq(h, 1, i), f[i], TRUE)
    BY <1>1, <1>4 DEF KeepsPrefix
  <2>5. CASE h[i + 1].kind \in kinds
    BY <2>1, <2>2, <2>3, <2>4, <2>5, BothGrow DEF KeepsPrefix
  <2>6. CASE h[i + 1].kind \notin kinds
    <3>1. IsPlain(h[i + 1])
      BY <2>6 DEF IsPlain, Hist!IsTool, IsCalls, Hist!Tools
    <3>2. QED
      BY <2>1, <2>2, <2>3, <2>4, <2>6, <3>1, OneGrows DEF KeepsPrefix
  <2>7. QED
    BY <2>5, <2>6
<1>5. n \in S
  <2> HIDE DEF S
  <2>1. 0..n \subseteq S
    BY <1>2, <1>3, <1>4, UpTo
  <2>2. QED
    BY <1>2, <2>1
<1>6. SubSeq(h, 1, n) = h
  <2>1. SubSeq(h, 1, n) \in Seq(Stored) /\ Len(SubSeq(h, 1, n)) = n - 1 + 1
        /\ \A i \in 1..Len(SubSeq(h, 1, n)) : SubSeq(h, 1, n)[i] = h[i + 1 - 1]
    BY <1>2, SuffixIs
  <2>2. \A i \in 1..n : SubSeq(h, 1, n)[i] = h[i]
    BY <1>2, <2>1
  <2>3. QED
    BY <1>2, <2>1, <2>2, Same
<1>7. QED
  BY <1>1, <1>2, <1>5, <1>6 DEF KeepsPrefix

LEMMA AmongPlain ==
    ASSUME NEW h \in Seq(Stored), NEW kinds, \A m : m.kind \in kinds => IsPlain(m)
    PROVE  Hist!Among(h, kinds) \in Seq(Stored)
           /\ \A k \in 1..Len(Hist!Among(h, kinds)) : IsPlain(Hist!Among(h, kinds)[k])
<1> DEFINE n == Len(h)
<1>1. PICK f \in [0..n -> Seq(Stored)] :
        /\ f[0] = <<>> /\ Hist!Among(h, kinds) = f[n]
        /\ \A i \in 1..n : f[i] = Pick(f[i - 1], h[i], kinds)
  BY AmongPasses
<1>2. n \in Nat /\ n \in 0..n
  OBVIOUS
<1> DEFINE S == {i \in 0..n : \A k \in 1..Len(f[i]) : IsPlain(f[i][k])}
<1>3. 0 \in S
  BY <1>1, <1>2
<1>4. ASSUME NEW i \in 0..n - 1, i \in S PROVE i + 1 \in S
  <2>1. i + 1 \in 1..n /\ i + 1 \in 0..n /\ i + 1 - 1 = i /\ h[i + 1] \in Stored
    BY <1>2
  <2>2. f[i + 1] = IF h[i + 1].kind \in kinds THEN Append(f[i], h[i + 1]) ELSE f[i]
    BY <1>1, <2>1 DEF Pick
  <2>3. f[i] \in Seq(Stored) /\ \A k \in 1..Len(f[i]) : IsPlain(f[i][k])
    BY <1>1, <1>4
  <2>4. CASE h[i + 1].kind \in kinds
    <3>1. IsPlain(h[i + 1])
      BY <2>4
    <3>2. \A k \in 1..Len(Append(f[i], h[i + 1])) : IsPlain(Append(f[i], h[i + 1])[k])
      BY <2>1, <2>3, <3>1, AppendStored
    <3>3. QED
      BY <2>1, <2>2, <2>4, <3>2
  <2>5. CASE h[i + 1].kind \notin kinds
    BY <2>1, <2>2, <2>3, <2>5
  <2>6. QED
    BY <2>4, <2>5
<1>5. n \in S
  <2> HIDE DEF S
  <2>1. 0..n \subseteq S
    BY <1>2, <1>3, <1>4, UpTo
  <2>2. QED
    BY <1>2, <2>1
<1>6. QED
  BY <1>1, <1>2, <1>5

-----------------------------------------------------------------------------
(* Memory: what its operations keep. *)

LEMMA PlainIs ==
    ASSUME NEW k \in Hist!Kinds \ {"calls", "result", "unfinished"}, NEW z \in Nat
    PROVE  /\ Hist!Plain(k, z) \in Stored /\ IsPlain(Hist!Plain(k, z)) /\ Hist!Plain(k, z).kind = k
<1>1. Hist!Plain(k, z) = [kind |-> k, ids |-> <<>>, size |-> z]
  BY DEF Hist!Plain, Hist!Message
<1>2. <<>> \in Seq(CallIds)
  OBVIOUS
<1>3. QED
  BY <1>1, <1>2 DEF Stored, Msgs, IsPlain, Hist!IsTool, IsCalls, Hist!Tools

LEMMA ResultIs ==
    ASSUME NEW c \in CallIds, NEW z \in Nat
    PROVE  Hist!ResultOf(c, z) \in Stored /\ Hist!IsTool(Hist!ResultOf(c, z)) /\ Hist!ResultOf(c, z).ids = <<c>>
<1>1. Hist!ResultOf(c, z) = [kind |-> "result", ids |-> <<c>>, size |-> z]
  BY DEF Hist!ResultOf, Hist!Message
<1>2. <<c>> \in Seq(CallIds) /\ Len(<<c>>) = 1
  OBVIOUS
<1>3. QED
  BY <1>1, <1>2 DEF Stored, Msgs, Hist!IsTool, IsCalls, Hist!Tools, Hist!Kinds

LEMMA FromKeeps ==
    ASSUME NEW h \in Seq(Stored), NEW starts, starts \subseteq 1..Len(h)
    PROVE  Hist!From(h, starts) \in Seq(Stored) /\ Keeps(h, Hist!From(h, starts), TRUE)
<1>1. CASE starts = {}
  <2>1. Hist!From(h, starts) = <<>>
    BY <1>1 DEF Hist!From
  <2>2. <<>> \in Seq(Stored) /\ Len(<<>>) = 0 /\ DOMAIN <<>> = {}
    OBVIOUS
  <2>3. QED
    BY <2>1, <2>2 DEF Keeps, Hist!HasResult, Unique
<1>2. CASE starts # {}
  <2>1. starts \subseteq Nat
    OBVIOUS
  <2>2. Hist!Min(starts) \in 1..Len(h)
    BY <1>2, <2>1, MinIs
  <2>3. Hist!Min(starts) \in 1..Len(h) + 1
    BY <2>2
  <2>4. QED
    BY <1>2, <2>3, SuffixKeeps DEF Hist!From
<1>3. QED
  BY <1>1, <1>2

LEMMA MaxOfTwo ==
    ASSUME NEW x \in Int
    PROVE  Hist!Max({1, x}) = IF x >= 1 THEN x ELSE 1
<1> DEFINE m == IF x >= 1 THEN x ELSE 1
<1>1. m \in {1, x} /\ \A y \in {1, x} : m >= y
  OBVIOUS
<1>2. \A k \in {1, x} : (\A y \in {1, x} : k >= y) => k = m
  OBVIOUS
<1> HIDE DEF m
<1>3. Hist!Max({1, x}) = m
  BY <1>1, <1>2 DEF Hist!Max
<1>4. QED
  BY <1>3 DEF m

LEMMA NewestKeeps ==
    ASSUME NEW h \in Seq(Stored), NEW n \in Nat \ {0}
    PROVE  Hist!Newest(h, n) \in Seq(Stored) /\ Keeps(h, Hist!Newest(h, n), TRUE)
<1>1. Len(h) \in Nat
  OBVIOUS
<1>2. Hist!Max({1, Len(h) - n + 1}) \in 1..Len(h) + 1
  BY <1>1, MaxOfTwo
<1>3. QED
  BY <1>2, SuffixKeeps DEF Hist!Newest

LEMMA PinnedIs ==
    ASSUME NEW h \in Seq(Stored)
    PROVE  Hist!Pinned(h) \in Seq(Stored) /\ \A i \in 1..Len(Hist!Pinned(h)) : IsPlain(Hist!Pinned(h)[i])
<1> DEFINE s == Hist!Among(h, Hist!Systems)
<1>1. \A m : m.kind \in Hist!Systems => IsPlain(m)
  BY DEF Hist!Systems, IsPlain, Hist!IsTool, IsCalls, Hist!Tools
<1>2. s \in Seq(Stored) /\ \A k \in 1..Len(s) : IsPlain(s[k])
  BY <1>1, AmongPlain
<1> HIDE DEF s
<1>3. CASE Len(s) <= 1
  BY <1>2, <1>3 DEF Hist!Pinned, s
<1>4. CASE ~(Len(s) <= 1)
  <2>1. Len(s) \in Nat /\ s[1] \in Stored /\ s[Len(s)] \in Stored
        /\ IsPlain(s[1]) /\ IsPlain(s[Len(s)])
    BY <1>2, <1>4
  <2>2. <<s[1], s[Len(s)]>> \in Seq(Stored) /\ Len(<<s[1], s[Len(s)]>>) = 2
        /\ <<s[1], s[Len(s)]>>[1] = s[1] /\ <<s[1], s[Len(s)]>>[2] = s[Len(s)]
    BY <2>1
  <2>3. \A i \in 1..2 : IsPlain(<<s[1], s[Len(s)]>>[i])
    BY <2>1, <2>2
  <2>4. Hist!Pinned(h) = <<s[1], s[Len(s)]>>
    BY <1>4 DEF Hist!Pinned, s
  <2>5. QED
    BY <2>2, <2>3, <2>4
<1>5. QED
  BY <1>3, <1>4

LEMMA TrimKeeps ==
    ASSUME Hist!HistoryAssumption, NEW h \in Seq(Stored)
    PROVE  Hist!Trim(h) \in Seq(Stored) /\ Keeps(h, Hist!Trim(h), TRUE)
<1> DEFINE head == Hist!Pinned(h)
           body == Hist!Without(h, Hist!Systems)
           n == Hist!Max({1, MaxMessages - Len(head)})
           new == Hist!Newest(body, n)
           window == Hist!Window(new)
           starts == {i \in DOMAIN window :
                        Hist!Opens(window, i) /\ ~Hist!Exceeds(head \o SubSeq(window, i, Len(window)))}
           rest == Hist!From(window, starts)
<1>1. Hist!Trim(h) = h \/ Hist!Trim(h) = head \o rest
  BY DEF Hist!Trim, Hist!Fit
<1>2. head \in Seq(Stored) /\ \A i \in 1..Len(head) : IsPlain(head[i])
  BY PinnedIs
<1> HIDE DEF head
<1>3. body \in Seq(Stored) /\ Keeps(h, body, TRUE)
  <2>1. {"calls", "result", "unfinished"} \subseteq Hist!Kinds \ Hist!Systems
    BY DEF Hist!Kinds, Hist!Systems, Hist!Tools
  <2>2. QED
    BY <2>1, AmongKeeps DEF Hist!Without
<1>4. n \in Nat \ {0}
  <2>1. MaxMessages - Len(head) \in Int
    BY <1>2 DEF Hist!HistoryAssumption
  <2>2. QED
    BY <2>1, MaxOfTwo
<1> HIDE DEF body, n
<1>5. new \in Seq(Stored) /\ Keeps(body, new, TRUE)
  BY <1>3, <1>4, NewestKeeps
<1> HIDE DEF new
<1>6. window \in Seq(Stored) /\ Keeps(new, window, TRUE)
  <2>1. {i \in DOMAIN new : Hist!Opens(new, i)} \subseteq 1..Len(new)
    BY <1>5
  <2>2. QED
    BY <1>5, <2>1, FromKeeps DEF Hist!Window
<1> HIDE DEF window
<1>7. rest \in Seq(Stored) /\ Keeps(window, rest, TRUE)
  <2>1. starts \subseteq 1..Len(window)
    BY <1>6
  <2> HIDE DEF starts
  <2>2. QED
    BY <1>6, <2>1, FromKeeps
<1> HIDE DEF rest
<1>8. head \o rest \in Seq(Stored) /\ Keeps(rest, head \o rest, TRUE)
  BY <1>2, <1>7, HeadKeeps
<1>9. Keeps(h, head \o rest, TRUE)
  <2>1. Keeps(h, new, TRUE)
    BY <1>3, <1>5, KeepsOnward
  <2>2. Keeps(h, window, TRUE)
    BY <1>6, <2>1, KeepsOnward
  <2>3. Keeps(h, rest, TRUE)
    BY <1>7, <2>2, KeepsOnward
  <2>4. QED
    BY <1>8, <2>3, KeepsOnward
<1>10. QED
  BY <1>1, <1>8, <1>9, KeepsItself

LEMMA AddPlain ==
    ASSUME Hist!HistoryAssumption, NEW h \in Seq(Stored), NEW m \in Stored, IsPlain(m)
    PROVE  Hist!Add(h, m) \in Seq(Stored) /\ Keeps(h, Hist!Add(h, m), FALSE)
<1>1. Append(h, m) \in Seq(Stored) /\ Keeps(h, Append(h, m), FALSE)
  BY PlainKeeps
<1>2. Hist!Trim(Append(h, m)) \in Seq(Stored) /\ Keeps(Append(h, m), Hist!Trim(Append(h, m)), FALSE)
  BY <1>1, TrimKeeps, KeepsLess
<1>3. QED
  BY <1>1, <1>2, AnswersOnward DEF Hist!Add

LEMMA ReplaceKeeps ==
    ASSUME Hist!HistoryAssumption, NEW h \in Seq(Stored), NEW m \in Stored, IsPlain(m)
    PROVE  Hist!Replace(h, m) \in Seq(Stored) /\ Keeps(h, Hist!Replace(h, m), FALSE)
<1> DEFINE S == {i \in DOMAIN h : h[i].kind = m.kind}
           k == Hist!Min(S)
           g == [h EXCEPT ![k] = m]
<1>1. CASE S = {}
  <2>1. Hist!Replace(h, m) = Hist!Add(h, m)
    BY <1>1 DEF Hist!Replace
  <2>2. QED
    BY <2>1, AddPlain
<1>2. CASE S # {}
  <2>1. Hist!Replace(h, m) = g
    BY <1>2 DEF Hist!Replace
  <2>2. S \subseteq Nat /\ DOMAIN h = 1..Len(h)
    OBVIOUS
  <2>3. k \in S
    BY <1>2, <2>2, MinIs
  <2>4. k \in 1..Len(h) /\ h[k].kind = m.kind
    BY <2>2, <2>3
  <2> HIDE DEF k
  <2>5. g \in Seq(Stored) /\ Len(g) = Len(h) /\ g[k] = m /\ \A i \in 1..Len(h) : i # k => g[i] = h[i]
    BY <2>4
  <2>6. ~Hist!IsTool(h[k])
    BY <2>4 DEF IsPlain, Hist!IsTool
  <2> HIDE DEF g
  <2>7. Keeps(h, g, TRUE)
    BY <2>5, <2>6, SamePlacesKeep
  <2>8. QED
    BY <2>1, <2>5, <2>7, KeepsLess
<1>3. QED
  BY <1>1, <1>2

LEMMA LeadingIs ==
    ASSUME NEW h \in Seq(Stored)
    PROVE  /\ Hist!Leading(h) \in 0..Len(h)
           /\ \A i \in 1..Hist!Leading(h) : IsPlain(h[i])
<1> DEFINE S == {i \in 1..Len(h) + 1 : i > Len(h) \/ ~Hist!IsSystem(h[i])}
<1>1. Len(h) \in Nat
  OBVIOUS
<1>2. S \subseteq Nat /\ Len(h) + 1 \in S
  BY <1>1
<1> DEFINE k == Hist!Min(S)
<1>3. k \in S /\ \A y \in S : k <= y
  BY <1>2, MinIs
<1>4. Hist!Leading(h) = k - 1
  BY DEF Hist!Leading
<1>5. k \in 1..Len(h) + 1
  BY <1>3
<1>6. ASSUME NEW i \in 1..k - 1 PROVE IsPlain(h[i])
  <2>1. i \in 1..Len(h) + 1 /\ ~(k <= i)
    BY <1>1, <1>5
  <2>2. Hist!IsSystem(h[i])
    BY <1>3, <2>1
  <2>3. QED
    BY <2>2 DEF Hist!IsSystem, Hist!Systems, IsPlain, Hist!IsTool, IsCalls, Hist!Tools
<1> HIDE DEF k
<1>7. QED
  BY <1>1, <1>4, <1>5, <1>6

LEMMA RepairedKeeps ==
    ASSUME NEW h \in Seq(Stored)
    PROVE  Hist!Repaired(h) \in Seq(Stored) /\ Keeps(h, Hist!Repaired(h), TRUE)
<1> DEFINE kept == Hist!From(h, {i \in DOMAIN h : ~Hist!IsTool(h[i])})
           n == Len(kept)
           last == Hist!Plain("text", kept[n].size)
           g == [kept EXCEPT ![n] = last]
<1>1. kept \in Seq(Stored) /\ Keeps(h, kept, TRUE)
  <2>1. {i \in DOMAIN h : ~Hist!IsTool(h[i])} \subseteq 1..Len(h)
    OBVIOUS
  <2>2. QED
    BY <2>1, FromKeeps
<1>2. Hist!Repaired(h) = kept \/ (n > 0 /\ kept[n].kind = "calls" /\ Hist!Repaired(h) = g)
  BY DEF Hist!Repaired
<1> HIDE DEF kept
<1>3. CASE n > 0 /\ kept[n].kind = "calls" /\ Hist!Repaired(h) = g
  <2>1. n \in 1..Len(kept) /\ kept[n] \in Stored
    BY <1>1, <1>3
  <2>2. last \in Stored /\ IsPlain(last)
    <3>1. kept[n].size \in Nat
      BY <2>1 DEF Stored, Msgs
    <3>2. "text" \in Hist!Kinds \ {"calls", "result", "unfinished"}
      BY DEF Hist!Kinds, Hist!Systems, Hist!Tools
    <3>3. QED
      BY <3>1, <3>2, PlainIs
  <2>3. ~Hist!IsTool(kept[n])
    BY <1>3 DEF Hist!IsTool, Hist!Tools
  <2> HIDE DEF last
  <2>4. g \in Seq(Stored) /\ Len(g) = Len(kept) /\ g[n] = last
        /\ \A i \in 1..Len(kept) : i # n => g[i] = kept[i]
    BY <1>1, <2>1, <2>2
  <2> HIDE DEF g, n
  <2>5. \A i \in 1..Len(kept) : g[i] = kept[i] \/ (IsPlain(g[i]) /\ ~Hist!IsTool(kept[i]))
    BY <2>2, <2>3, <2>4
  <2>6. Keeps(kept, g, TRUE)
    BY <1>1, <2>4, <2>5, SamePlacesKeep
  <2>7. QED
    BY <1>1, <1>3, <2>4, <2>6, KeepsOnward
<1>4. QED
  BY <1>1, <1>2, <1>3

LEMMA CompactedKeeps ==
    ASSUME Hist!HistoryAssumption, NEW h \in Seq(Stored)
    PROVE  Hist!Compacted(h) \in Seq(Stored) /\ Keeps(h, Hist!Compacted(h), TRUE)
<1> DEFINE n == Hist!Leading(h)
           head == SubSeq(h, 1, n)
           m == Hist!Plain("state", 1)
           p == head \o <<m>>
           new == Hist!Newest(h, KeepLast)
           rest == Hist!Repaired(new)
<1>1. n \in 0..Len(h) /\ \A i \in 1..n : IsPlain(h[i])
  BY LeadingIs
<1> HIDE DEF n
<1>2. head \in Seq(Stored) /\ Len(head) = n /\ \A i \in 1..n : head[i] = h[i]
  BY <1>1
<1> HIDE DEF head
<1>3. m \in Stored /\ IsPlain(m)
  BY PlainIs DEF Hist!Kinds, Hist!Systems, Hist!Tools
<1> HIDE DEF m
<1>4. p \in Seq(Stored) /\ \A i \in 1..Len(p) : IsPlain(p[i])
  <2>1. <<m>> \in Seq(Stored) /\ Len(<<m>>) = 1 /\ <<m>>[1] = m
    BY <1>3
  <2>2. p \in Seq(Stored) /\ Len(p) = n + 1 /\ p[n + 1] = m /\ \A i \in 1..n : p[i] = head[i]
    BY <1>1, <1>2, <2>1, Concat
  <2> HIDE DEF p
  <2>3. \A i \in 1..Len(p) : i \in 1..n \/ i = n + 1
    BY <1>1, <2>2
  <2>4. QED
    BY <1>1, <1>2, <1>3, <2>2, <2>3
<1> HIDE DEF p
<1>5. new \in Seq(Stored) /\ Keeps(h, new, TRUE)
  BY NewestKeeps DEF Hist!HistoryAssumption
<1> HIDE DEF new
<1>6. rest \in Seq(Stored) /\ Keeps(new, rest, TRUE)
  BY <1>5, RepairedKeeps
<1> HIDE DEF rest
<1>7. p \o rest \in Seq(Stored) /\ Keeps(rest, p \o rest, TRUE)
  BY <1>4, <1>6, HeadKeeps
<1>8. Keeps(h, p \o rest, TRUE)
  BY <1>5, <1>6, <1>7, KeepsOnward
<1>9. Hist!Compacted(h) = p \o rest
  BY DEF Hist!Compacted, p, head, m, n, new, rest
<1>10. QED
  BY <1>7, <1>8, <1>9

LEMMA HintedKeeps ==
    ASSUME Hist!HistoryAssumption, NEW h \in Seq(Stored)
    PROVE  Hist!Hinted(h) \in Seq(Stored) /\ Keeps(h, Hist!Hinted(h), FALSE)
<1>1. CASE chat
  BY <1>1, KeepsItself DEF Hist!Hinted
<1>2. CASE ~chat
  <2> DEFINE g == Hist!Without(h, {"hint"})
             m == Hist!Plain("hint", 1)
  <2>1. g \in Seq(Stored) /\ Keeps(h, g, TRUE)
    <3>1. {"calls", "result", "unfinished"} \subseteq Hist!Kinds \ {"hint"}
      BY DEF Hist!Kinds, Hist!Systems, Hist!Tools
    <3>2. QED
      BY <3>1, AmongKeeps DEF Hist!Without
  <2>2. m \in Stored /\ IsPlain(m)
    BY PlainIs DEF Hist!Kinds, Hist!Systems, Hist!Tools
  <2>3. Hist!Hinted(h) = Hist!Add(g, m)
    BY <1>2 DEF Hist!Hinted
  <2> HIDE DEF g, m
  <2>4. Hist!Add(g, m) \in Seq(Stored) /\ Keeps(g, Hist!Add(g, m), FALSE)
    BY <2>1, <2>2, AddPlain
  <2>5. QED
    BY <2>1, <2>3, <2>4, KeepsLess, AnswersOnward
<1>3. QED
  BY <1>1, <1>2

LEMMA AutoCompactedKeeps ==
    ASSUME Hist!HistoryAssumption, NEW h \in Seq(Stored)
    PROVE  Hist!AutoCompacted(h) \in Seq(Stored) /\ Keeps(h, Hist!AutoCompacted(h), FALSE)
<1>1. Hist!AutoCompacted(h) = Hist!Compacted(h) \/ Hist!AutoCompacted(h) = h
  BY DEF Hist!AutoCompacted
<1>2. QED
  BY <1>1, CompactedKeeps, KeepsLess, KeepsItself

-----------------------------------------------------------------------------
(* What the operations make of a sound memory. *)

LEMMA PlainSound ==
    ASSUME Hist!HistoryAssumption, NEW K, NEW P, NEW A, NEW h, Sound(h, K, P, A, {}),
           NEW m \in Stored, IsPlain(m)
    PROVE  Sound(Hist!Add(h, m), K, P, A, {})
<1>1. h \in Seq(Stored)
  BY DEF Sound
<1>2. QED
  BY <1>1, AddPlain, AnswersSound

LEMMA ReplaceSound ==
    ASSUME Hist!HistoryAssumption, NEW K, NEW P, NEW A, NEW h, Sound(h, K, P, A, {}),
           NEW m \in Stored, IsPlain(m)
    PROVE  Sound(Hist!Replace(h, m), K, P, A, {})
<1>1. h \in Seq(Stored)
  BY DEF Sound
<1>2. QED
  BY <1>1, ReplaceKeeps, AnswersSound

LEMMA CompactedSound ==
    ASSUME Hist!HistoryAssumption, NEW K, NEW P, NEW A, NEW h, Sound(h, K, P, A, {})
    PROVE  Sound(Hist!Compacted(h), K, P, A, {})
<1>1. h \in Seq(Stored)
  BY DEF Sound
<1>2. QED
  BY <1>1, CompactedKeeps, KeepsLess, AnswersSound

LEMMA ThoughtSound ==
    ASSUME Hist!HistoryAssumption, NEW K, NEW P, NEW A, NEW h, Sound(h, K, P, A, {})
    PROVE  Sound(Hist!AutoCompacted(Hist!Hinted(h)), K, P, A, {})
<1>1. h \in Seq(Stored)
  BY DEF Sound
<1>2. Sound(Hist!Hinted(h), K, P, A, {}) /\ Hist!Hinted(h) \in Seq(Stored)
  BY <1>1, HintedKeeps, AnswersSound
<1>3. QED
  BY <1>2, AutoCompactedKeeps, AnswersSound

LEMMA ResultSound ==
    ASSUME Hist!HistoryAssumption, NEW K, NEW P, NEW A, NEW O, NEW h, Sound(h, K, P, A, O),
           NEW c \in CallIds, c \in K, c \in O \union P, NEW z \in Nat
    PROVE  Sound(Hist!Add(h, Hist!ResultOf(c, z)), K, P, A \union ({c} \ P), O)
<1> DEFINE r == Hist!ResultOf(c, z)
           g == Append(h, r)
           more == A \union ({c} \ P)
<1>1. h \in Seq(Stored) /\ r \in Stored /\ Hist!IsTool(r) /\ r.ids = <<c>> /\ ~IsCalls(r)
  BY ResultIs DEF Sound, Hist!IsTool, IsCalls, Hist!Tools
<1>2. \A x : <<c>> = <<x>> => c = x
  OBVIOUS
<1> HIDE DEF r
<1>3. g \in Seq(Stored) /\ Unique(g)
  BY <1>1, AppendStored, AppendUnique DEF Sound
<1>4. ASSUME NEW x, HasCall(g, x) \/ Hist!HasResult(g, x) PROVE x \in K
  BY <1>1, <1>2, <1>4, AppendCalls, AppendResult DEF Sound
<1>5. ASSUME NEW b \in 1..Len(g), IsCalls(g[b]), NEW x, Within(g[b].ids, x)
      PROVE  Answers(g, b, x, P, more, O)
  <2>1. b \in 1..Len(h) /\ g[b] = h[b]
    BY <1>1, <1>5, AppendStored
  <2>2. Answers(h, b, x, P, A, O)
    BY <1>5, <2>1 DEF Sound
  <2>3. HasAnswer(h, b, x) => HasAnswer(g, b, x)
    BY <1>1, <2>1, AppendAnswered
  <2>4. OpenAt(h, b) => OpenAt(g, b) /\ HasAnswer(g, b, c)
    BY <1>1, <2>1, AppendOpen, AppendAnswered
  <2>5. Hist!HasResult(g, x) => Hist!HasResult(h, x) \/ x = c
    BY <1>1, <1>2, AppendResult
  <2>6. x = c /\ c \notin P => HasAnswer(g, b, x)
    BY <2>2, <2>3, <2>4 DEF Answers
  <2> HIDE DEF g
  <2>7. QED
    BY <2>2, <2>3, <2>4, <2>5, <2>6 DEF Answers
<1> HIDE DEF more
<1>6. Sound(g, K, P, more, O)
  BY <1>3, <1>4, <1>5 DEF Sound
<1> HIDE DEF g
<1>7. Sound(Hist!Trim(g), K, P, more, O)
  BY <1>3, <1>6, TrimKeeps, KeepsSound
<1>8. QED
  BY <1>7 DEF Hist!Add, g, r, more

LEMMA CallsSound ==
    ASSUME Hist!HistoryAssumption, NEW K, NEW P, NEW A, NEW h, Sound(h, K, P, A, {}), A \subseteq K,
           NEW m \in Stored, IsCalls(m), NEW K2, K \subseteq K2,
           \A c : Within(m.ids, c) => c \in K2 \ K
    PROVE  Sound(Hist!Add(h, m), K2, P, A, {})
<1> DEFINE g == Append(h, m)
           n == Len(h) + 1
<1>1. h \in Seq(Stored) /\ ~Hist!IsTool(m)
  BY DEF Sound, Hist!IsTool, IsCalls, Hist!Tools
<1>2. g \in Seq(Stored) /\ Unique(g)
  <2>1. \A c : ~(Within(m.ids, c) /\ HasCall(h, c))
    BY DEF Sound
  <2>2. QED
    BY <1>1, <2>1, AppendStored, AppendUnique DEF Sound
<1>3. ASSUME NEW x, HasCall(g, x) \/ Hist!HasResult(g, x) PROVE x \in K2
  BY <1>1, <1>3, AppendCalls, AppendResult DEF Sound
<1>4. \A x : Hist!HasResult(g, x) => Hist!HasResult(h, x) /\ x \in K
  BY <1>1, AppendResult DEF Sound
<1>5. ASSUME NEW b \in 1..Len(g), IsCalls(g[b]), NEW x, Within(g[b].ids, x)
      PROVE  Answers(g, b, x, P, A, {})
  <2>1. CASE b \in 1..Len(h)
    <3>1. g[b] = h[b]
      BY <1>1, <2>1, AppendStored
    <3>2. Answers(h, b, x, P, A, {})
      BY <1>5, <2>1, <3>1 DEF Sound
    <3>3. HasAnswer(h, b, x) => HasAnswer(g, b, x)
      BY <1>1, <2>1, AppendAnswered
    <3> HIDE DEF g
    <3>4. QED
      BY <1>4, <3>2, <3>3 DEF Answers
  <2>2. CASE b = n
    <3>1. g[b] = m
      BY <1>1, <2>2, AppendStored
    <3>2. x \notin K
      BY <1>5, <3>1
    <3> HIDE DEF g
    <3>3. QED
      BY <1>4, <3>2 DEF Answers
  <2>3. QED
    BY <1>1, <2>1, <2>2, AppendStored
<1> HIDE DEF n
<1>6. Sound(g, K2, P, A, {})
  BY <1>2, <1>3, <1>5 DEF Sound
<1> HIDE DEF g
<1>7. Sound(Hist!Trim(g), K2, P, A, {})
  BY <1>2, <1>6, TrimKeeps, KeepsSound
<1>8. QED
  BY <1>7 DEF Hist!Add, g


(* One more of the results that a cancelled run leaves. *)
Given(h, c, some) == IF c \in some THEN Hist!Add(h, Hist!ResultOf(c, 0)) ELSE h

Gives(h, cs, some, f) ==
    f = [i \in 0..Len(cs) |-> IF i = 0 THEN h ELSE Given(f[i - 1], cs[i], some)]

LEMMA WithResultsStays ==
    ASSUME NEW G, NEW h \in G, NEW cs \in Seq(CallIds), NEW some,
           \A g \in G : \A i \in 1..Len(cs) : Given(g, cs[i], some) \in G
    PROVE  Hist!WithResults(h, cs, some) \in G
<1> DEFINE F == [i \in 1..Len(cs) |-> [g \in G |-> Given(g, cs[i], some)]]
           n == Len(cs)
<1>1. n \in Nat
  OBVIOUS
<1>2. F \in [1..n -> [G -> G]] /\ \A i \in 1..n : \A g \in G : F[i][g] = Given(g, cs[i], some)
  OBVIOUS
<1> HIDE DEF F
<1>3. PICK f \in [0..n -> G] : f[0] = h /\ \A i \in 1..n : f[i] = F[i][f[i - 1]]
  <2> HIDE DEF n
  <2>1. Recursive(n, G, h, F)
    BY <1>1, <1>2, Recursion
  <2>2. QED
    BY <2>1 DEF Recursive
<1>4. \A i \in 1..n : f[i] = Given(f[i - 1], cs[i], some)
  <2> SUFFICES ASSUME NEW i \in 1..n PROVE f[i] = Given(f[i - 1], cs[i], some)
    OBVIOUS
  <2>1. f[i - 1] \in G
    BY <1>1, <1>3
  <2>2. QED
    BY <1>2, <1>3, <2>1
<1>5. Gives(h, cs, some, f)
  BY <1>1, <1>3, <1>4 DEF Gives
<1> DEFINE g == CHOOSE x : Gives(h, cs, some, x)
<1>6. Gives(h, cs, some, g)
  BY <1>5
<1>7. Hist!WithResults(h, cs, some) = g[n]
  BY DEF Hist!WithResults, Gives, Given
<1> HIDE DEF g
<1>8. g[0] = h /\ \A i \in 1..n : g[i] = Given(g[i - 1], cs[i], some)
  <2>1. g = [i \in 0..n |-> IF i = 0 THEN h ELSE Given(g[i - 1], cs[i], some)]
    BY <1>6 DEF Gives
  <2>2. \A i \in 0..n : g[i] = IF i = 0 THEN h ELSE Given(g[i - 1], cs[i], some)
    BY <2>1
  <2> HIDE DEF n
  <2>3. QED
    BY <1>1, <2>2
<1> DEFINE S == {i \in 0..n : g[i] \in G}
<1>9. 0..n \subseteq S
  <2>1. 0 \in S
    BY <1>1, <1>8
  <2>2. ASSUME NEW i \in 0..n - 1, i \in S PROVE i + 1 \in S
    <3>1. i + 1 \in 1..n /\ i + 1 \in 0..n /\ i + 1 - 1 = i
      BY <1>1
    <3>2. g[i + 1] = Given(g[i], cs[i + 1], some)
      BY <1>8, <3>1
    <3>3. QED
      BY <2>2, <3>1, <3>2
  <2> HIDE DEF S
  <2>3. QED
    BY <1>1, <2>1, <2>2, UpTo
<1>10. QED
  BY <1>1, <1>7, <1>9

LEMMA WithResultsSound ==
    ASSUME Hist!HistoryAssumption, NEW K, NEW P, NEW A, NEW h, Sound(h, K, P, A, {}),
           NEW cs \in Seq(CallIds), \A c : Within(cs, c) => c \in K /\ c \in P,
           NEW some
    PROVE  Sound(Hist!WithResults(h, cs, some), K, P, A, {})
<1> DEFINE G == {g \in Seq(Stored) : Sound(g, K, P, A, {})}
           r == Hist!WithResults(h, cs, some)
<1>1. h \in G
  BY DEF Sound
<1>2. \A i \in 1..Len(cs) : cs[i] \in CallIds /\ cs[i] \in K /\ cs[i] \in P
  BY DEF Within
<1>3. ASSUME NEW g \in G, NEW i \in 1..Len(cs) PROVE Given(g, cs[i], some) \in G
  <2>1. CASE cs[i] \in some
    <3>1. Given(g, cs[i], some) = Hist!Add(g, Hist!ResultOf(cs[i], 0))
      BY <2>1 DEF Given
    <3>2. Sound(Hist!Add(g, Hist!ResultOf(cs[i], 0)), K, P, A \union ({cs[i]} \ P), {})
      BY <1>2, ResultSound
    <3>3. A \union ({cs[i]} \ P) = A
      BY <1>2
    <3>4. Sound(Hist!Add(g, Hist!ResultOf(cs[i], 0)), K, P, A, {})
      BY <3>2, <3>3
    <3>5. QED
      BY <3>1, <3>4 DEF Sound
  <2>2. CASE cs[i] \notin some
    BY <2>2 DEF Given
  <2>3. QED
    BY <2>1, <2>2
<1>4. r \in G
  <2>1. \A g \in G : \A i \in 1..Len(cs) : Given(g, cs[i], some) \in G
    BY <1>3
  <2> HIDE DEF G
  <2>2. QED
    BY <1>1, <2>1, WithResultsStays
<1> HIDE DEF r
<1>5. QED
  BY <1>4 DEF r

-----------------------------------------------------------------------------
(* The calls that sanitize_tool_history says are unfinished have no result  *)
(* among those behind their message.                                        *)

Unmet(h, n, c) ==
    \E b \in 1..n : IsCalls(h[b]) /\ Within(h[b].ids, c) /\ ~HasAnswer(h, b, c)

Tells(h, n, out) ==
    \A j \in 1..Len(out) : out[j].kind = "unfinished" => Unmet(h, n, out[j].ids[1])

Distinct(p) == \A j, k \in 1..Len(p) : p[j] = p[k] => j = k

PendingAt(h, b, n, p) ==
    /\ IsCalls(h[b]) /\ \A j \in b + 1..n : Hist!IsTool(h[j])
    /\ \A l \in 1..Len(p) : Within(h[b].ids, p[l]) /\ \A k \in b + 1..n : h[k].ids # <<p[l]>>

Pends(h, n, p) == Distinct(p) /\ (Len(p) > 0 => \E b \in 1..n : PendingAt(h, b, n, p))

LEMMA UnmetAtTheEnd ==
    ASSUME NEW h \in Seq(Stored), NEW n \in 0..Len(h), n < Len(h) => ~Hist!IsTool(h[n + 1]),
           NEW p \in Seq(CallIds), NEW b \in 1..n, PendingAt(h, b, n, p), NEW l \in 1..Len(p)
    PROVE  Unmet(h, n, p[l])
<1> SUFFICES ASSUME HasAnswer(h, b, p[l]) PROVE FALSE
  BY DEF Unmet, PendingAt
<1>1. PICK k \in b + 1..Len(h) : h[k].ids = <<p[l]>> /\ \A j \in b + 1..k : Hist!IsTool(h[j])
  BY DEF HasAnswer
<1>2. Len(h) \in Nat
  OBVIOUS
<1>3. ~(k \in b + 1..n)
  BY <1>1 DEF PendingAt
<1>4. k > n /\ n + 1 \in b + 1..k /\ n < Len(h)
  BY <1>2, <1>3
<1>5. QED
  BY <1>1, <1>4

LEMMA FlushTells ==
    ASSUME NEW h \in Seq(Stored), NEW n \in 0..Len(h), n < Len(h) => ~Hist!IsTool(h[n + 1]),
           NEW acc \in Accs, Tells(h, n, acc.out), Pends(h, n, acc.pending)
    PROVE  Tells(h, n, Hist!Flush(acc).out)
<1> DEFINE out == acc.out
           p == acc.pending
           more == Hist!Flush(acc).out
<1>1. /\ out \in Seq(Msgs) /\ p \in Seq(CallIds) /\ Len(more) = Len(out) + Len(p)
      /\ \A i \in 1..Len(out) : more[i] = out[i]
      /\ \A k \in 1..Len(p) : more[Len(out) + k] = Hist!Interrupted(p[k])
  BY FlushOut DEF Accs, Grows
<1> HIDE DEF out, p, more
<1>2. ASSUME NEW j \in 1..Len(more), more[j].kind = "unfinished"
      PROVE  Unmet(h, n, more[j].ids[1])
  <2>1. CASE j <= Len(out)
    <3>1. j \in 1..Len(out) /\ more[j] = out[j]
      BY <1>1, <2>1
    <3>2. QED
      BY <1>2, <3>1 DEF Tells, out
  <2>2. CASE j > Len(out)
    <3>1. j - Len(out) \in 1..Len(p) /\ Len(out) + (j - Len(out)) = j
      BY <1>1, <2>2
    <3>2. more[j].ids[1] = p[j - Len(out)]
      BY <1>1, <3>1, InterruptedIs
    <3>3. Len(p) > 0
      BY <1>1, <3>1
    <3>4. PICK b \in 1..n : PendingAt(h, b, n, p)
      BY <3>3 DEF Pends, p
    <3>5. QED
      BY <1>1, <3>1, <3>2, <3>4, UnmetAtTheEnd
  <2>3. QED
    BY <1>1, <2>1, <2>2
<1>3. QED
  BY <1>2 DEF Tells, more

LEMMA TellsOn ==
    ASSUME NEW h, NEW n \in Nat, NEW out, Tells(h, n, out)
    PROVE  Tells(h, n + 1, out)
<1>1. 1..n \subseteq 1..n + 1
  OBVIOUS
<1>2. \A c : Unmet(h, n, c) => Unmet(h, n + 1, c)
  BY <1>1 DEF Unmet
<1>3. QED
  BY <1>2 DEF Tells

LEMMA LessDistinct ==
    ASSUME NEW A, NEW s \in Seq(A), NEW c, Within(s, c), Distinct(s)
    PROVE  Distinct(Hist!Less(s, c)) /\ \A i \in 1..Len(Hist!Less(s, c)) : Hist!Less(s, c)[i] # c
<1> DEFINE k == CHOOSE i \in DOMAIN s : s[i] = c
           t == [i \in 1..Len(s) - 1 |-> IF i < k THEN s[i] ELSE s[i + 1]]
<1>1. k \in 1..Len(s) /\ s[k] = c /\ Len(s) \in Nat
  BY DEF Within
<1>2. Hist!Less(s, c) = t
  BY DEF Hist!Less
<1> HIDE DEF k
<1>3. t \in Seq(A) /\ Len(t) = Len(s) - 1 /\ Len(s) > 0
  BY <1>1
<1>4. \A i \in 1..Len(t) : t[i] = IF i < k THEN s[i] ELSE s[i + 1]
  BY <1>3
<1> HIDE DEF t
<1>5. \A i \in 1..Len(t) : LET j == IF i < k THEN i ELSE i + 1
                           IN  j \in 1..Len(s) /\ j # k /\ t[i] = s[j]
  BY <1>1, <1>3, <1>4
<1>6. \A i \in 1..Len(t) : t[i] # c
  BY <1>1, <1>5 DEF Distinct
<1>7. ASSUME NEW i \in 1..Len(t), NEW j \in 1..Len(t), t[i] = t[j] PROVE i = j
  <2> DEFINE x == IF i < k THEN i ELSE i + 1
             y == IF j < k THEN j ELSE j + 1
  <2>1. x \in 1..Len(s) /\ y \in 1..Len(s) /\ s[x] = s[y]
    BY <1>5, <1>7
  <2>2. x = y
    BY <2>1, Zenon DEF Distinct
  <2>3. i \in Nat /\ j \in Nat /\ k \in Nat
    BY <1>1, <1>3
  <2>4. QED
    BY <2>2, <2>3
<1>8. QED
  BY <1>2, <1>6, <1>7 DEF Distinct

LEMMA PassTells ==
    ASSUME NEW h \in Seq(Stored), NEW n \in 0..Len(h) - 1, NEW acc \in Accs,
           Tells(h, n, acc.out), Pends(h, n, acc.pending)
    PROVE  LET next == Hist!Pass(acc, h[n + 1])
           IN  Tells(h, n + 1, next.out) /\ Pends(h, n + 1, next.pending)
<1> DEFINE m == h[n + 1]
           next == Hist!Pass(acc, m)
           p == acc.pending
<1>1. /\ acc.out \in Seq(Msgs) /\ p \in Seq(CallIds) /\ m \in Stored /\ m \in Msgs
      /\ n \in Nat /\ n \in 0..Len(h) /\ n + 1 \in 1..n + 1 /\ Len(h) \in Nat /\ n < Len(h)
  <2>1. Len(h) \in Nat
    OBVIOUS
  <2>2. n \in Nat /\ n \in 0..Len(h) /\ n + 1 \in 1..n + 1 /\ n + 1 \in 1..Len(h) /\ n < Len(h)
    BY <2>1
  <2>3. m \in Stored
    BY <2>2
  <2>4. m \in Msgs
    BY <2>3 DEF Stored
  <2> HIDE DEF m
  <2>5. QED
    BY <2>1, <2>2, <2>3, <2>4 DEF Accs
<1>2. Tells(h, n + 1, acc.out)
  BY <1>1, TellsOn
<1>3. CASE Hist!IsTool(m)
  <2>1. m.ids[1] \in Hist!Range(p) <=> Within(p, m.ids[1])
    BY DEF Hist!Range, Within
  <2>2. m.kind # "unfinished" /\ m.ids = <<m.ids[1]>>
    <3>1. m.ids \in Seq(CallIds) /\ Len(m.ids) = 1 /\ m.kind # "unfinished"
      BY <1>1, <1>3 DEF Stored, Msgs
    <3>2. QED
      BY <3>1
  <2> HIDE DEF m
  <2>3. ASSUME NEW q \in Seq(CallIds), Len(q) > 0, \A i \in 1..Len(q) : Within(p, q[i]) /\ q[i] # m.ids[1]
        PROVE  \E b \in 1..n + 1 : PendingAt(h, b, n + 1, q)
    <3>1. Len(p) > 0
      BY <1>1, <2>3 DEF Within
    <3>2. PICK b \in 1..n : PendingAt(h, b, n, p)
      BY <3>1 DEF Pends
    <3>3. ASSUME NEW l \in 1..Len(q)
          PROVE  Within(h[b].ids, q[l]) /\ \A k \in b + 1..n + 1 : h[k].ids # <<q[l]>>
      <4>1. PICK i \in 1..Len(p) : p[i] = q[l]
        BY <2>3 DEF Within
      <4>2. Within(h[b].ids, q[l]) /\ \A k \in b + 1..n : h[k].ids # <<q[l]>>
        BY <3>2, <4>1 DEF PendingAt
      <4>3. h[n + 1].ids # <<q[l]>>
        <5>1. <<m.ids[1]>> # <<q[l]>>
          BY <2>3
        <5>2. QED
          BY <2>2, <5>1 DEF m
      <4>4. \A k \in b + 1..n + 1 : k \in b + 1..n \/ k = n + 1
        BY <1>1
      <4>5. QED
        BY <4>2, <4>3, <4>4
    <3>4. \A j \in b + 1..n + 1 : Hist!IsTool(h[j])
      <4>1. \A k \in b + 1..n + 1 : k \in b + 1..n \/ k = n + 1
        BY <1>1
      <4>2. QED
        BY <1>3, <3>2, <4>1 DEF PendingAt, m
    <3>5. b \in 1..n + 1 /\ IsCalls(h[b])
      BY <1>1, <3>2 DEF PendingAt
    <3>6. PendingAt(h, b, n + 1, q)
      BY <3>3, <3>4, <3>5 DEF PendingAt
    <3>7. QED
      BY <3>5, <3>6
  <2>4. CASE ~Within(p, m.ids[1])
    <3>1. next = acc
      BY <1>3, <2>1, <2>4 DEF Hist!Pass
    <3>2. \A i \in 1..Len(p) : Within(p, p[i]) /\ p[i] # m.ids[1]
      BY <2>4 DEF Within
    <3>3. Pends(h, n + 1, p)
      BY <1>1, <2>3, <3>2 DEF Pends
    <3>4. QED
      BY <1>2, <3>1, <3>3 DEF m
  <2>5. CASE Within(p, m.ids[1])
    <3> DEFINE q == Hist!Less(p, m.ids[1])
               more == Append(acc.out, m)
    <3>1. next = [out |-> more, pending |-> q]
      BY <1>3, <2>1, <2>5 DEF Hist!Pass, Hist!Settle, Accs
    <3>2. q \in Seq(CallIds) /\ Distinct(q) /\ \A i \in 1..Len(q) : Within(p, q[i]) /\ q[i] # m.ids[1]
      BY <1>1, <2>5, LessIs, LessDistinct DEF Pends
    <3> HIDE DEF q
    <3>3. Pends(h, n + 1, q)
      BY <2>3, <3>2 DEF Pends
    <3>4. Tells(h, n + 1, more)
      <4>1. /\ Len(more) = Len(acc.out) + 1 /\ more[Len(acc.out) + 1] = m
            /\ \A i \in 1..Len(acc.out) : more[i] = acc.out[i]
            /\ \A i \in 1..Len(more) : i \in 1..Len(acc.out) \/ i = Len(acc.out) + 1
        BY <1>1, AppendGrows DEF Grows
      <4> HIDE DEF more
      <4>2. QED
        BY <1>2, <2>2, <4>1 DEF Tells
    <3>5. QED
      BY <3>1, <3>3, <3>4 DEF m
  <2>6. QED
    BY <2>4, <2>5
<1>4. CASE ~Hist!IsTool(m)
  <2> DEFINE out == Hist!Flush(acc).out
             more == Append(out, m)
  <2>1. Tells(h, n, out) /\ out \in Seq(Msgs)
    BY <1>1, <1>4, FlushTells, FlushOut DEF Accs
  <2>2. next = [out |-> more, pending |-> IF m.kind = "calls" THEN m.ids ELSE <<>>]
    BY <1>4 DEF Hist!Pass, Hist!Copy, Hist!Flush
  <2> HIDE DEF out
  <2>3. Tells(h, n + 1, out)
    BY <1>1, <2>1, TellsOn
  <2>4. /\ Len(more) = Len(out) + 1 /\ more[Len(out) + 1] = m
        /\ \A i \in 1..Len(out) : more[i] = out[i]
        /\ \A i \in 1..Len(more) : i \in 1..Len(out) \/ i = Len(out) + 1
    BY <1>1, <2>1, AppendGrows DEF Grows
  <2>5. m.kind # "unfinished"
    BY <1>1 DEF Stored
  <2> HIDE DEF more
  <2>6. Tells(h, n + 1, more)
    BY <2>3, <2>4, <2>5 DEF Tells
  <2>7. CASE m.kind = "calls"
    <3>1. m.ids \in Seq(CallIds) /\ Distinct(m.ids) /\ IsCalls(m)
      BY <1>1, <2>7 DEF Stored, Msgs, Distinct, IsCalls
    <3>2. \A k \in n + 1 + 1..n + 1 : FALSE
      BY <1>1
    <3>3. PendingAt(h, n + 1, n + 1, m.ids)
      BY <3>1, <3>2 DEF PendingAt, Within
    <3>4. Pends(h, n + 1, m.ids)
      BY <1>1, <3>1, <3>3 DEF Pends
    <3> HIDE DEF m
    <3>5. QED
      BY <2>2, <2>6, <2>7, <3>4 DEF m
  <2>8. CASE m.kind # "calls"
    <3>1. Pends(h, n + 1, <<>>)
      BY DEF Pends, Distinct
    <3> HIDE DEF m
    <3>2. QED
      BY <2>2, <2>6, <2>8, <3>1 DEF m
  <2>9. QED
    BY <2>7, <2>8
<1>5. QED
  BY <1>3, <1>4

LEMMA StoredAreMsgs ==
    ASSUME NEW h \in Seq(Stored)
    PROVE  h \in Seq(Msgs)
<1>1. Len(h) \in Nat /\ h \in [1..Len(h) -> Stored]
  OBVIOUS
<1>2. h \in [1..Len(h) -> Msgs]
  BY <1>1 DEF Stored
<1>3. QED
  BY <1>1, <1>2

LEMMA SanitizedTells ==
    ASSUME NEW h \in Seq(Stored)
    PROVE  Tells(h, Len(h), Hist!Sanitize(h))
<1> DEFINE n == Len(h)
<1>1. PICK f \in [0..n -> {acc \in Accs : Passed(acc)}] :
        Passes(h, f) /\ Hist!Sanitize(h) = Hist!Flush(f[n]).out
  BY PassesExist, StoredAreMsgs
<1>2. n \in Nat /\ \A i \in 0..n : f[i] \in Accs
  BY <1>1
<1>3. f[0] = [out |-> <<>>, pending |-> <<>>] /\ \A i \in 1..n : f[i] = Hist!Pass(f[i - 1], h[i])
  <2>1. f = [i \in 0..n |-> IF i = 0 THEN [out |-> <<>>, pending |-> <<>>] ELSE Hist!Pass(f[i - 1], h[i])]
    BY <1>1 DEF Passes
  <2>2. \A i \in 0..n :
          f[i] = IF i = 0 THEN [out |-> <<>>, pending |-> <<>>] ELSE Hist!Pass(f[i - 1], h[i])
    BY <2>1
  <2> HIDE DEF n
  <2>3. QED
    BY <1>2, <2>2
<1> DEFINE S == {i \in 0..n : Tells(h, i, f[i].out) /\ Pends(h, i, f[i].pending)}
<1>4. 0..n \subseteq S
  <2>1. 0 \in S
    <3>1. f[0].out = <<>> /\ f[0].pending = <<>>
      BY <1>3
    <3>2. Tells(h, 0, <<>>) /\ Pends(h, 0, <<>>)
      BY DEF Tells, Pends, Distinct
    <3>3. 0 \in 0..n
      BY <1>2
    <3>4. Tells(h, 0, f[0].out) /\ Pends(h, 0, f[0].pending)
      BY <3>1, <3>2
    <3>5. QED
      BY <3>3, <3>4
  <2>2. ASSUME NEW i \in 0..n - 1, i \in S PROVE i + 1 \in S
    <3>1. i + 1 \in 1..n /\ i + 1 \in 0..n /\ i + 1 - 1 = i /\ i \in 0..n
      BY <1>2
    <3>2. f[i + 1] = Hist!Pass(f[i], h[i + 1])
      BY <1>3, <3>1
    <3>3. f[i] \in Accs /\ Tells(h, i, f[i].out) /\ Pends(h, i, f[i].pending)
      BY <1>2, <2>2, <3>1
    <3>4. Tells(h, i + 1, f[i + 1].out) /\ Pends(h, i + 1, f[i + 1].pending)
      BY <3>2, <3>3, PassTells
    <3>5. QED
      BY <3>1, <3>4
  <2> HIDE DEF S
  <2>3. QED
    BY <1>2, <2>1, <2>2, UpTo
<1>5. n \in 0..n /\ f[n] \in Accs /\ Tells(h, n, f[n].out) /\ Pends(h, n, f[n].pending)
  BY <1>2, <1>4
<1>6. Tells(h, n, Hist!Flush(f[n]).out)
  <2>1. ~(n < Len(h))
    BY <1>2
  <2>2. QED
    BY <1>5, <2>1, FlushTells
<1>7. QED
  BY <1>1, <1>6


-----------------------------------------------------------------------------
(* The inductive invariant.                                                *)

(* The calls the model has asked for. *)
Known == {c \in CallIds : c[1] <= answers}

CallsAreKnown ==
    /\ answers \in Nat /\ executed \subseteq Known
    /\ todo \in Seq(CallIds) /\ \A c : Within(todo, c) => c \in Known
    /\ todo # <<>> => dialogue = "tools"

(* The calls that are over have their results among those of their answer,   *)
(* and the others can still have theirs.                                    *)
MemoryIsSound ==
    /\ Sound(messages, Known, spoilt, (executed \ spoilt) \ Hist!Range(todo), Hist!Range(todo) \ spoilt)
    /\ Sound(stored, Known, spoilt, {}, {})
    /\ dialogue = "down" => \A c \in executed \ spoilt : Hist!HasResult(stored, c)

RequestIsWhole ==
    /\ asked \in Seq(Msgs) /\ Whole(asked)
    /\ \A j \in 1..Len(asked) :
         asked[j].kind = "unfinished" => asked[j].ids[1] \notin executed \ spoilt
    /\ dialogue \notin {"wait", "wait again"} => asked = <<>>

HInv == CallsAreKnown /\ MemoryIsSound /\ RequestIsWhole

LEMMA InSet ==
    ASSUME NEW A, NEW s \in Seq(A), NEW c
    PROVE  c \in Hist!Range(s) <=> Within(s, c)
BY DEF Hist!Range, Within

LEMMA EmptySound ==
    ASSUME NEW K, NEW P, NEW A, NEW O
    PROVE  Sound(<<>>, K, P, A, O)
<1>1. <<>> \in Seq(Stored) /\ Len(<<>>) = 0 /\ DOMAIN <<>> = {}
  OBVIOUS
<1>2. QED
  BY <1>1 DEF Sound, Unique, HasCall, Hist!HasResult

LEMMA NoRequest ==
    ASSUME asked' = <<>>
    PROVE  RequestIsWhole'
<1>1. <<>> \in Seq(Msgs) /\ Len(<<>>) = 0
  OBVIOUS
<1>2. QED
  BY <1>1 DEF RequestIsWhole, Whole

LEMMA Idle ==
    ASSUME HInv, dialogue # "tools"
    PROVE  /\ todo = <<>> /\ Hist!Range(todo) = {}
           /\ Sound(messages, Known, spoilt, executed \ spoilt, {})
<1>1. todo = <<>>
  BY DEF HInv, CallsAreKnown
<1>2. Hist!Range(todo) = {}
  BY <1>1 DEF Hist!Range
<1>3. (executed \ spoilt) \ {} = executed \ spoilt /\ {} \ spoilt = {}
  OBVIOUS
<1>4. QED
  BY <1>1, <1>2, <1>3 DEF HInv, MemoryIsSound

(* A step between the batches. *)
LEMMA IdleStep ==
    ASSUME CallsAreKnown, todo' = <<>>, answers' \in Nat, executed' = executed,
           Known \subseteq Known',
           Sound(messages', Known', spoilt', executed' \ spoilt', {}),
           Sound(stored', Known', spoilt', {}, {}), dialogue' # "down", RequestIsWhole'
    PROVE  HInv'
<1>1. executed' \subseteq Known'
  BY DEF CallsAreKnown
<1>2. <<>> \in Seq(CallIds) /\ Len(<<>>) = 0
  OBVIOUS
<1>3. CallsAreKnown'
  BY <1>1, <1>2 DEF CallsAreKnown, Within
<1>4. Hist!Range(todo)' = {}
  BY DEF Hist!Range
<1>5. (executed' \ spoilt') \ {} = executed' \ spoilt' /\ {} \ spoilt' = {}
  OBVIOUS
<1>6. MemoryIsSound'
  BY <1>4, <1>5 DEF MemoryIsSound
<1>7. QED
  BY <1>3, <1>6 DEF HInv

LEMMA PlainKinds ==
    /\ Hist!Plain("identity", 0) \in Stored /\ IsPlain(Hist!Plain("identity", 0))
    /\ Hist!Plain("directive", 0) \in Stored /\ IsPlain(Hist!Plain("directive", 0))
    /\ Hist!Plain("extra", 0) \in Stored /\ IsPlain(Hist!Plain("extra", 0))
    /\ Hist!Plain("resumed", 0) \in Stored /\ IsPlain(Hist!Plain("resumed", 0))
    /\ Hist!Plain("prompt", 1) \in Stored /\ IsPlain(Hist!Plain("prompt", 1))
    /\ Hist!Plain("refresh", 1) \in Stored /\ IsPlain(Hist!Plain("refresh", 1))
    /\ Hist!Plain("text", 1) \in Stored /\ IsPlain(Hist!Plain("text", 1))
    /\ Hist!Plain("empty", 0) \in Stored /\ IsPlain(Hist!Plain("empty", 0))
    /\ Hist!Plain("note", 0) \in Stored /\ IsPlain(Hist!Plain("note", 0))
<1>1. {"identity", "directive", "extra", "resumed", "prompt", "refresh", "text", "empty", "note"}
        \subseteq Hist!Kinds \ {"calls", "result", "unfinished"}
  BY DEF Hist!Kinds, Hist!Systems, Hist!Tools
<1>2. QED
  BY <1>1, PlainIs

LEMMA SavedSound ==
    ASSUME NEW h, NEW K, NEW P, NEW A, NEW O, Sound(h, K, P, A, O)
    PROVE  Sound(h, K, P, {}, {})
BY SoundMore

(* What the model is shown of a sound memory. *)
LEMMA ShownIsWhole ==
    ASSUME NEW h, Sound(h, Known, spoilt, executed \ spoilt, {}), asked' = Hist!Sanitize(h),
           executed' = executed, spoilt' = spoilt, dialogue' \in {"wait", "wait again"}
    PROVE  RequestIsWhole'
<1>1. h \in Seq(Stored) /\ h \in Seq(Msgs)
  BY StoredAreMsgs DEF Sound
<1>2. asked' \in Seq(Msgs) /\ Whole(asked')
  BY <1>1, SanitizedIsWhole
<1>3. ASSUME NEW j \in 1..Len(asked'), asked'[j].kind = "unfinished"
      PROVE  asked'[j].ids[1] \notin executed \ spoilt
  <2>1. Unmet(h, Len(h), asked'[j].ids[1])
    BY <1>1, <1>3, SanitizedTells DEF Tells
  <2>2. QED
    BY <2>1 DEF Unmet, Sound, Answers
<1>4. QED
  BY <1>2, <1>3 DEF RequestIsWhole

-----------------------------------------------------------------------------
(* Every step keeps it. *)

LEMMA HInit ==
    ASSUME Hist!HistoryAssumption, Hist!Init
    PROVE  HInv
<1>1. /\ <<>> \in Seq(CallIds) /\ <<>> \in Seq(Msgs) /\ Len(<<>>) = 0
      /\ answers = 0 /\ todo = <<>> /\ executed = {} /\ messages = <<>> /\ stored = <<>>
      /\ asked = <<>> /\ dialogue = "prompt"
  BY DEF Hist!Init
<1>2. CallsAreKnown
  BY <1>1 DEF CallsAreKnown, Within
<1>3. MemoryIsSound
  BY <1>1, EmptySound DEF MemoryIsSound
<1>4. RequestIsWhole
  BY <1>1 DEF RequestIsWhole, Whole
<1>5. QED
  BY <1>2, <1>3, <1>4 DEF HInv

LEMMA PromptHInv ==
    ASSUME Hist!HistoryAssumption, HInv, Hist!Prompt
    PROVE  HInv'
<1> DEFINE Fine(h) == Sound(h, Known, spoilt, executed \ spoilt, {})
           known == IF injected THEN messages ELSE Hist!Add(messages, Hist!Plain("identity", 0))
           told == Hist!Add(Hist!Replace(known, Hist!Plain("directive", 0)), Hist!Plain("prompt", 1))
<1>1. /\ dialogue = "prompt" /\ dialogue' = "step" /\ messages' \in {told, Hist!Add(told, Hist!Plain("extra", 0))}
      /\ UNCHANGED <<stored, asked, todo, executed, spoilt, answers>>
  BY DEF Hist!Prompt, Hist!calling, Hist!ghosts
<1>2. todo = <<>> /\ Fine(messages)
  BY <1>1, Idle
<1>3. \A h : \A m \in Stored : Fine(h) /\ IsPlain(m) => Fine(Hist!Add(h, m)) /\ Fine(Hist!Replace(h, m))
  BY PlainSound, ReplaceSound
<1> HIDE DEF Fine
<1>4. Fine(known)
  BY <1>2, <1>3, PlainKinds
<1> HIDE DEF known
<1>5. Fine(told)
  <2>1. Fine(Hist!Replace(known, Hist!Plain("directive", 0)))
    BY <1>3, <1>4, PlainKinds
  <2>2. QED
    BY <1>3, <2>1, PlainKinds
<1> HIDE DEF told
<1>6. Fine(messages')
  BY <1>1, <1>3, <1>5, PlainKinds
<1>7. Known' = Known
  BY <1>1 DEF Known
<1>8. RequestIsWhole'
  <2>1. asked' = <<>>
    BY <1>1 DEF HInv, RequestIsWhole
  <2>2. QED
    BY <2>1, NoRequest
<1>9. CallsAreKnown /\ answers \in Nat /\ Sound(stored, Known, spoilt, {}, {})
  BY DEF HInv, CallsAreKnown, MemoryIsSound
<1>10. Sound(messages', Known', spoilt', executed' \ spoilt', {})
  BY <1>1, <1>6, <1>7 DEF Fine
<1>11. Known \subseteq Known' /\ dialogue' # "down" /\ todo' = <<>>
  BY <1>1, <1>2, <1>7, <1>9
<1>12. QED
  BY <1>1, <1>7, <1>8, <1>9, <1>10, <1>11, IdleStep

LEMMA StepHInv ==
    ASSUME Hist!HistoryAssumption, HInv, Hist!Step
    PROVE  HInv'
<1>1. /\ dialogue = "step" /\ dialogue' = "think" /\ stored' = messages
      /\ messages' \in {messages, Hist!Replace(messages, Hist!Plain("refresh", 1))}
      /\ UNCHANGED <<asked, todo, executed, spoilt, answers>>
  BY DEF Hist!Step, Hist!calling, Hist!ghosts, Hist!bounds
<1>2. todo = <<>> /\ Sound(messages, Known, spoilt, executed \ spoilt, {})
  BY <1>1, Idle
<1>3. Sound(messages', Known, spoilt, executed \ spoilt, {})
  BY <1>1, <1>2, ReplaceSound, PlainKinds
<1>4. Sound(stored', Known, spoilt, {}, {})
  BY <1>1, <1>2, SavedSound
<1>5. Known' = Known
  BY <1>1 DEF Known
<1>6. RequestIsWhole'
  <2>1. asked' = <<>>
    BY <1>1 DEF HInv, RequestIsWhole
  <2>2. QED
    BY <2>1, NoRequest
<1>7. CallsAreKnown /\ answers \in Nat
  BY DEF HInv, CallsAreKnown
<1>8. /\ Sound(messages', Known', spoilt', executed' \ spoilt', {})
      /\ Sound(stored', Known', spoilt', {}, {})
  BY <1>1, <1>3, <1>4, <1>5
<1>9. Known \subseteq Known' /\ dialogue' # "down" /\ todo' = <<>>
  BY <1>1, <1>2, <1>5, <1>7
<1>10. QED
  BY <1>1, <1>6, <1>7, <1>8, <1>9, IdleStep

LEMMA ShowsHInv ==
    ASSUME Hist!HistoryAssumption, HInv, dialogue # "tools",
           Sound(messages', Known, spoilt, executed \ spoilt, {}), asked' = Hist!Sanitize(messages'),
           dialogue' \in {"wait", "wait again"},
           UNCHANGED <<stored, todo, executed, spoilt, answers>>
    PROVE  HInv'
<1>1. todo = <<>>
  BY Idle
<1>2. Known' = Known
  BY DEF Known
<1>3. RequestIsWhole'
  BY ShownIsWhole
<1>4. CallsAreKnown /\ answers \in Nat /\ Sound(stored, Known, spoilt, {}, {})
  BY DEF HInv, CallsAreKnown, MemoryIsSound
<1>5. /\ Sound(messages', Known', spoilt', executed' \ spoilt', {})
      /\ Sound(stored', Known', spoilt', {}, {})
  BY <1>2, <1>4
<1>6. Known \subseteq Known' /\ todo' = <<>> /\ answers' \in Nat
  BY <1>1, <1>2, <1>4
<1>7. dialogue' # "down"
  OBVIOUS
<1>8. QED
  BY <1>3, <1>4, <1>5, <1>6, <1>7, IdleStep

LEMMA ThinkHInv ==
    ASSUME Hist!HistoryAssumption, HInv, Hist!Think
    PROVE  HInv'
<1>1. /\ dialogue = "think" /\ dialogue' = "wait" /\ messages' = Hist!AutoCompacted(Hist!Hinted(messages))
      /\ asked' = Hist!Sanitize(messages')
      /\ UNCHANGED <<stored, todo, executed, spoilt, answers>>
  BY DEF Hist!Think, Hist!calling, Hist!ghosts, Hist!bounds
<1>2. Sound(messages, Known, spoilt, executed \ spoilt, {})
  BY <1>1, Idle
<1>3. Sound(messages', Known, spoilt, executed \ spoilt, {})
  BY <1>1, <1>2, ThoughtSound
<1>4. QED
  BY <1>1, <1>3, ShowsHInv


(* A step between the batches that leaves the limits, the request and what  *)
(* was known as they are. *)
LEMMA QuietHInv ==
    ASSUME Hist!HistoryAssumption, HInv, dialogue # "tools", asked' = <<>>, dialogue' \notin {"down", "tools"},
           Sound(messages', Known, spoilt, executed \ spoilt, {}), stored' \in {stored, messages'},
           UNCHANGED <<todo, executed, spoilt, answers>>
    PROVE  HInv'
<1>1. todo = <<>>
  BY Idle
<1>2. Known' = Known
  BY DEF Known
<1>3. RequestIsWhole'
  BY NoRequest
<1>4. CallsAreKnown /\ answers \in Nat /\ Sound(stored, Known, spoilt, {}, {})
  BY DEF HInv, CallsAreKnown, MemoryIsSound
<1>5. Sound(messages', Known, spoilt, {}, {})
  BY SavedSound
<1>6. /\ Sound(messages', Known', spoilt', executed' \ spoilt', {})
      /\ Sound(stored', Known', spoilt', {}, {})
  BY <1>2, <1>4, <1>5
<1>7. Known \subseteq Known' /\ todo' = <<>> /\ answers' \in Nat
  BY <1>1, <1>2, <1>4
<1>8. QED
  BY <1>3, <1>4, <1>6, <1>7, IdleStep

LEMMA OverflowHInv ==
    ASSUME Hist!HistoryAssumption, HInv, Hist!Overflow
    PROVE  HInv'
<1>1. Sound(messages, Known, spoilt, executed \ spoilt, {}) /\ dialogue = "wait"
  BY Idle DEF Hist!Overflow
<1>2. CASE MaxTokens > 0 /\ Hist!CanCompact(messages)
  <2>1. /\ dialogue' = "wait again" /\ messages' = Hist!Compacted(messages) /\ asked' = Hist!Sanitize(messages')
        /\ UNCHANGED <<stored, todo, executed, spoilt, answers>>
    BY <1>2 DEF Hist!Overflow, Hist!calling, Hist!ghosts
  <2>2. Sound(messages', Known, spoilt, executed \ spoilt, {})
    BY <1>1, <2>1, CompactedSound
  <2>3. QED
    BY <1>1, <2>1, <2>2, ShowsHInv
<1>3. CASE ~(MaxTokens > 0 /\ Hist!CanCompact(messages))
  <2>1. /\ dialogue' = "end" /\ messages' = messages /\ asked' = <<>>
        /\ UNCHANGED <<stored, todo, executed, spoilt, answers>>
    BY <1>3 DEF Hist!Overflow, Hist!calling, Hist!ghosts
  <2>2. QED
    BY <1>1, <2>1, QuietHInv
<1>4. QED
  BY <1>2, <1>3

LEMMA BlockIs ==
    ASSUME NEW n \in Nat, NEW z \in {0, 1}, answers \in Nat
    PROVE  /\ Hist!Block(n, z) \in Stored /\ IsCalls(Hist!Block(n, z))
           /\ \A c : Within(Hist!Block(n, z).ids, c) => c \in CallIds /\ c[1] = answers + 1
           /\ Len(Hist!Block(n, z).ids) = n /\ Hist!Block(n, z).size = z
<1> DEFINE s == [i \in 1..n |-> <<answers + 1, i>>]
<1>1. Hist!Block(n, z) = [kind |-> "calls", ids |-> s, size |-> z]
  BY DEF Hist!Block, Hist!Message
<1>2. \A i \in 1..n : <<answers + 1, i>> \in CallIds /\ <<answers + 1, i>>[1] = answers + 1
  BY DEF CallIds
<1>3. s \in Seq(CallIds) /\ Len(s) = n
  BY <1>2
<1>4. \A i \in 1..n : s[i] = <<answers + 1, i>>
  OBVIOUS
<1>5. \A j, k \in 1..Len(s) : s[j] = s[k] => j = k
  BY <1>3, <1>4
<1> HIDE DEF s
<1>6. \A c : Within(s, c) => c \in CallIds /\ c[1] = answers + 1
  BY <1>2, <1>3, <1>4 DEF Within
<1>7. QED
  BY <1>1, <1>3, <1>5, <1>6 DEF Stored, Msgs, IsCalls, Hist!IsTool, Hist!Tools, Hist!Kinds

LEMMA AnswerHInv ==
    ASSUME Hist!HistoryAssumption, HInv, Hist!Answer
    PROVE  HInv'
<1>1. /\ dialogue \in {"wait", "wait again"} /\ dialogue' = "act" /\ answers' = answers + 1
      /\ messages' = Hist!Add(messages, answer') /\ asked' = <<>>
      /\ UNCHANGED <<stored, todo, executed, spoilt>>
  BY DEF Hist!Answer, Hist!calling, Hist!ghosts
<1>a. answer' \in {Hist!Plain("text", 1), Hist!Plain("empty", 0)} \union Hist!Blocks
  BY DEF Hist!Answer
<1>2. todo = <<>> /\ Sound(messages, Known, spoilt, executed \ spoilt, {})
  BY <1>1, Idle
<1>3. CallsAreKnown /\ answers \in Nat /\ Sound(stored, Known, spoilt, {}, {})
      /\ executed \subseteq Known
  BY DEF HInv, CallsAreKnown, MemoryIsSound
<1>4. Known \subseteq Known' /\ \A c \in CallIds : c[1] = answers + 1 => c \in Known' \ Known
  <2>1. \A c \in CallIds : c[1] \in Nat
    BY DEF CallIds
  <2>2. answers' = answers + 1
    BY <1>1
  <2>3. QED
    BY <1>3, <2>1, <2>2 DEF Known
<1>5. Sound(messages', Known', spoilt, executed \ spoilt, {})
  <2>1. CASE answer' \in {Hist!Plain("text", 1), Hist!Plain("empty", 0)}
    <3>1. Sound(messages', Known, spoilt, executed \ spoilt, {})
      BY <1>1, <1>2, <2>1, PlainSound, PlainKinds
    <3>2. QED
      BY <1>4, <3>1, SoundMore
  <2>2. CASE answer' \in Hist!Blocks
    <3>1. PICK n \in 1..MaxBatch, z \in {0, 1} : answer' = Hist!Block(n, z)
      BY <2>2 DEF Hist!Blocks
    <3>2. n \in Nat
      BY DEF Hist!HistoryAssumption
    <3>3. /\ answer' \in Stored /\ IsCalls(answer')
          /\ \A c : Within(answer'.ids, c) => c \in Known' \ Known
      BY <1>3, <1>4, <3>1, <3>2, BlockIs
    <3>4. executed \ spoilt \subseteq Known
      BY <1>3
    <3>5. QED
      BY <1>1, <1>2, <1>4, <3>3, <3>4, CallsSound
  <2>3. QED
    BY <1>a, <2>1, <2>2
<1>6. Sound(stored', Known', spoilt', {}, {})
  BY <1>1, <1>3, <1>4, SoundMore
<1>7. RequestIsWhole'
  BY <1>1, NoRequest
<1>8. Known \subseteq Known' /\ todo' = <<>> /\ answers' \in Nat /\ dialogue' # "down"
  <2>1. answers' = answers + 1 /\ todo' = todo /\ dialogue' = "act"
    BY <1>1
  <2>2. QED
    BY <1>2, <1>3, <1>4, <2>1
<1>9. Sound(messages', Known', spoilt', executed' \ spoilt', {}) /\ executed' = executed
  BY <1>1, <1>5
<1>10. QED
  BY <1>3, <1>6, <1>7, <1>8, <1>9, IdleStep

LEMMA NoRequestNow ==
    ASSUME HInv, dialogue \notin {"wait", "wait again"}
    PROVE  asked = <<>>
BY DEF HInv, RequestIsWhole

LEMMA TextHInv ==
    ASSUME Hist!HistoryAssumption, HInv, Hist!Text
    PROVE  HInv'
<1>1. /\ dialogue = "act" /\ dialogue' \in {"end", "step"}
      /\ messages' \in {messages, Hist!Add(messages, Hist!Plain("note", 0))}
      /\ UNCHANGED <<stored, asked, todo, executed, spoilt, answers>>
  BY DEF Hist!Text, Hist!calling, Hist!ghosts, Hist!bounds
<1>2. Sound(messages, Known, spoilt, executed \ spoilt, {}) /\ asked' = <<>>
  BY <1>1, Idle, NoRequestNow
<1>3. Sound(messages', Known, spoilt, executed \ spoilt, {})
  BY <1>1, <1>2, PlainSound, PlainKinds
<1>4. QED
  BY <1>1, <1>2, <1>3, QuietHInv

LEMMA NothingHInv ==
    ASSUME Hist!HistoryAssumption, HInv, Hist!Nothing
    PROVE  HInv'
<1>1. /\ dialogue = "act" /\ dialogue' = "step"
      /\ UNCHANGED <<messages, stored, asked, todo, executed, spoilt, answers>>
  BY DEF Hist!Nothing, Hist!calling, Hist!ghosts, Hist!bounds
<1>2. Sound(messages', Known, spoilt, executed \ spoilt, {}) /\ asked' = <<>>
  BY <1>1, Idle, NoRequestNow
<1>3. QED
  BY <1>1, <1>2, QuietHInv

LEMMA BatchOverHInv ==
    ASSUME Hist!HistoryAssumption, HInv, Hist!BatchOver
    PROVE  HInv'
<1>1. /\ dialogue = "tools" /\ dialogue' \in {"end", "step"} /\ todo = <<>>
      /\ messages' \in {messages, Hist!Add(messages, Hist!Plain("note", 0))}
      /\ UNCHANGED <<stored, asked, todo, executed, spoilt, answers>>
  BY DEF Hist!BatchOver, Hist!ghosts, Hist!bounds
<1>2. Sound(messages, Known, spoilt, executed \ spoilt, {})
  <2>1. Hist!Range(todo) = {}
    BY <1>1 DEF Hist!Range
  <2>2. (executed \ spoilt) \ {} = executed \ spoilt /\ {} \ spoilt = {}
    OBVIOUS
  <2>3. QED
    BY <2>1, <2>2 DEF HInv, MemoryIsSound
<1>3. Sound(messages', Known, spoilt, executed \ spoilt, {})
  BY <1>1, <1>2, PlainSound, PlainKinds
<1>4. RequestIsWhole'
  BY <1>1, NoRequestNow, NoRequest
<1>5. Known' = Known
  BY <1>1 DEF Known
<1>6. CallsAreKnown /\ answers \in Nat /\ Sound(stored, Known, spoilt, {}, {})
  BY DEF HInv, CallsAreKnown, MemoryIsSound
<1>7. /\ Sound(messages', Known', spoilt', executed' \ spoilt', {})
      /\ Sound(stored', Known', spoilt', {}, {})
  BY <1>1, <1>3, <1>5, <1>6
<1>8. Known \subseteq Known' /\ todo' = <<>> /\ answers' \in Nat /\ dialogue' # "down"
      /\ executed' = executed
  BY <1>1, <1>5, <1>6
<1>9. QED
  BY <1>4, <1>6, <1>7, <1>8, IdleStep

LEMMA EndHInv ==
    ASSUME Hist!HistoryAssumption, HInv, Hist!End
    PROVE  HInv'
<1>1. /\ dialogue = "end" /\ dialogue' = "prompt" /\ stored' = messages'
      /\ UNCHANGED <<messages, asked, todo, executed, spoilt, answers>>
  BY DEF Hist!End, Hist!calling, Hist!ghosts, Hist!bounds
<1>2. Sound(messages', Known, spoilt, executed \ spoilt, {}) /\ asked' = <<>>
  BY <1>1, Idle, NoRequestNow
<1>3. QED
  BY <1>1, <1>2, QuietHInv

LEMMA CompressHInv ==
    ASSUME Hist!HistoryAssumption, HInv, Hist!Compress
    PROVE  HInv'
<1>1. /\ dialogue = "prompt" /\ dialogue' = "prompt" /\ stored' = messages' /\ messages' = Hist!Compacted(messages)
      /\ UNCHANGED <<asked, todo, executed, spoilt, answers>>
  BY DEF Hist!Compress, Hist!calling, Hist!ghosts
<1>2. Sound(messages, Known, spoilt, executed \ spoilt, {}) /\ asked' = <<>>
  BY <1>1, Idle, NoRequestNow
<1>3. Sound(messages', Known, spoilt, executed \ spoilt, {})
  BY <1>1, <1>2, CompactedSound
<1>4. QED
  BY <1>1, <1>2, <1>3, QuietHInv

LEMMA KillHInv ==
    ASSUME Hist!HistoryAssumption, HInv, Hist!Kill
    PROVE  HInv'
<1>1. /\ dialogue' = "down" /\ messages' = <<>> /\ asked' = <<>> /\ todo' = <<>>
      /\ spoilt' = spoilt \union {c \in executed : ~Hist!HasResult(stored, c)}
      /\ UNCHANGED <<stored, executed, answers>>
  BY DEF Hist!Kill, Hist!CutOff
<1>2. Known' = Known
  BY <1>1 DEF Known
<1>3. CallsAreKnown /\ Sound(stored, Known, spoilt, {}, {})
  BY DEF HInv, MemoryIsSound
<1>4. <<>> \in Seq(CallIds) /\ Len(<<>>) = 0
  OBVIOUS
<1>5. CallsAreKnown'
  BY <1>1, <1>2, <1>3, <1>4 DEF CallsAreKnown, Within
<1>6. Sound(stored', Known', spoilt', {}, {})
  <2>1. Sound(stored, Known, spoilt', {}, {})
    BY <1>1, <1>3, SoundMore
  <2>2. QED
    BY <1>1, <1>2, <2>1
<1>7. \A c \in executed' \ spoilt' : Hist!HasResult(stored', c)
  BY <1>1
<1>8. MemoryIsSound'
  BY <1>1, <1>6, <1>7, EmptySound DEF MemoryIsSound
<1>9. QED
  BY <1>1, <1>5, <1>8, NoRequest DEF HInv

LEMMA RestartHInv ==
    ASSUME Hist!HistoryAssumption, HInv, Hist!Restart
    PROVE  HInv'
<1>1. /\ dialogue = "down" /\ dialogue' = "prompt"
      /\ messages' \in {<<>>, Hist!Add(stored, Hist!Plain("resumed", 0))}
      /\ UNCHANGED <<stored, asked, todo, executed, spoilt, answers>>
  BY DEF Hist!Restart, Hist!calling, Hist!ghosts, Hist!bounds
<1>2. Sound(stored, Known, spoilt, {}, {}) /\ \A c \in executed \ spoilt : Hist!HasResult(stored, c)
  BY <1>1 DEF HInv, MemoryIsSound
<1>3. Sound(stored, Known, spoilt, executed \ spoilt, {})
  BY <1>2 DEF Sound, Answers
<1>4. Sound(messages', Known, spoilt, executed \ spoilt, {})
  BY <1>1, <1>3, EmptySound, PlainSound, PlainKinds
<1>5. asked' = <<>>
  BY <1>1, NoRequestNow
<1>6. QED
  BY <1>1, <1>4, <1>5, QuietHInv


(* The steps of a batch. *)

LEMMA LeftIs ==
    ASSUME HInv, NEW c \in Hist!Range(todo)
    PROVE  /\ Hist!Less(todo, c) \in Seq(CallIds) /\ Hist!Range(Hist!Less(todo, c)) \subseteq Hist!Range(todo)
           /\ Hist!Range(todo) \subseteq Hist!Range(Hist!Less(todo, c)) \union {c}
           /\ todo \in Seq(CallIds) /\ Hist!Range(todo) \subseteq Known /\ c \in CallIds /\ c \in Known
           /\ dialogue = "tools" /\ asked = <<>>
<1>1. todo \in Seq(CallIds) /\ \A x : Within(todo, x) => x \in Known
  BY DEF HInv, CallsAreKnown
<1>2. Within(todo, c)
  BY <1>1, InSet
<1>3. /\ Hist!Less(todo, c) \in Seq(CallIds)
      /\ \A i \in 1..Len(Hist!Less(todo, c)) : Within(todo, Hist!Less(todo, c)[i])
      /\ \A x : Within(todo, x) => x = c \/ Within(Hist!Less(todo, c), x)
  BY <1>1, <1>2, LessIs
<1>4. \A x : Within(Hist!Less(todo, c), x) => Within(todo, x)
  BY <1>3 DEF Within
<1>5. /\ \A x : x \in Hist!Range(todo) <=> Within(todo, x)
      /\ \A x : x \in Hist!Range(Hist!Less(todo, c)) <=> Within(Hist!Less(todo, c), x)
  BY <1>1, <1>3, InSet
<1>6. todo # <<>>
  BY <1>2 DEF Within
<1>7. dialogue = "tools" /\ asked = <<>>
  BY <1>6, NoRequestNow DEF HInv, CallsAreKnown
<1>8. c \in Known /\ c \in CallIds
  BY <1>1, <1>2 DEF Known
<1>9. QED
  BY <1>1, <1>3, <1>4, <1>5, <1>7, <1>8

LEMMA ToolStep ==
    ASSUME HInv, NEW c \in Hist!Range(todo), todo' \in {todo, Hist!Less(todo, c)},
           executed' \in {executed, executed \union {c}}, stored' \in {stored, messages},
           spoilt \subseteq spoilt', dialogue' = dialogue, asked' = asked, answers' = answers,
           Sound(messages', Known, spoilt', (executed' \ spoilt') \ Hist!Range(todo'),
                 Hist!Range(todo') \ spoilt')
    PROVE  HInv'
<1>1. /\ Hist!Less(todo, c) \in Seq(CallIds) /\ Hist!Range(Hist!Less(todo, c)) \subseteq Hist!Range(todo)
      /\ todo \in Seq(CallIds) /\ Hist!Range(todo) \subseteq Known /\ c \in Known
      /\ dialogue = "tools" /\ asked = <<>>
  BY LeftIs
<1>2. Known' = Known
  BY DEF Known
<1>3. /\ answers \in Nat /\ executed \subseteq Known /\ Sound(stored, Known, spoilt, {}, {})
      /\ Sound(messages, Known, spoilt, (executed \ spoilt) \ Hist!Range(todo), Hist!Range(todo) \ spoilt)
  BY DEF HInv, CallsAreKnown, MemoryIsSound
<1>4. CallsAreKnown'
  <2>1. todo' \in Seq(CallIds) /\ Hist!Range(todo') \subseteq Known
    BY <1>1
  <2>2. \A x : Within(todo', x) => x \in Known
    BY <2>1, InSet
  <2>3. executed' \subseteq Known /\ answers' \in Nat /\ dialogue' = "tools"
    BY <1>1, <1>3
  <2>4. QED
    BY <1>2, <2>1, <2>2, <2>3 DEF CallsAreKnown
<1>5. MemoryIsSound'
  <2>1. Sound(messages, Known, spoilt, {}, {})
    BY <1>3, SavedSound
  <2>2. Sound(stored', Known, spoilt, {}, {})
    BY <1>3, <2>1
  <2>3. Sound(stored', Known, spoilt', {}, {})
    BY <2>2, SoundMore
  <2>4. dialogue' # "down"
    BY <1>1
  <2>5. Hist!Range(todo)' = Hist!Range(todo')
    OBVIOUS
  <2>6. QED
    BY <1>2, <2>3, <2>4, <2>5 DEF MemoryIsSound
<1>6. QED
  BY <1>1, <1>4, <1>5, NoRequest DEF HInv

(* The result of a call is added, and the call is over, or runs again. *)
LEMMA AnsweredSound ==
    ASSUME Hist!HistoryAssumption, HInv, NEW c \in Hist!Range(todo), NEW z \in Nat
    PROVE  Sound(Hist!Add(messages, Hist!ResultOf(c, z)), Known, spoilt,
                 ((executed \ spoilt) \ Hist!Range(todo)) \union ({c} \ spoilt), Hist!Range(todo) \ spoilt)
<1>1. c \in CallIds /\ c \in Known
  BY LeftIs
<1>2. Sound(messages, Known, spoilt, (executed \ spoilt) \ Hist!Range(todo), Hist!Range(todo) \ spoilt)
  BY DEF HInv, MemoryIsSound
<1>3. c \in (Hist!Range(todo) \ spoilt) \union spoilt
  OBVIOUS
<1>4. QED
  BY <1>1, <1>2, <1>3, ResultSound

LEMMA NotedSound ==
    ASSUME Hist!HistoryAssumption, HInv, NEW c \in Hist!Range(todo), NEW z \in Nat,
           NEW P, P = spoilt \union (Hist!Range(todo) \ {c})
    PROVE  Sound(Hist!Add(Hist!Add(messages, Hist!ResultOf(c, z)), Hist!Plain("note", 0)), Known, P,
                 ((executed \ spoilt) \ Hist!Range(todo)) \union ({c} \ spoilt), {})
<1> DEFINE A == ((executed \ spoilt) \ Hist!Range(todo)) \union ({c} \ spoilt)
           h == Hist!Add(messages, Hist!ResultOf(c, z))
<1>1. Sound(h, Known, spoilt, A, Hist!Range(todo) \ spoilt)
  BY AnsweredSound
<1> HIDE DEF h, A
<1>2. Sound(h, Known, P, A, {})
  BY <1>1, SoundMore
<1>3. Sound(Hist!Add(h, Hist!Plain("note", 0)), Known, P, A, {})
  BY <1>2, PlainSound, PlainKinds
<1>4. QED
  BY <1>3 DEF h, A

LEMMA BatchHInv ==
    ASSUME Hist!HistoryAssumption, HInv, Hist!Batch
    PROVE  HInv'
<1> DEFINE n == Len(messages)
           s == messages[n].ids
<1>1. /\ dialogue = "act" /\ messages # <<>> /\ messages[n].kind = "calls" /\ todo' = s /\ dialogue' = "tools"
      /\ UNCHANGED <<messages, stored, asked, executed, spoilt, answers>>
  BY DEF Hist!Batch, Hist!Newer, Hist!ghosts, Hist!bounds
<1>2. todo = <<>> /\ Sound(messages, Known, spoilt, executed \ spoilt, {}) /\ asked = <<>>
  BY <1>1, Idle, NoRequestNow
<1>3. /\ messages \in Seq(Stored) /\ n \in Nat /\ n \in 1..n /\ IsCalls(messages[n])
      /\ s \in Seq(CallIds)
  <2>1. messages \in Seq(Stored)
    BY <1>2 DEF Sound
  <2>2. n \in Nat /\ n \in 1..n
    BY <1>1, <2>1
  <2>3. messages[n] \in Stored
    BY <2>1, <2>2
  <2>4. QED
    BY <1>1, <2>1, <2>2, <2>3 DEF Stored, Msgs, IsCalls
<1>4. Known' = Known
  BY <1>1 DEF Known
<1>5. \A c : Within(s, c) => c \in Known
  BY <1>2, <1>3 DEF Sound, HasCall
<1>6. \A c : c \in Hist!Range(s) <=> Within(s, c)
  BY <1>3, InSet
<1>7. Sound(messages, Known, spoilt, (executed \ spoilt) \ Hist!Range(s), Hist!Range(s) \ spoilt)
  <2>1. ASSUME NEW b \in 1..Len(messages), IsCalls(messages[b]), NEW c, Within(messages[b].ids, c)
        PROVE  Answers(messages, b, c, spoilt, (executed \ spoilt) \ Hist!Range(s), Hist!Range(s) \ spoilt)
    <3>1. Answers(messages, b, c, spoilt, executed \ spoilt, {})
      BY <1>2, <2>1 DEF Sound
    <3>2. ASSUME c \in Hist!Range(s) PROVE OpenAt(messages, b)
      <4>1. Within(messages[n].ids, c)
        BY <1>6, <3>2
      <4>2. b = n
        BY <1>2, <1>3, <2>1, <4>1 DEF Sound, Unique
      <4>3. \A j \in b + 1..Len(messages) : FALSE
        BY <1>3, <4>2
      <4>4. QED
        BY <4>3 DEF OpenAt
    <3>3. QED
      BY <3>1, <3>2 DEF Answers
  <2> HIDE DEF n, s
  <2>2. QED
    BY <1>2, <2>1 DEF Sound
<1> HIDE DEF n, s
<1>8. CallsAreKnown'
  BY <1>1, <1>3, <1>4, <1>5 DEF HInv, CallsAreKnown
<1>9. MemoryIsSound'
  <2>1. Sound(stored, Known, spoilt, {}, {})
    BY DEF HInv, MemoryIsSound
  <2>2. Hist!Range(todo)' = Hist!Range(s)
    BY <1>1
  <2>3. dialogue' # "down"
    BY <1>1
  <2>4. QED
    BY <1>1, <1>4, <1>7, <2>1, <2>2, <2>3 DEF MemoryIsSound
<1>10. QED
  BY <1>1, <1>2, <1>8, <1>9, NoRequest DEF HInv

LEMMA DenyHInv ==
    ASSUME Hist!HistoryAssumption, HInv, NEW c \in Hist!Range(todo), Hist!Deny(c)
    PROVE  HInv'
<1>1. /\ messages' = Hist!Add(Hist!Add(messages, Hist!Plain("note", 0)), Hist!ResultOf(c, 0))
      /\ spoilt' = spoilt \union Hist!Range(todo) /\ todo' = Hist!Less(todo, c)
      /\ UNCHANGED <<stored, dialogue, asked, executed, answers>>
  BY DEF Hist!Deny, Hist!CutOff, Hist!Over
<1>2. /\ Hist!Range(Hist!Less(todo, c)) \subseteq Hist!Range(todo)
      /\ Hist!Range(todo) \subseteq Hist!Range(Hist!Less(todo, c)) \union {c}
      /\ c \in CallIds /\ c \in Known
  BY LeftIs
<1> DEFINE A == (executed \ spoilt) \ Hist!Range(todo)
           h == Hist!Add(messages, Hist!Plain("note", 0))
<1>3. Sound(messages, Known, spoilt', A, {})
  <2>1. Sound(messages, Known, spoilt, A, Hist!Range(todo) \ spoilt)
    BY DEF HInv, MemoryIsSound
  <2>2. QED
    BY <1>1, <2>1, SoundMore
<1>4. Sound(h, Known, spoilt', A, {})
  BY <1>3, PlainSound, PlainKinds
<1>5. Sound(messages', Known, spoilt', A \union ({c} \ spoilt'), {})
  <2>1. c \in {} \union spoilt'
    BY <1>1
  <2>2. messages' = Hist!Add(h, Hist!ResultOf(c, 0))
    BY <1>1
  <2> HIDE DEF h, A
  <2>3. QED
    BY <1>2, <1>4, <2>1, <2>2, ResultSound
<1> HIDE DEF h
<1>6. (executed' \ spoilt') \ Hist!Range(todo') \subseteq A \union ({c} \ spoilt')
      /\ Hist!Range(todo') \ spoilt' = {}
  BY <1>1, <1>2
<1> HIDE DEF A
<1>7. Sound(messages', Known, spoilt', (executed' \ spoilt') \ Hist!Range(todo'), Hist!Range(todo') \ spoilt')
  BY <1>5, <1>6, SoundMore
<1>8. spoilt \subseteq spoilt' /\ todo' \in {todo, Hist!Less(todo, c)}
      /\ executed' \in {executed, executed \union {c}} /\ stored' \in {stored, messages}
  BY <1>1
<1>9. QED
  BY <1>1, <1>7, <1>8, ToolStep

LEMMA RunHInv ==
    ASSUME Hist!HistoryAssumption, HInv, NEW c \in Hist!Range(todo), Hist!Run(c)
    PROVE  HInv'
<1>1. /\ executed' = executed \union {c} /\ stored' \in {stored, messages}
      /\ UNCHANGED <<messages, dialogue, asked, todo, spoilt, answers>>
  BY DEF Hist!Run, Hist!bounds
<1>2. Sound(messages, Known, spoilt, (executed \ spoilt) \ Hist!Range(todo), Hist!Range(todo) \ spoilt)
  BY DEF HInv, MemoryIsSound
<1>3. (executed' \ spoilt') \ Hist!Range(todo') = (executed \ spoilt) \ Hist!Range(todo)
      /\ Hist!Range(todo') \ spoilt' = Hist!Range(todo) \ spoilt
  BY <1>1
<1>4. Sound(messages', Known, spoilt', (executed' \ spoilt') \ Hist!Range(todo'), Hist!Range(todo') \ spoilt')
  BY <1>1, <1>2, <1>3
<1>5. spoilt \subseteq spoilt' /\ todo' \in {todo, Hist!Less(todo, c)}
      /\ executed' \in {executed, executed \union {c}}
  BY <1>1
<1>6. QED
  BY <1>1, <1>4, <1>5, ToolStep

LEMMA SuccessHInv ==
    ASSUME Hist!HistoryAssumption, HInv, NEW c \in Hist!Range(todo), Hist!Success(c)
    PROVE  HInv'
<1>1. /\ messages' = Hist!Add(messages, Hist!ResultOf(c, 2)) /\ todo' = Hist!Less(todo, c)
      /\ UNCHANGED <<stored, dialogue, asked, executed, spoilt, answers>>
  BY DEF Hist!Success, Hist!Over, Hist!bounds, Hist!ghosts
<1>2. /\ Hist!Range(Hist!Less(todo, c)) \subseteq Hist!Range(todo)
      /\ Hist!Range(todo) \subseteq Hist!Range(Hist!Less(todo, c)) \union {c}
  BY LeftIs
<1> DEFINE A == ((executed \ spoilt) \ Hist!Range(todo)) \union ({c} \ spoilt)
<1>3. Sound(messages', Known, spoilt', A, Hist!Range(todo) \ spoilt)
  BY <1>1, AnsweredSound
<1>4. (executed' \ spoilt') \ Hist!Range(todo') \subseteq A
      /\ Hist!Range(todo') \ spoilt' \subseteq (Hist!Range(todo) \ spoilt) \union A
  BY <1>1, <1>2
<1> HIDE DEF A
<1>5. Sound(messages', Known, spoilt', (executed' \ spoilt') \ Hist!Range(todo'), Hist!Range(todo') \ spoilt')
  BY <1>3, <1>4, SoundMore
<1>6. spoilt \subseteq spoilt' /\ todo' \in {todo, Hist!Less(todo, c)}
      /\ executed' \in {executed, executed \union {c}} /\ stored' \in {stored, messages}
  BY <1>1
<1>7. QED
  BY <1>1, <1>5, <1>6, ToolStep

(* A result with a note behind it: the other calls of the answer are cut off. *)
LEMMA NotedStep ==
    ASSUME Hist!HistoryAssumption, HInv, NEW c \in Hist!Range(todo),
           messages' = Hist!Add(Hist!Add(messages, Hist!ResultOf(c, 0)), Hist!Plain("note", 0)),
           spoilt' = spoilt \union (Hist!Range(todo) \ {c}), todo' \in {todo, Hist!Less(todo, c)},
           executed' \in {executed, executed \union {c}},
           stored' = stored, dialogue' = dialogue, asked' = asked, answers' = answers
    PROVE  HInv'
<1>1. /\ Hist!Range(Hist!Less(todo, c)) \subseteq Hist!Range(todo)
      /\ Hist!Range(todo) \subseteq Hist!Range(Hist!Less(todo, c)) \union {c}
  BY LeftIs
<1> DEFINE A == ((executed \ spoilt) \ Hist!Range(todo)) \union ({c} \ spoilt)
<1>2. Sound(messages', Known, spoilt', A, {})
  BY NotedSound
<1>3. Hist!Range(todo') \subseteq Hist!Range(todo) /\ Hist!Range(todo) \subseteq Hist!Range(todo') \union {c}
  BY <1>1
<1>4. (executed' \ spoilt') \ Hist!Range(todo') \subseteq A
      /\ Hist!Range(todo') \ spoilt' \subseteq {} \union A
  BY <1>3
<1> HIDE DEF A
<1>5. Sound(messages', Known, spoilt', (executed' \ spoilt') \ Hist!Range(todo'), Hist!Range(todo') \ spoilt')
  BY <1>2, <1>4, SoundMore
<1>6. spoilt \subseteq spoilt' /\ stored' \in {stored, messages}
  OBVIOUS
<1>7. QED
  BY <1>5, <1>6, ToolStep

LEMMA FailureHInv ==
    ASSUME Hist!HistoryAssumption, HInv, NEW c \in Hist!Range(todo), Hist!Failure(c)
    PROVE  HInv'
<1>1. /\ messages' = Hist!Add(Hist!Add(messages, Hist!ResultOf(c, 0)), Hist!Plain("note", 0))
      /\ spoilt' = spoilt \union (Hist!Range(todo) \ {c}) /\ todo' = Hist!Less(todo, c)
      /\ UNCHANGED <<stored, dialogue, asked, executed, answers>>
  BY DEF Hist!Failure, Hist!CutOff, Hist!Over
<1>2. QED
  BY <1>1, NotedStep

LEMMA BlockedHInv ==
    ASSUME Hist!HistoryAssumption, HInv, NEW c \in Hist!Range(todo), Hist!Blocked(c)
    PROVE  HInv'
<1>1. /\ executed' = executed \union {c} /\ todo' = Hist!Less(todo, c)
      /\ \/ messages' = Hist!Add(messages, Hist!ResultOf(c, 0)) /\ spoilt' = spoilt
         \/ /\ messages' = Hist!Add(Hist!Add(messages, Hist!ResultOf(c, 0)), Hist!Plain("note", 0))
            /\ spoilt' = spoilt \union (Hist!Range(todo) \ {c})
      /\ UNCHANGED <<stored, dialogue, asked, answers>>
  BY DEF Hist!Blocked, Hist!CutOff, Hist!Over
<1>2. CASE messages' = Hist!Add(messages, Hist!ResultOf(c, 0)) /\ spoilt' = spoilt
  <2>1. /\ Hist!Range(Hist!Less(todo, c)) \subseteq Hist!Range(todo)
        /\ Hist!Range(todo) \subseteq Hist!Range(Hist!Less(todo, c)) \union {c}
    BY LeftIs
  <2> DEFINE A == ((executed \ spoilt) \ Hist!Range(todo)) \union ({c} \ spoilt)
  <2>2. Sound(messages', Known, spoilt', A, Hist!Range(todo) \ spoilt)
    BY <1>2, AnsweredSound
  <2>3. (executed' \ spoilt') \ Hist!Range(todo') \subseteq A
        /\ Hist!Range(todo') \ spoilt' \subseteq (Hist!Range(todo) \ spoilt) \union A
    BY <1>1, <1>2, <2>1
  <2> HIDE DEF A
  <2>4. Sound(messages', Known, spoilt', (executed' \ spoilt') \ Hist!Range(todo'),
              Hist!Range(todo') \ spoilt')
    BY <2>2, <2>3, SoundMore
  <2>5. spoilt \subseteq spoilt' /\ stored' \in {stored, messages}
    BY <1>1, <1>2
  <2>6. QED
    BY <1>1, <2>4, <2>5, ToolStep
<1>3. CASE /\ messages' = Hist!Add(Hist!Add(messages, Hist!ResultOf(c, 0)), Hist!Plain("note", 0))
           /\ spoilt' = spoilt \union (Hist!Range(todo) \ {c})
  BY <1>1, <1>3, NotedStep
<1>4. QED
  BY <1>1, <1>2, <1>3

LEMMA RaiseHInv ==
    ASSUME Hist!HistoryAssumption, HInv, NEW c \in Hist!Range(todo), Hist!Raise(c)
    PROVE  HInv'
<1>1. /\ messages' = Hist!Add(Hist!Add(messages, Hist!ResultOf(c, 0)), Hist!Plain("note", 0))
      /\ spoilt' = spoilt \union (Hist!Range(todo) \ {c}) /\ todo' = todo
      /\ executed' = executed \union {c}
      /\ UNCHANGED <<stored, dialogue, asked, answers>>
  BY DEF Hist!Raise, Hist!CutOff
<1>2. QED
  BY <1>1, NotedStep

LEMMA CancelHInv ==
    ASSUME Hist!HistoryAssumption, HInv, Hist!Cancel
    PROVE  HInv'
<1>1. PICK some : messages' = Hist!WithResults(messages, todo, some)
  BY DEF Hist!Cancel
<1>2. /\ spoilt' = spoilt \union Hist!Range(todo) /\ todo' = <<>> /\ asked' = <<>> /\ dialogue' = "end"
      /\ UNCHANGED <<stored, executed, answers>>
  BY DEF Hist!Cancel, Hist!CutOff
<1>3. /\ CallsAreKnown /\ answers \in Nat /\ todo \in Seq(CallIds)
      /\ \A c : Within(todo, c) => c \in Known
      /\ Sound(stored, Known, spoilt, {}, {})
      /\ Sound(messages, Known, spoilt, (executed \ spoilt) \ Hist!Range(todo), Hist!Range(todo) \ spoilt)
  BY DEF HInv, CallsAreKnown, MemoryIsSound
<1> DEFINE A == executed' \ spoilt'
<1>4. A \subseteq (executed \ spoilt) \ Hist!Range(todo) /\ spoilt \subseteq spoilt'
  BY <1>2
<1> HIDE DEF A
<1>5. Sound(messages, Known, spoilt', A, {}) /\ Sound(stored, Known, spoilt', {}, {})
  BY <1>3, <1>4, SoundMore
<1>6. \A c : Within(todo, c) => c \in Known /\ c \in spoilt'
  BY <1>2, <1>3, InSet
<1>7. Sound(messages', Known, spoilt', A, {})
  BY <1>1, <1>3, <1>5, <1>6, WithResultsSound
<1>8. Known' = Known
  BY <1>2 DEF Known
<1>9. RequestIsWhole'
  BY <1>2, NoRequest
<1>10. Sound(messages', Known', spoilt', executed' \ spoilt', {})
       /\ Sound(stored', Known', spoilt', {}, {})
  BY <1>2, <1>5, <1>7, <1>8 DEF A
<1>11. dialogue' # "down" /\ answers' \in Nat /\ Known \subseteq Known' /\ executed' = executed
  BY <1>2, <1>3, <1>8
<1>12. QED
  BY <1>2, <1>3, <1>9, <1>10, <1>11, IdleStep

LEMMA HStays ==
    ASSUME HInv, UNCHANGED Hist!vars
    PROVE  HInv'
<1>1. UNCHANGED <<messages, stored, dialogue, asked, todo, executed, spoilt, answers>>
  BY DEF Hist!vars, Hist!calling, Hist!ghosts, Hist!bounds
<1>2. Known' = Known
  BY <1>1 DEF Known
<1>3. CallsAreKnown' = CallsAreKnown /\ RequestIsWhole' = RequestIsWhole
  BY <1>1, <1>2 DEF CallsAreKnown, RequestIsWhole
<1>4. MemoryIsSound' = MemoryIsSound
  BY <1>1, <1>2 DEF MemoryIsSound
<1>5. QED
  BY <1>3, <1>4 DEF HInv

LEMMA HNext ==
    ASSUME Hist!HistoryAssumption, HInv, [Hist!Next]_(Hist!vars)
    PROVE  HInv'
<1>1. CASE \E c \in Hist!Range(todo) :
             Hist!Deny(c) \/ Hist!Run(c) \/ Hist!Success(c) \/ Hist!Failure(c) \/ Hist!Blocked(c) \/ Hist!Raise(c)
  BY <1>1, DenyHInv, RunHInv, SuccessHInv, FailureHInv, BlockedHInv, RaiseHInv
<1>2. CASE UNCHANGED Hist!vars
  BY <1>2, HStays
<1>3. QED
  BY <1>1, <1>2, PromptHInv, StepHInv, ThinkHInv, OverflowHInv, AnswerHInv, TextHInv, BatchHInv,
     NothingHInv, BatchOverHInv, EndHInv, CancelHInv, CompressHInv, KillHInv, RestartHInv DEF Hist!Next

LEMMA HShows ==
    ASSUME HInv
    PROVE  Hist!RequestIsValid /\ Hist!ResultsAreShown
<1>1. asked \in Seq(Msgs) /\ Whole(asked)
  BY DEF HInv, RequestIsWhole
<1>2. DOMAIN asked = 1..Len(asked)
  BY <1>1
<1>3. Hist!ResultsAreShown
  BY <1>2 DEF HInv, RequestIsWhole, Hist!ResultsAreShown
<1>4. QED
  BY <1>1, <1>3, WholeIsValid

-----------------------------------------------------------------------------
(* Induction over a history, and what its messages of some kinds and its    *)
(* size are.                                                               *)

LEMMA Induction ==
    ASSUME NEW A, NEW h \in Seq(A), NEW S, <<>> \in S,
           \A g \in Seq(A) : \A m \in A : g \in S => Append(g, m) \in S
    PROVE  h \in S
<1> DEFINE n == Len(h)
           p(i) == SubSeq(h, 1, i)
           T == {i \in 0..n : p(i) \in S}
<1>1. n \in Nat /\ \A i \in 1..n : h[i] \in A
  OBVIOUS
<1>2. \A i \in 0..n : p(i) \in Seq(A) /\ Len(p(i)) = i /\ \A j \in 1..i : p(i)[j] = h[j]
  BY <1>1
<1>3. 0 \in T
  <2>1. 0 \in 0..n
    BY <1>1
  <2>2. p(0) \in Seq(A) /\ Len(p(0)) = 0
    BY <1>2, <2>1
  <2> HIDE DEF p
  <2>3. p(0) = <<>>
    BY <2>2
  <2>4. QED
    BY <2>1, <2>3
<1>4. ASSUME NEW i \in 0..n - 1, i \in T PROVE i + 1 \in T
  <2>1. i \in 0..n /\ i + 1 \in 0..n /\ h[i + 1] \in A
    BY <1>1
  <2>2. p(i) \in Seq(A) /\ Len(p(i)) = i /\ \A j \in 1..i : p(i)[j] = h[j]
    BY <1>2, <2>1
  <2>3. p(i + 1) \in Seq(A) /\ Len(p(i + 1)) = i + 1 /\ \A j \in 1..i + 1 : p(i + 1)[j] = h[j]
    BY <1>2, <2>1
  <2>4. p(i) \in S
    BY <1>4
  <2> HIDE DEF p
  <2>5. /\ Append(p(i), h[i + 1]) \in Seq(A) /\ Len(Append(p(i), h[i + 1])) = i + 1
        /\ \A j \in 1..i + 1 : Append(p(i), h[i + 1])[j] = h[j]
    BY <1>1, <2>1, <2>2
  <2>6. p(i + 1) = Append(p(i), h[i + 1])
    BY <2>3, <2>5, Same
  <2>7. Append(p(i), h[i + 1]) \in S
    BY <2>1, <2>2, <2>4
  <2>8. QED
    BY <2>1, <2>6, <2>7
<1>5. n \in T
  <2> HIDE DEF T
  <2>1. 0..n \subseteq T
    BY <1>1, <1>3, <1>4, UpTo
  <2>2. QED
    BY <1>1, <2>1
<1>6. p(n) = h
  <2>1. p(n) \in Seq(A) /\ Len(p(n)) = n /\ \A j \in 1..n : p(n)[j] = h[j]
    BY <1>1, <1>2
  <2> HIDE DEF p
  <2>2. QED
    BY <2>1, Same
<1>7. p(n) \in S
  <2> HIDE DEF p
  <2>1. QED
    BY <1>5
<1> HIDE DEF p
<1>8. QED
  BY <1>6, <1>7

LEMMA AmongAppend ==
    ASSUME NEW h \in Seq(Stored), NEW m \in Stored, NEW kinds
    PROVE  Hist!Among(Append(h, m), kinds) = Pick(Hist!Among(h, kinds), m, kinds)
<1> DEFINE g == Append(h, m)
           n == Len(h)
<1>1. PICK e \in [0..n -> Seq(Stored)] :
        /\ e[0] = <<>> /\ Hist!Among(h, kinds) = e[n]
        /\ \A i \in 1..n : e[i] = Pick(e[i - 1], h[i], kinds)
  BY AmongPasses
<1>2. /\ g \in Seq(Stored) /\ Len(g) = n + 1 /\ n \in Nat /\ g[n + 1] = m
      /\ \A i \in 1..n : g[i] = h[i]
  BY AppendStored
<1> HIDE DEF g
<1>3. PICK f \in [0..Len(g) -> Seq(Stored)] :
        /\ f[0] = <<>> /\ Hist!Among(g, kinds) = f[Len(g)]
        /\ \A i \in 1..Len(g) : f[i] = Pick(f[i - 1], g[i], kinds)
  BY <1>2, AmongPasses
<1> DEFINE S == {i \in 0..n : f[i] = e[i]}
<1>4. 0 \in S
  BY <1>1, <1>2, <1>3
<1>5. ASSUME NEW i \in 0..n - 1, i \in S PROVE i + 1 \in S
  <2>1. i + 1 \in 1..n /\ i + 1 \in 1..Len(g) /\ i + 1 \in 0..n /\ i + 1 - 1 = i
    BY <1>2
  <2>2. e[i + 1] = Pick(e[i], h[i + 1], kinds) /\ f[i + 1] = Pick(f[i], g[i + 1], kinds)
    BY <1>1, <1>3, <2>1
  <2>3. f[i] = e[i] /\ g[i + 1] = h[i + 1]
    BY <1>2, <1>5, <2>1
  <2>4. QED
    BY <2>1, <2>2, <2>3
<1>6. n \in S
  <2> HIDE DEF S
  <2>1. 0..n \subseteq S
    BY <1>2, <1>4, <1>5, UpTo
  <2>2. QED
    BY <1>2, <2>1
<1>7. n + 1 \in 1..Len(g) /\ n + 1 - 1 = n
  BY <1>2
<1>8. f[n + 1] = Pick(f[n], m, kinds)
  BY <1>2, <1>3, <1>7
<1>9. QED
  BY <1>1, <1>2, <1>3, <1>6, <1>8 DEF g

LEMMA AmongNothing ==
    ASSUME NEW kinds
    PROVE  Hist!Among(<<>>, kinds) = <<>>
<1>1. <<>> \in Seq(Stored) /\ Len(<<>>) = 0
  OBVIOUS
<1>2. \E f \in [0..Len(<<>>) -> Seq(Stored)] : f[0] = <<>> /\ Hist!Among(<<>>, kinds) = f[Len(<<>>)]
  BY <1>1, AmongPasses
<1>3. QED
  BY <1>1, <1>2

LEMMA AmongStored ==
    ASSUME NEW h \in Seq(Stored), NEW kinds
    PROVE  /\ Hist!Among(h, kinds) \in Seq(Stored)
           /\ \A i \in 1..Len(Hist!Among(h, kinds)) :
                /\ Hist!Among(h, kinds)[i].kind \in kinds
                /\ \E j \in 1..Len(h) : Hist!Among(h, kinds)[i] = h[j]
<1> DEFINE P(g, a) == /\ a \in Seq(Stored)
                      /\ \A i \in 1..Len(a) : a[i].kind \in kinds /\ \E j \in 1..Len(g) : a[i] = g[j]
           S == {g \in Seq(Stored) : P(g, Hist!Among(g, kinds))}
<1>1. <<>> \in S
  <2>1. <<>> \in Seq(Stored) /\ Len(<<>>) = 0
    OBVIOUS
  <2>2. P(<<>>, <<>>)
    BY <2>1
  <2>3. Hist!Among(<<>>, kinds) = <<>>
    BY AmongNothing
  <2> HIDE DEF P
  <2>4. QED
    BY <2>1, <2>2, <2>3
<1>2. ASSUME NEW g \in Seq(Stored), NEW m \in Stored, g \in S PROVE Append(g, m) \in S
  <2> DEFINE a == Hist!Among(g, kinds)
             g2 == Append(g, m)
  <2>1. P(g, a)
    BY <1>2
  <2>2. Hist!Among(g2, kinds) = Pick(a, m, kinds)
    BY AmongAppend
  <2> HIDE DEF a
  <2>3. /\ g2 \in Seq(Stored) /\ Len(g) \in Nat /\ g2[Len(g) + 1] = m /\ Len(g) + 1 \in 1..Len(g2)
        /\ \A j \in 1..Len(g) : g2[j] = g[j] /\ j \in 1..Len(g2)
    BY AppendStored
  <2> HIDE DEF g2
  <2>4. CASE m.kind \in kinds
    <3>1. Pick(a, m, kinds) = Append(a, m)
      BY <2>4 DEF Pick
    <3>2. /\ Append(a, m) \in Seq(Stored) /\ Append(a, m)[Len(a) + 1] = m
          /\ \A i \in 1..Len(a) : Append(a, m)[i] = a[i]
          /\ \A i \in 1..Len(Append(a, m)) : i \in 1..Len(a) \/ i = Len(a) + 1
      BY <2>1, AppendStored
    <3> DEFINE b == Append(a, m)
    <3> HIDE DEF b
    <3>3. /\ b \in Seq(Stored) /\ b[Len(a) + 1] = m
          /\ \A i \in 1..Len(a) : b[i] = a[i]
          /\ \A i \in 1..Len(b) : i \in 1..Len(a) \/ i = Len(a) + 1
      BY <3>2 DEF b
    <3>4. P(g2, b)
      BY <2>1, <2>3, <2>4, <3>3
    <3>5. QED
      BY <2>2, <2>3, <3>1, <3>4 DEF b, g2
  <2>5. CASE m.kind \notin kinds
    <3>1. Pick(a, m, kinds) = a
      BY <2>5 DEF Pick
    <3>2. P(g2, a)
      BY <2>1, <2>3
    <3>3. QED
      BY <2>2, <2>3, <3>1, <3>2 DEF g2
  <2>6. QED
    BY <2>4, <2>5
<1>3. h \in S
  <2>1. \A g \in Seq(Stored) : \A m \in Stored : g \in S => Append(g, m) \in S
    BY <1>2
  <2> HIDE DEF S
  <2>2. QED
    BY <1>1, <2>1, Induction
<1>4. QED
  BY <1>3

LEMMA ConcatAppend ==
    ASSUME NEW A, NEW p \in Seq(A), NEW g \in Seq(A), NEW m \in A
    PROVE  /\ p \o Append(g, m) = Append(p \o g, m) /\ p \o <<>> = p
           /\ p \o Append(g, m) \in Seq(A) /\ p \o g \in Seq(A)
<1> DEFINE s == p \o Append(g, m)
           t == Append(p \o g, m)
<1>1. /\ Append(g, m) \in Seq(A) /\ Len(Append(g, m)) = Len(g) + 1 /\ Len(g) \in Nat /\ Len(p) \in Nat
      /\ \A i \in 1..Len(g) : Append(g, m)[i] = g[i]
      /\ Append(g, m)[Len(g) + 1] = m
  OBVIOUS
<1>2. p \o g \in Seq(A) /\ Len(p \o g) = Len(p) + Len(g)
      /\ (\A i \in 1..Len(p) : (p \o g)[i] = p[i])
      /\ \A i \in 1..Len(g) : (p \o g)[Len(p) + i] = g[i]
  BY Concat
<1>3. s \in Seq(A) /\ Len(s) = Len(p) + Len(g) + 1
      /\ (\A i \in 1..Len(p) : s[i] = p[i])
      /\ \A i \in 1..Len(g) + 1 : s[Len(p) + i] = Append(g, m)[i]
  BY <1>1, Concat
<1>4. t \in Seq(A) /\ Len(t) = Len(p) + Len(g) + 1 /\ t[Len(p) + Len(g) + 1] = m
      /\ \A i \in 1..Len(p) + Len(g) : t[i] = (p \o g)[i]
  BY <1>1, <1>2
<1> HIDE DEF s, t
<1>5. ASSUME NEW i \in 1..Len(s) PROVE s[i] = t[i]
  <2>1. CASE i \in 1..Len(p)
    <3>1. i \in 1..Len(p) + Len(g)
      BY <1>1, <2>1
    <3>2. QED
      BY <1>2, <1>3, <1>4, <2>1, <3>1
  <2>2. CASE i \in Len(p) + 1..Len(p) + Len(g)
    <3>1. i - Len(p) \in 1..Len(g) /\ i - Len(p) \in 1..Len(g) + 1 /\ Len(p) + (i - Len(p)) = i
          /\ i \in 1..Len(p) + Len(g)
      BY <1>1, <2>2
    <3>2. s[i] = Append(g, m)[i - Len(p)]
      BY <1>3, <3>1
    <3>3. (p \o g)[i] = g[i - Len(p)]
      BY <1>2, <3>1
    <3>4. QED
      BY <1>1, <1>4, <3>1, <3>2, <3>3
  <2>3. CASE i = Len(p) + Len(g) + 1
    <3>1. Len(g) + 1 \in 1..Len(g) + 1 /\ Len(p) + (Len(g) + 1) = i
      BY <1>1, <2>3
    <3>2. s[i] = Append(g, m)[Len(g) + 1]
      BY <1>3, <3>1
    <3>3. QED
      BY <1>1, <1>4, <2>3, <3>2
  <2>4. QED
    BY <1>1, <1>3, <2>1, <2>2, <2>3
<1>6. s = t
  BY <1>3, <1>4, <1>5, Same
<1>7. p \o <<>> = p
  OBVIOUS
<1>8. QED
  BY <1>2, <1>3, <1>6, <1>7 DEF s, t

LEMMA AmongConcat ==
    ASSUME NEW p \in Seq(Stored), NEW h \in Seq(Stored), NEW kinds
    PROVE  Hist!Among(p \o h, kinds) = Hist!Among(p, kinds) \o Hist!Among(h, kinds)
<1> DEFINE a == Hist!Among(p, kinds)
           P(g) == Hist!Among(p \o g, kinds) = a \o Hist!Among(g, kinds)
           S == {g \in Seq(Stored) : P(g)}
<1>1. a \in Seq(Stored)
  BY AmongStored
<1>2. <<>> \in S
  <2>1. <<>> \in Seq(Stored) /\ p \o <<>> = p /\ a \o <<>> = a
    BY <1>1
  <2>2. QED
    BY <2>1, AmongNothing
<1>3. ASSUME NEW g \in Seq(Stored), NEW m \in Stored, g \in S PROVE Append(g, m) \in S
  <2> DEFINE b == Hist!Among(g, kinds)
  <2>1. Hist!Among(p \o g, kinds) = a \o b /\ b \in Seq(Stored) /\ Append(g, m) \in Seq(Stored)
    BY <1>3, AmongStored
  <2>2. p \o Append(g, m) = Append(p \o g, m) /\ p \o g \in Seq(Stored)
        /\ a \o Append(b, m) = Append(a \o b, m)
    <3>1. p \o Append(g, m) = Append(p \o g, m) /\ p \o g \in Seq(Stored)
      BY ConcatAppend
    <3> HIDE DEF a, b
    <3>2. a \o Append(b, m) = Append(a \o b, m)
      BY <1>1, <2>1, ConcatAppend
    <3>3. QED
      BY <3>1, <3>2
  <2>3. Hist!Among(Append(p \o g, m), kinds) = Pick(a \o b, m, kinds)
    <3> DEFINE q == p \o g
    <3> HIDE DEF q
    <3>1. q \in Seq(Stored)
      BY <2>2 DEF q
    <3>2. Hist!Among(Append(q, m), kinds) = Pick(Hist!Among(q, kinds), m, kinds)
      BY <3>1, AmongAppend
    <3>3. QED
      BY <2>1, <3>2 DEF q
  <2>4. Hist!Among(Append(g, m), kinds) = Pick(b, m, kinds)
    BY AmongAppend
  <2> HIDE DEF a, b
  <2>5. Pick(a \o b, m, kinds) = a \o Pick(b, m, kinds)
    BY <2>2 DEF Pick
  <2>6. P(Append(g, m))
    BY <2>2, <2>3, <2>4, <2>5
  <2>7. QED
    BY <2>1, <2>6
<1>4. h \in S
  <2>1. \A g \in Seq(Stored) : \A m \in Stored : g \in S => Append(g, m) \in S
    BY <1>3
  <2> HIDE DEF S
  <2>2. QED
    BY <1>2, <2>1, Induction
<1>5. QED
  BY <1>4

LEMMA AmongAll ==
    ASSUME NEW h \in Seq(Stored), NEW kinds, \A i \in 1..Len(h) : h[i].kind \in kinds
    PROVE  Hist!Among(h, kinds) = h
<1> DEFINE All(g) == \A i \in 1..Len(g) : g[i].kind \in kinds
           S == {g \in Seq(Stored) : All(g) => Hist!Among(g, kinds) = g}
<1>1. <<>> \in S
  BY AmongNothing
<1>2. ASSUME NEW g \in Seq(Stored), NEW m \in Stored, g \in S PROVE Append(g, m) \in S
  <2> DEFINE f == Append(g, m)
  <2>1. /\ f \in Seq(Stored) /\ f[Len(g) + 1] = m /\ Len(g) + 1 \in 1..Len(f)
        /\ \A i \in 1..Len(g) : f[i] = g[i] /\ i \in 1..Len(f)
    BY AppendStored
  <2>2. Hist!Among(f, kinds) = Pick(Hist!Among(g, kinds), m, kinds)
    BY AmongAppend
  <2>3. ASSUME All(f) PROVE Hist!Among(f, kinds) = f
    <3> HIDE DEF f
    <3>1. m.kind \in kinds /\ All(g)
      BY <2>1, <2>3
    <3>2. Hist!Among(g, kinds) = g
      BY <1>2, <3>1
    <3>3. QED
      BY <2>2, <3>1, <3>2 DEF Pick, f
  <2> HIDE DEF All, f
  <2>4. f \in S
    BY <2>1, <2>3
  <2>5. QED
    BY <2>4 DEF f
<1>3. h \in S
  <2>1. \A g \in Seq(Stored) : \A m \in Stored : g \in S => Append(g, m) \in S
    BY <1>2
  <2> HIDE DEF S
  <2>2. QED
    BY <1>1, <2>1, Induction
<1>4. QED
  BY <1>3

LEMMA AmongNone ==
    ASSUME NEW h \in Seq(Stored), NEW kinds, \A i \in 1..Len(h) : h[i].kind \notin kinds
    PROVE  Hist!Among(h, kinds) = <<>>
<1> DEFINE a == Hist!Among(h, kinds)
<1>1. a \in Seq(Stored) /\ \A i \in 1..Len(a) : FALSE
  BY AmongStored
<1> HIDE DEF a
<1>2. a = <<>>
  BY <1>1
<1>3. QED
  BY <1>2 DEF a

LEMMA AmongFirst ==
    ASSUME NEW h \in Seq(Stored), NEW kinds, h # <<>>, h[1].kind \in kinds
    PROVE  Hist!Among(h, kinds) # <<>> /\ Hist!Among(h, kinds)[1] = h[1]
<1> DEFINE P(g) == g = <<>> \/ (Hist!Among(g, kinds) # <<>> /\ Hist!Among(g, kinds)[1] = g[1])
           S == {g \in Seq(Stored) : (g # <<>> => g[1].kind \in kinds) => P(g)}
<1>1. <<>> \in S
  OBVIOUS
<1>2. ASSUME NEW g \in Seq(Stored), NEW m \in Stored, g \in S PROVE Append(g, m) \in S
  <2> DEFINE f == Append(g, m)
             a == Hist!Among(g, kinds)
  <2>1. f \in Seq(Stored) /\ Hist!Among(f, kinds) = Pick(a, m, kinds) /\ a \in Seq(Stored)
    BY AppendStored, AmongAppend, AmongStored
  <2>2. ASSUME f[1].kind \in kinds PROVE P(f)
    <3>1. CASE g = <<>>
      <4>1. a = <<>> /\ f[1] = m
        BY <3>1, AmongNothing
      <4>2. Pick(a, m, kinds) = <<m>>
        BY <2>2, <4>1 DEF Pick
      <4>3. QED
        BY <2>1, <4>1, <4>2
    <3>2. CASE g # <<>>
      <4>1. f[1] = g[1]
        BY <3>2
      <4>2. a # <<>> /\ a[1] = g[1]
        BY <1>2, <2>2, <3>2, <4>1
      <4> HIDE DEF a
      <4>3. Pick(a, m, kinds) # <<>> /\ Pick(a, m, kinds)[1] = a[1]
        BY <2>1, <4>2 DEF Pick
      <4>4. QED
        BY <2>1, <4>1, <4>2, <4>3
    <3>3. QED
      BY <3>1, <3>2
  <2>3. f # <<>>
    OBVIOUS
  <2> HIDE DEF P, f
  <2>4. f \in S
    BY <2>1, <2>2, <2>3
  <2>5. QED
    BY <2>4 DEF f
<1>3. h \in S
  <2>1. \A g \in Seq(Stored) : \A m \in Stored : g \in S => Append(g, m) \in S
    BY <1>2
  <2> HIDE DEF S
  <2>2. QED
    BY <1>1, <2>1, Induction
<1>4. QED
  BY <1>3

Sums(h, f) == f = [i \in 0..Len(h) |-> IF i = 0 THEN 0 ELSE f[i - 1] + h[i].size]

LEMMA TokensPasses ==
    ASSUME NEW h \in Seq(Stored)
    PROVE  \E f \in [0..Len(h) -> Nat] :
              /\ f[0] = 0 /\ Hist!Tokens(h) = f[Len(h)]
              /\ \A i \in 1..Len(h) : f[i] = f[i - 1] + h[i].size
<1> DEFINE n == Len(h)
           F == [i \in 1..n |-> [x \in Nat |-> x + h[i].size]]
<1>1. n \in Nat /\ 0 \in Nat /\ \A i \in 1..n : h[i].size \in Nat
  BY DEF Stored, Msgs
<1>2. F \in [1..n -> [Nat -> Nat]] /\ \A i \in 1..n : \A x \in Nat : F[i][x] = x + h[i].size
  BY <1>1
<1>3. PICK f \in [0..n -> Nat] : f[0] = 0 /\ \A i \in 1..n : f[i] = F[i][f[i - 1]]
  <2> HIDE DEF F, n
  <2>1. Recursive(n, Nat, 0, F)
    BY <1>1, <1>2, Recursion
  <2>2. QED
    BY <2>1 DEF Recursive
<1> HIDE DEF F
<1>4. ASSUME NEW i \in 1..n PROVE f[i] = f[i - 1] + h[i].size
  <2>1. i - 1 \in 0..n
    BY <1>1
  <2>2. f[i - 1] \in Nat
    BY <1>3, <2>1
  <2>3. F[i][f[i - 1]] = f[i - 1] + h[i].size
    BY <1>2, <2>2
  <2>4. QED
    BY <1>3, <2>3
<1>5. Sums(h, f)
  BY <1>1, <1>3, <1>4 DEF Sums
<1> DEFINE g == CHOOSE x : Sums(h, x)
<1>6. Sums(h, g)
  BY <1>5
<1>7. Hist!Tokens(h) = g[n]
  BY DEF Hist!Tokens, Sums
<1> HIDE DEF g
<1>8. g = [i \in 0..n |-> IF i = 0 THEN 0 ELSE g[i - 1] + h[i].size]
  BY <1>6 DEF Sums
<1>9. DOMAIN g = 0..n /\ g[0] = 0 /\ \A i \in 1..n : g[i] = g[i - 1] + h[i].size
  <2>1. DOMAIN g = 0..n
    BY <1>8
  <2>2. \A i \in 0..n : g[i] = IF i = 0 THEN 0 ELSE g[i - 1] + h[i].size
    BY <1>8
  <2> HIDE DEF n
  <2>3. QED
    BY <1>1, <2>1, <2>2
<1> DEFINE S == {i \in 0..n : g[i] \in Nat}
<1>10. 0..n \subseteq S
  <2>1. 0 \in S
    BY <1>1, <1>9
  <2>2. ASSUME NEW i \in 0..n - 1, i \in S PROVE i + 1 \in S
    <3>1. i + 1 \in 1..n /\ i + 1 \in 0..n /\ i + 1 - 1 = i
      BY <1>1
    <3>2. g[i + 1] = g[i] + h[i + 1].size /\ h[i + 1].size \in Nat
      BY <1>1, <1>9, <3>1
    <3>3. QED
      BY <2>2, <3>1, <3>2
  <2> HIDE DEF S
  <2>3. QED
    BY <1>1, <2>1, <2>2, UpTo
<1>11. g \in [0..n -> Nat]
  <2>1. g = [i \in 0..n |-> g[i]]
    BY <1>8
  <2>2. QED
    BY <1>10, <2>1
<1>12. QED
  BY <1>7, <1>9, <1>11

LEMMA TokensNothing == Hist!Tokens(<<>>) = 0
<1>1. <<>> \in Seq(Stored) /\ Len(<<>>) = 0
  OBVIOUS
<1>2. \E f \in [0..Len(<<>>) -> Nat] : f[0] = 0 /\ Hist!Tokens(<<>>) = f[Len(<<>>)]
  BY <1>1, TokensPasses
<1>3. QED
  BY <1>1, <1>2

LEMMA TokensAppend ==
    ASSUME NEW h \in Seq(Stored), NEW m \in Stored
    PROVE  /\ Hist!Tokens(Append(h, m)) = Hist!Tokens(h) + m.size
           /\ Hist!Tokens(h) \in Nat /\ m.size \in Nat
<1> DEFINE g == Append(h, m)
           n == Len(h)
<1>1. PICK e \in [0..n -> Nat] :
        /\ e[0] = 0 /\ Hist!Tokens(h) = e[n]
        /\ \A i \in 1..n : e[i] = e[i - 1] + h[i].size
  BY TokensPasses
<1>2. /\ g \in Seq(Stored) /\ Len(g) = n + 1 /\ n \in Nat /\ g[n + 1] = m
      /\ \A i \in 1..n : g[i] = h[i]
  BY AppendStored
<1> HIDE DEF g
<1>3. PICK f \in [0..Len(g) -> Nat] :
        /\ f[0] = 0 /\ Hist!Tokens(g) = f[Len(g)]
        /\ \A i \in 1..Len(g) : f[i] = f[i - 1] + g[i].size
  BY <1>2, TokensPasses
<1> DEFINE S == {i \in 0..n : f[i] = e[i]}
<1>4. 0 \in S
  BY <1>1, <1>2, <1>3
<1>5. ASSUME NEW i \in 0..n - 1, i \in S PROVE i + 1 \in S
  <2>1. i + 1 \in 1..n /\ i + 1 \in 1..Len(g) /\ i + 1 \in 0..n /\ i + 1 - 1 = i
    BY <1>2
  <2>2. e[i + 1] = e[i] + h[i + 1].size /\ f[i + 1] = f[i] + g[i + 1].size
    BY <1>1, <1>3, <2>1
  <2>3. f[i] = e[i] /\ g[i + 1] = h[i + 1]
    BY <1>2, <1>5, <2>1
  <2>4. QED
    BY <2>1, <2>2, <2>3
<1>6. n \in S
  <2> HIDE DEF S
  <2>1. 0..n \subseteq S
    BY <1>2, <1>4, <1>5, UpTo
  <2>2. QED
    BY <1>2, <2>1
<1>7. n + 1 \in 1..Len(g) /\ n + 1 - 1 = n /\ n \in 0..n
  BY <1>2
<1>8. f[n + 1] = f[n] + m.size
  BY <1>2, <1>3, <1>7
<1>9. m.size \in Nat /\ e[n] \in Nat
  BY <1>1, <1>7 DEF Stored, Msgs
<1>10. QED
  BY <1>1, <1>2, <1>3, <1>6, <1>8, <1>9 DEF g

LEMMA TokensNat ==
    ASSUME NEW h \in Seq(Stored)
    PROVE  Hist!Tokens(h) \in Nat
BY TokensPasses

LEMMA TokensConcat ==
    ASSUME NEW p \in Seq(Stored), NEW h \in Seq(Stored), Hist!Tokens(p) = 0
    PROVE  Hist!Tokens(p \o h) = Hist!Tokens(h)
<1> DEFINE S == {g \in Seq(Stored) : Hist!Tokens(p \o g) = Hist!Tokens(g)}
<1>1. <<>> \in S
  <2>1. <<>> \in Seq(Stored) /\ p \o <<>> = p
    OBVIOUS
  <2>2. QED
    BY <2>1, TokensNothing
<1>2. ASSUME NEW g \in Seq(Stored), NEW m \in Stored, g \in S PROVE Append(g, m) \in S
  <2>1. p \o Append(g, m) = Append(p \o g, m) /\ p \o g \in Seq(Stored)
    BY ConcatAppend
  <2> DEFINE q == p \o g
  <2>2. Hist!Tokens(q) = Hist!Tokens(g)
    BY <1>2
  <2>3. q \in Seq(Stored)
    BY <2>1
  <2> HIDE DEF q
  <2>4. Hist!Tokens(Append(q, m)) = Hist!Tokens(q) + m.size
    BY <2>3, TokensAppend
  <2>5. Hist!Tokens(Append(g, m)) = Hist!Tokens(g) + m.size /\ Append(g, m) \in Seq(Stored)
    BY TokensAppend, AppendStored
  <2>6. p \o Append(g, m) = Append(q, m)
    BY <2>1 DEF q
  <2>7. QED
    BY <2>2, <2>4, <2>5, <2>6
<1>3. h \in S
  <2>1. \A g \in Seq(Stored) : \A m \in Stored : g \in S => Append(g, m) \in S
    BY <1>2
  <2> HIDE DEF S
  <2>2. QED
    BY <1>1, <2>1, Induction
<1>4. QED
  BY <1>3

(* A message that is no result and results behind it. *)
Light(g) == \A i \in 1..Len(g) : g[i].size <= IF i = 1 THEN 1 ELSE 2

LEMMA TokensLight ==
    ASSUME NEW h \in Seq(Stored), Light(h), h # <<>>
    PROVE  Hist!Tokens(h) \in Nat /\ Hist!Tokens(h) + 1 <= 2 * Len(h)
<1> DEFINE P(g) == Hist!Tokens(g) \in Nat /\ Hist!Tokens(g) + 1 <= 2 * Len(g)
           S == {g \in Seq(Stored) : Light(g) /\ g # <<>> => P(g)}
<1>1. <<>> \in S
  OBVIOUS
<1>2. ASSUME NEW g \in Seq(Stored), NEW m \in Stored, g \in S PROVE Append(g, m) \in S
  <2> DEFINE f == Append(g, m)
  <2>1. /\ f \in Seq(Stored) /\ Len(f) = Len(g) + 1 /\ Len(g) \in Nat /\ f[Len(g) + 1] = m
        /\ Len(g) + 1 \in 1..Len(f)
        /\ \A i \in 1..Len(g) : f[i] = g[i] /\ i \in 1..Len(f)
    BY AppendStored
  <2>2. Hist!Tokens(f) = Hist!Tokens(g) + m.size /\ Hist!Tokens(g) \in Nat /\ m.size \in Nat
    BY TokensAppend
  <2> HIDE DEF f
  <2>3. ASSUME Light(f) PROVE P(f)
    <3>1. CASE g = <<>>
      <4>1. Hist!Tokens(g) = 0 /\ Len(g) = 0
        BY <3>1, TokensNothing
      <4>2. m.size <= 1
        BY <2>1, <2>3, <4>1 DEF Light
      <4>3. QED
        BY <2>1, <2>2, <4>1, <4>2
    <3>2. CASE g # <<>>
      <4>1. Len(g) > 0
        BY <2>1, <3>2
      <4>2. Light(g)
        BY <2>1, <2>3 DEF Light
      <4>3. m.size <= 2
        BY <2>1, <2>3, <4>1 DEF Light
      <4>4. QED
        BY <1>2, <2>1, <2>2, <3>2, <4>2, <4>3
    <3>3. QED
      BY <3>1, <3>2
  <2> HIDE DEF P
  <2>4. f \in S
    BY <2>1, <2>3
  <2>5. QED
    BY <2>4 DEF f
<1>3. h \in S
  <2>1. \A g \in Seq(Stored) : \A m \in Stored : g \in S => Append(g, m) \in S
    BY <1>2
  <2> HIDE DEF S
  <2>2. QED
    BY <1>1, <2>1, Induction
<1>4. QED
  BY <1>3

LEMMA TokensFree ==
    ASSUME NEW h \in Seq(Stored), \A i \in 1..Len(h) : h[i].size = 0
    PROVE  Hist!Tokens(h) = 0
<1> DEFINE Free(g) == \A i \in 1..Len(g) : g[i].size = 0
           S == {g \in Seq(Stored) : Free(g) => Hist!Tokens(g) = 0}
<1>1. <<>> \in S
  BY TokensNothing
<1>2. ASSUME NEW g \in Seq(Stored), NEW m \in Stored, g \in S PROVE Append(g, m) \in S
  <2> DEFINE f == Append(g, m)
  <2>1. /\ f \in Seq(Stored) /\ f[Len(g) + 1] = m /\ Len(g) + 1 \in 1..Len(f)
        /\ \A i \in 1..Len(g) : f[i] = g[i] /\ i \in 1..Len(f)
    BY AppendStored
  <2>2. Hist!Tokens(f) = Hist!Tokens(g) + m.size
    BY TokensAppend
  <2> HIDE DEF f
  <2>3. ASSUME Free(f) PROVE Hist!Tokens(f) = 0
    <3>1. m.size = 0 /\ Free(g)
      BY <2>1, <2>3
    <3>2. Hist!Tokens(g) = 0
      BY <1>2, <3>1
    <3>3. QED
      BY <2>2, <3>1, <3>2
  <2> HIDE DEF Free
  <2>4. f \in S
    BY <2>1, <2>3
  <2>5. QED
    BY <2>4 DEF f
<1>3. h \in S
  <2>1. \A g \in Seq(Stored) : \A m \in Stored : g \in S => Append(g, m) \in S
    BY <1>2
  <2> HIDE DEF S
  <2>2. QED
    BY <1>1, <2>1, Induction
<1>4. QED
  BY <1>3

-----------------------------------------------------------------------------
(* What trimming leaves. *)

(* A cut of a history takes all from some message on. *)
LEMMA CutIs ==
    ASSUME NEW h \in Seq(Stored), NEW s \in 1..Len(h) + 1, NEW g, g = SubSeq(h, s, Len(h))
    PROVE  /\ g \in Seq(Stored) /\ Len(g) = Len(h) - s + 1 /\ Len(h) \in Nat /\ Len(g) \in Nat
           /\ DOMAIN g = 1..Len(g)
           /\ \A i \in 1..Len(g) : g[i] = h[i + s - 1] /\ i + s - 1 \in s..Len(h)
           /\ \A j \in s..Len(h) : j - s + 1 \in 1..Len(g) /\ g[j - s + 1] = h[j]
<1>1. /\ g \in Seq(Stored) /\ Len(g) = Len(h) - s + 1 /\ Len(h) \in Nat
      /\ \A i \in 1..Len(g) : g[i] = h[i + s - 1]
  BY SuffixIs
<1>2. Len(g) \in Nat /\ DOMAIN g = 1..Len(g)
  BY <1>1
<1>3. ASSUME NEW i \in 1..Len(g) PROVE g[i] = h[i + s - 1] /\ i + s - 1 \in s..Len(h)
  BY <1>1
<1>4. ASSUME NEW j \in s..Len(h) PROVE j - s + 1 \in 1..Len(g) /\ g[j - s + 1] = h[j]
  <2>1. j - s + 1 \in 1..Len(g) /\ (j - s + 1) + s - 1 = j
    BY <1>1
  <2>2. QED
    BY <1>1, <2>1
<1>5. QED
  BY <1>1, <1>2, <1>3, <1>4

LEMMA CutOfCut ==
    ASSUME NEW h \in Seq(Stored), NEW s \in 1..Len(h) + 1, NEW g, g = SubSeq(h, s, Len(h)),
           NEW t \in 1..Len(g) + 1
    PROVE  /\ SubSeq(g, t, Len(g)) = SubSeq(h, t + s - 1, Len(h))
           /\ t + s - 1 \in s..Len(h) + 1 /\ t + s - 1 \in 1..Len(h) + 1
<1> DEFINE u == t + s - 1
           f == SubSeq(g, t, Len(g))
           e == SubSeq(h, u, Len(h))
<1>1. /\ g \in Seq(Stored) /\ Len(g) = Len(h) - s + 1 /\ Len(h) \in Nat
      /\ \A i \in 1..Len(g) : g[i] = h[i + s - 1]
  BY CutIs
<1>2. u \in s..Len(h) + 1 /\ u \in 1..Len(h) + 1
  BY <1>1
<1>3. /\ f \in Seq(Stored) /\ Len(f) = Len(g) - t + 1
      /\ \A i \in 1..Len(f) : f[i] = g[i + t - 1]
  BY <1>1, SuffixIs
<1>4. /\ e \in Seq(Stored) /\ Len(e) = Len(h) - u + 1
      /\ \A i \in 1..Len(e) : e[i] = h[i + u - 1]
  BY <1>2, SuffixIs
<1> HIDE DEF e, f
<1>5. Len(e) = Len(f)
  BY <1>1, <1>3, <1>4
<1>6. ASSUME NEW i \in 1..Len(e) PROVE e[i] = f[i]
  <2>1. i + t - 1 \in 1..Len(g) /\ (i + t - 1) + s - 1 = i + u - 1
    BY <1>1, <1>3, <1>5
  <2>2. f[i] = g[i + t - 1] /\ g[i + t - 1] = h[i + u - 1]
    BY <1>1, <1>3, <1>5, <2>1
  <2>3. QED
    BY <1>4, <2>2
<1>7. e = f
  BY <1>3, <1>4, <1>5, <1>6, Same
<1>8. QED
  BY <1>2, <1>7 DEF e, f

LEMMA FromIs ==
    ASSUME NEW h \in Seq(Stored), NEW starts, starts \subseteq 1..Len(h)
    PROVE  \E s \in 1..Len(h) + 1 :
              /\ Hist!From(h, starts) = SubSeq(h, s, Len(h))
              /\ s \in starts \/ s = Len(h) + 1
              /\ \A i \in starts : s <= i
<1>1. Len(h) \in Nat
  OBVIOUS
<1>2. CASE starts = {}
  <2>1. SubSeq(h, Len(h) + 1, Len(h)) = <<>>
    <3> DEFINE g == SubSeq(h, Len(h) + 1, Len(h))
    <3>1. Len(h) + 1 \in 1..Len(h) + 1
      BY <1>1
    <3>2. g \in Seq(Stored) /\ Len(g) = 0
      BY <1>1, <3>1, CutIs
    <3> HIDE DEF g
    <3>3. g = <<>>
      BY <3>2
    <3>4. QED
      BY <3>3 DEF g
  <2>2. QED
    BY <1>1, <1>2, <2>1 DEF Hist!From
<1>3. CASE starts # {}
  <2>1. starts \subseteq Nat
    OBVIOUS
  <2>2. Hist!Min(starts) \in starts /\ \A i \in starts : Hist!Min(starts) <= i
    BY <1>3, <2>1, MinIs
  <2>3. Hist!From(h, starts) = SubSeq(h, Hist!Min(starts), Len(h))
    BY <1>3 DEF Hist!From
  <2>4. Hist!Min(starts) \in 1..Len(h) + 1
    <3> DEFINE k == Hist!Min(starts)
    <3>1. k \in 1..Len(h)
      BY <2>2
    <3> HIDE DEF k
    <3>2. k \in 1..Len(h) + 1
      BY <1>1, <3>1
    <3>3. QED
      BY <3>2 DEF k
  <2>5. QED
    BY <2>2, <2>3, <2>4
<1>4. QED
  BY <1>2, <1>3

LEMMA CutOpens ==
    ASSUME NEW h \in Seq(Stored), NEW s \in 1..Len(h) + 1, NEW g, g = SubSeq(h, s, Len(h)),
           NEW i \in s..Len(h), Hist!Opens(h, i)
    PROVE  i - s + 1 \in 1..Len(g) /\ Hist!Opens(g, i - s + 1)
<1>1. /\ Len(g) = Len(h) - s + 1 /\ Len(h) \in Nat
      /\ \A j \in s..Len(h) : j - s + 1 \in 1..Len(g) /\ g[j - s + 1] = h[j]
  BY CutIs
<1>2. i - s + 1 \in 1..Len(g) /\ g[i - s + 1] = h[i]
  BY <1>1
<1>3. i < Len(h) => i + 1 \in s..Len(h) /\ (i + 1) - s + 1 = (i - s + 1) + 1 /\ i - s + 1 < Len(g)
  BY <1>1
<1>4. i < Len(h) => g[(i - s + 1) + 1] = h[i + 1]
  BY <1>1, <1>3
<1>5. QED
  BY <1>2, <1>3, <1>4 DEF Hist!Opens

LEMMA PinnedParts ==
    ASSUME NEW h \in Seq(Stored), NEW p, p = Hist!Pinned(h)
    PROVE  /\ p \in Seq(Stored) /\ Len(p) \in 0..2
           /\ \A i \in 1..Len(p) : Hist!IsSystem(p[i]) /\ \E j \in 1..Len(h) : p[i] = h[j]
           /\ h # <<>> /\ Hist!IsSystem(h[1]) => p # <<>> /\ p[1] = h[1]
<1> DEFINE s == Hist!Among(h, Hist!Systems)
<1>1. /\ s \in Seq(Stored)
      /\ \A i \in 1..Len(s) : s[i].kind \in Hist!Systems /\ \E j \in 1..Len(h) : s[i] = h[j]
  BY AmongStored
<1>2. h # <<>> /\ Hist!IsSystem(h[1]) => s # <<>> /\ s[1] = h[1]
  BY AmongFirst DEF Hist!IsSystem
<1>3. p = IF Len(s) <= 1 THEN s ELSE <<s[1], s[Len(s)]>>
  BY DEF Hist!Pinned
<1> HIDE DEF s
<1>4. CASE Len(s) <= 1
  <2>1. p = s
    BY <1>3, <1>4
  <2>2. Len(s) \in Nat
    BY <1>1
  <2>3. Len(p) \in 0..2
    <3> DEFINE n == Len(s)
    <3>1. n \in Nat /\ n <= 1
      BY <1>4, <2>2
    <3> HIDE DEF n
    <3>2. n \in 0..2
      BY <3>1
    <3>3. QED
      BY <2>1, <3>2 DEF n
  <2>4. QED
    BY <1>1, <1>2, <2>1, <2>3 DEF Hist!IsSystem
<1>5. CASE ~(Len(s) <= 1)
  <2>1. Len(s) \in Nat /\ 1 \in 1..Len(s) /\ Len(s) \in 1..Len(s)
    BY <1>1, <1>5
  <2>2. s[1] \in Stored /\ s[Len(s)] \in Stored /\ p = <<s[1], s[Len(s)]>>
    BY <1>1, <1>3, <1>5, <2>1
  <2>3. p \in Seq(Stored) /\ Len(p) = 2 /\ p[1] = s[1] /\ p[2] = s[Len(s)]
    BY <2>2
  <2>4. \A i \in 1..Len(p) : i = 1 \/ i = 2
    BY <2>3
  <2>5. \A i \in 1..Len(p) : \E k \in 1..Len(s) : p[i] = s[k]
    BY <2>1, <2>3, <2>4
  <2>6. p # <<>>
    <3>1. ASSUME p = <<>> PROVE FALSE
      <4>1. Len(p) = 0
        BY <3>1
      <4>2. QED
        BY <2>3, <4>1
    <3>2. QED
      BY <3>1
  <2>7. QED
    BY <1>1, <1>2, <2>3, <2>5, <2>6 DEF Hist!IsSystem
<1>6. QED
  BY <1>4, <1>5

(* The dialogue of a history. *)
Body(h) == Hist!Without(h, Hist!Systems)

IsBounded(h) == Len(h) <= MaxMessages /\ ~Hist!Exceeds(h)

Free(h) == \A i \in 1..Len(h) : Hist!IsSystem(h[i]) => h[i].size = 0

Trimmed(h, g, head, s) ==
    /\ head \in Seq(Stored) /\ Len(head) \in 0..2
    /\ \A i \in 1..Len(head) : Hist!IsSystem(head[i]) /\ \E j \in 1..Len(h) : head[i] = h[j]
    /\ h # <<>> /\ Hist!IsSystem(h[1]) => head # <<>> /\ head[1] = h[1]
    /\ s \in 1..Len(Body(h)) + 1
    /\ g = head \o SubSeq(Body(h), s, Len(Body(h)))

(* The window may begin here. *)
Fits(h, i) ==
    /\ i \in 1..Len(Body(h)) /\ Hist!Opens(Body(h), i)
    /\ Len(Body(h)) - i + 3 <= MaxMessages
    /\ MaxTokens > 0 => Hist!Tokens(SubSeq(Body(h), i, Len(Body(h)))) <= MaxTokens

LEMMA BodyIs ==
    ASSUME NEW h \in Seq(Stored)
    PROVE  /\ Body(h) \in Seq(Stored)
           /\ \A i \in 1..Len(Body(h)) :
                ~Hist!IsSystem(Body(h)[i]) /\ \E j \in 1..Len(h) : Body(h)[i] = h[j]
<1> DEFINE kinds == Hist!Kinds \ Hist!Systems
           b == Hist!Among(h, kinds)
<1>1. Body(h) = b
  BY DEF Body, Hist!Without
<1>2. \A x \in kinds : x \notin Hist!Systems
  OBVIOUS
<1> HIDE DEF kinds
<1>3. /\ b \in Seq(Stored)
      /\ \A i \in 1..Len(b) : b[i].kind \in kinds /\ \E j \in 1..Len(h) : b[i] = h[j]
  BY AmongStored
<1> HIDE DEF b
<1>4. QED
  BY <1>1, <1>2, <1>3 DEF Hist!IsSystem

LEMMA TrimIs ==
    ASSUME Hist!HistoryAssumption, MaxMessages >= 3, NEW h \in Seq(Stored), Free(h),
           ~IsBounded(h)
    PROVE  /\ IsBounded(Hist!Trim(h))
           /\ \E head, s : Trimmed(h, Hist!Trim(h), head, s) /\ \A i : Fits(h, i) => s <= i
<1> DEFINE head == Hist!Pinned(h)
           b == Body(h)
           n == Hist!Max({1, MaxMessages - Len(head)})
           s1 == Hist!Max({1, Len(b) - n + 1})
           new == Hist!Newest(b, n)
           window == Hist!Window(new)
           fits(i) == Hist!Opens(window, i) /\ ~Hist!Exceeds(head \o SubSeq(window, i, Len(window)))
           starts == {i \in DOMAIN window : fits(i)}
           rest == Hist!From(window, starts)
<1>1. Hist!Trim(h) = head \o rest
  BY DEF Hist!Trim, Hist!Fit, IsBounded, Body
<1>2. /\ head \in Seq(Stored) /\ Len(head) \in 0..2
      /\ \A i \in 1..Len(head) : Hist!IsSystem(head[i]) /\ \E j \in 1..Len(h) : head[i] = h[j]
      /\ h # <<>> /\ Hist!IsSystem(h[1]) => head # <<>> /\ head[1] = h[1]
  BY PinnedParts
<1> HIDE DEF head
<1>3. b \in Seq(Stored) /\ Len(b) \in Nat
  BY BodyIs
<1>4. MaxMessages \in Nat /\ MaxTokens \in Nat
  BY DEF Hist!HistoryAssumption
<1>5. n = MaxMessages - Len(head) /\ n \in Nat /\ n >= 1
  <2>1. MaxMessages - Len(head) \in Int /\ MaxMessages - Len(head) >= 1
    BY <1>2, <1>4
  <2>2. QED
    BY <2>1, MaxOfTwo
<1> HIDE DEF b, n
<1>6. s1 \in 1..Len(b) + 1 /\ s1 >= Len(b) - n + 1 /\ (s1 = 1 \/ s1 = Len(b) - n + 1)
  <2>1. Len(b) - n + 1 \in Int /\ Len(b) - n + 1 <= Len(b)
    BY <1>3, <1>5
  <2>2. s1 = IF Len(b) - n + 1 >= 1 THEN Len(b) - n + 1 ELSE 1
    BY <2>1, MaxOfTwo
  <2> HIDE DEF s1
  <2>3. QED
    BY <1>3, <2>1, <2>2
<1>7. new = SubSeq(b, s1, Len(b))
  BY DEF Hist!Newest
<1> HIDE DEF s1, new
<1>8. new \in Seq(Stored) /\ Len(new) \in Nat
  BY <1>3, <1>6, <1>7, CutIs
<1>9. PICK t2 \in 1..Len(new) + 1 :
        /\ window = SubSeq(new, t2, Len(new))
        /\ \A i \in 1..Len(new) : Hist!Opens(new, i) => t2 <= i
  <2> DEFINE opens == {i \in DOMAIN new : Hist!Opens(new, i)}
  <2>1. opens \subseteq 1..Len(new) /\ \A i \in 1..Len(new) : Hist!Opens(new, i) => i \in opens
    BY <1>8
  <2>2. window = Hist!From(new, opens)
    BY DEF Hist!Window
  <2> HIDE DEF opens, window
  <2>3. QED
    BY <1>8, <2>1, <2>2, FromIs
<1> HIDE DEF window
<1> DEFINE s2 == t2 + s1 - 1
<1>10. window = SubSeq(b, s2, Len(b)) /\ s2 \in s1..Len(b) + 1 /\ s2 \in 1..Len(b) + 1
  BY <1>3, <1>6, <1>7, <1>9, CutOfCut
<1> HIDE DEF s2
<1>11. window \in Seq(Stored) /\ Len(window) \in Nat /\ DOMAIN window = 1..Len(window)
  BY <1>3, <1>10, CutIs
<1>12. PICK t3 \in 1..Len(window) + 1 :
         /\ rest = SubSeq(window, t3, Len(window))
         /\ t3 \in starts \/ t3 = Len(window) + 1
         /\ \A i \in 1..Len(window) : fits(i) => t3 <= i
  <2>1. starts \subseteq 1..Len(window) /\ \A i \in 1..Len(window) : fits(i) => i \in starts
    BY <1>11
  <2> HIDE DEF starts, fits
  <2>2. QED
    BY <1>11, <2>1, FromIs
<1> DEFINE s3 == t3 + s2 - 1
<1>13. rest = SubSeq(b, s3, Len(b)) /\ s3 \in s2..Len(b) + 1 /\ s3 \in 1..Len(b) + 1
  BY <1>3, <1>10, <1>12, CutOfCut
<1> HIDE DEF rest
<1>14. Hist!Tokens(head) = 0
  <2>1. \A i \in 1..Len(head) : head[i].size = 0
    BY <1>2 DEF Free
  <2>2. QED
    BY <1>2, <2>1, TokensFree
<1>15. ~Hist!Exceeds(head \o rest)
  <2>1. CASE t3 \in starts
    BY <1>12, <2>1
  <2>2. CASE t3 = Len(window) + 1
    <3>1. rest \in Seq(Stored) /\ Len(rest) = 0
      BY <1>11, <1>12, <2>2, CutIs
    <3>2. rest = <<>>
      BY <3>1
    <3>3. head \o rest = head
      BY <1>2, <3>2
    <3>4. QED
      BY <1>4, <1>14, <3>3 DEF Hist!Exceeds
  <2>3. QED
    BY <1>12, <2>1, <2>2
<1>16. ASSUME NEW i, Fits(h, i) PROVE s3 <= i
  <2>1. /\ i \in 1..Len(b) /\ Hist!Opens(b, i) /\ Len(b) - i + 3 <= MaxMessages
        /\ MaxTokens > 0 => Hist!Tokens(SubSeq(b, i, Len(b))) <= MaxTokens
    BY <1>16 DEF Fits, b
  <2>2. i \in s1..Len(b)
    <3>1. i \in Int /\ i >= 1 /\ i <= Len(b) /\ Len(head) \in 0..2
      BY <1>2, <1>3, <2>1
    <3>2. i >= Len(b) - n + 1
      <4>1. Len(b) - i + 3 <= MaxMessages
        BY <2>1
      <4>2. Len(b) \in Int /\ MaxMessages \in Int /\ i \in Int /\ n \in Int
        BY <1>3, <1>4, <1>5, <3>1
      <4>3. MaxMessages - n <= 2
        <5> DEFINE k == Len(head)
        <5>1. k \in 0..2 /\ n = MaxMessages - k
          BY <1>5, <3>1
        <5> HIDE DEF k
        <5>2. QED
          BY <4>2, <5>1
      <4>4. QED
        BY <4>1, <4>2, <4>3
    <3>3. s1 \in Int /\ i >= s1
      BY <1>3, <1>5, <1>6, <3>1, <3>2
    <3>4. QED
      BY <1>3, <3>1, <3>3
  <2>3. i - s1 + 1 \in 1..Len(new) /\ Hist!Opens(new, i - s1 + 1)
    BY <1>3, <1>6, <1>7, <2>1, <2>2, CutOpens
  <2>4. i \in s2..Len(b)
    BY <1>3, <1>6, <1>9, <1>10, <2>2, <2>3 DEF s2
  <2> DEFINE k == i - s2 + 1
  <2>5. k \in 1..Len(window) /\ Hist!Opens(window, k)
    BY <1>3, <1>10, <2>1, <2>4, CutOpens
  <2>6. k \in 1..Len(window) + 1 /\ k + s2 - 1 = i
    BY <1>10, <1>11, <2>1, <2>5
  <2> HIDE DEF k
  <2>7. SubSeq(window, k, Len(window)) = SubSeq(b, i, Len(b))
    BY <1>3, <1>10, <2>6, CutOfCut
  <2> DEFINE c == SubSeq(b, i, Len(b))
  <2>8. i \in 1..Len(b) + 1
    BY <1>3, <2>1
  <2>9. c \in Seq(Stored)
    BY <1>3, <2>8, CutIs
  <2> HIDE DEF c
  <2>10. Hist!Tokens(head \o c) = Hist!Tokens(c)
    BY <1>2, <1>14, <2>9, TokensConcat
  <2>11. ~Hist!Exceeds(head \o c)
    <3>1. Hist!Tokens(c) \in Nat
      BY <2>9, TokensNat
    <3>2. MaxTokens > 0 => Hist!Tokens(c) <= MaxTokens
      BY <2>1 DEF c
    <3>3. QED
      BY <1>4, <2>10, <3>1, <3>2 DEF Hist!Exceeds
  <2>12. fits(k)
    BY <2>5, <2>7, <2>11 DEF c
  <2> HIDE DEF fits
  <2>13. t3 <= k
    BY <1>12, <2>5, <2>12
  <2>14. QED
    BY <1>10, <1>11, <1>12, <2>6, <2>13
<1>17. Len(head \o rest) <= MaxMessages
  <2> HIDE DEF s3
  <2>1. rest \in Seq(Stored) /\ Len(rest) = Len(b) - s3 + 1
    BY <1>3, <1>13, CutIs
  <2>2. Len(head \o rest) = Len(head) + Len(rest)
    BY <1>2, <2>1, Concat
  <2>3. QED
    BY <1>2, <1>3, <1>4, <1>5, <1>6, <1>10, <1>13, <2>1, <2>2
<1>18. Trimmed(h, Hist!Trim(h), head, s3)
  <2> HIDE DEF s3
  <2>1. QED
    BY <1>1, <1>2, <1>3, <1>13 DEF Trimmed, b
<1>19. QED
  BY <1>1, <1>15, <1>16, <1>17, <1>18 DEF IsBounded

-----------------------------------------------------------------------------
(* What every addition and every compaction leaves: messages that the agent *)
(* makes, with the origin of the run at the head, within the limits.        *)

Costs(m) == m.size <= IF Hist!IsSystem(m) THEN 0 ELSE IF Hist!IsTool(m) THEN 2 ELSE 1

Made(m) ==
    /\ Costs(m)
    /\ m.kind = "refresh" => m = Hist!Plain("refresh", 1)
    /\ m.kind = "directive" => m = Hist!Plain("directive", 0)

AllMade(h) == \A i \in 1..Len(h) : Made(h[i])

IsOrigin(m) == m.kind \in {"identity", "resumed"}

Proper(h) ==
    /\ h \in Seq(Stored) /\ AllMade(h)
    /\ h # <<>> => IsOrigin(h[1])

Fine(h) == Proper(h) /\ (IsBounded(h) \/ Hist!IsCompacted(h))

LEMMA MadeIsFree ==
    ASSUME NEW h \in Seq(Stored), AllMade(h)
    PROVE  Free(h)
<1>1. ASSUME NEW i \in 1..Len(h), Hist!IsSystem(h[i]) PROVE h[i].size = 0
  <2>1. h[i].size <= 0 /\ h[i] \in Stored
    BY <1>1 DEF AllMade, Made, Costs
  <2>2. h[i].size \in Nat
    BY <2>1 DEF Stored, Msgs
  <2>3. QED
    BY <2>1, <2>2
<1>2. QED
  BY <1>1 DEF Free

LEMMA OriginIsSystem ==
    ASSUME NEW m, IsOrigin(m)
    PROVE  Hist!IsSystem(m)
BY DEF IsOrigin, Hist!IsSystem, Hist!Systems

LEMMA NotEmpty ==
    ASSUME NEW h \in Seq(Stored)
    PROVE  /\ h # <<>> <=> Len(h) >= 1
           /\ h # <<>> => 1 \in 1..Len(h) /\ Len(h) \in 1..Len(h) /\ h[Len(h)] \in Stored
           /\ Len(h) \in Nat
<1>1. Len(h) \in Nat
  OBVIOUS
<1>2. h = <<>> <=> Len(h) = 0
  OBVIOUS
<1>3. h # <<>> <=> Len(h) >= 1
  BY <1>1, <1>2
<1>4. h # <<>> => 1 \in 1..Len(h) /\ Len(h) \in 1..Len(h)
  BY <1>1, <1>3
<1>5. h # <<>> => h[Len(h)] \in Stored
  BY <1>4
<1>6. QED
  BY <1>1, <1>3, <1>4, <1>5

LEMMA TrimmedIs ==
    ASSUME NEW h \in Seq(Stored), NEW g, NEW head, NEW s, Trimmed(h, g, head, s)
    PROVE  /\ g \in Seq(Stored)
           /\ \A i \in 1..Len(g) : \E j \in 1..Len(h) : g[i] = h[j]
           /\ h # <<>> /\ Hist!IsSystem(h[1]) => g # <<>> /\ g[1] = h[1]
<1> DEFINE b == Body(h)
           c == SubSeq(b, s, Len(b))
<1>1. /\ head \in Seq(Stored) /\ g = head \o c /\ s \in 1..Len(b) + 1
      /\ \A i \in 1..Len(head) : \E j \in 1..Len(h) : head[i] = h[j]
      /\ h # <<>> /\ Hist!IsSystem(h[1]) => head # <<>> /\ head[1] = h[1]
  BY DEF Trimmed
<1>2. b \in Seq(Stored) /\ \A i \in 1..Len(b) : \E j \in 1..Len(h) : b[i] = h[j]
  BY BodyIs
<1> HIDE DEF b
<1>3. c \in Seq(Stored) /\ \A i \in 1..Len(c) : \E j \in 1..Len(b) : c[i] = b[j]
  <2>1. c \in Seq(Stored) /\ Len(b) \in Nat
        /\ \A i \in 1..Len(c) : c[i] = b[i + s - 1] /\ i + s - 1 \in s..Len(b)
    BY <1>1, <1>2, CutIs
  <2> HIDE DEF c
  <2>2. ASSUME NEW i \in 1..Len(c) PROVE \E j \in 1..Len(b) : c[i] = b[j]
    <3>1. i + s - 1 \in s..Len(b) /\ c[i] = b[i + s - 1]
      BY <2>1
    <3>2. i + s - 1 \in 1..Len(b)
      BY <1>1, <2>1, <3>1
    <3>3. QED
      BY <3>1, <3>2
  <2>3. QED
    BY <2>1, <2>2
<1> HIDE DEF c
<1>4. /\ g \in Seq(Stored) /\ Len(g) = Len(head) + Len(c) /\ Len(head) \in Nat /\ Len(c) \in Nat
      /\ \A i \in 1..Len(head) : g[i] = head[i]
      /\ \A i \in 1..Len(c) : g[Len(head) + i] = c[i]
  BY <1>1, <1>3, Concat
<1>5. ASSUME NEW i \in 1..Len(g) PROVE \E j \in 1..Len(h) : g[i] = h[j]
  <2>1. CASE i \in 1..Len(head)
    BY <1>1, <1>4, <2>1
  <2>2. CASE i \notin 1..Len(head)
    <3>1. i - Len(head) \in 1..Len(c) /\ Len(head) + (i - Len(head)) = i
      BY <1>4, <2>2
    <3>2. g[i] = c[i - Len(head)]
      BY <1>4, <3>1
    <3>3. QED
      BY <1>2, <1>3, <3>1, <3>2
  <2>3. QED
    BY <2>1, <2>2
<1>6. ASSUME h # <<>>, Hist!IsSystem(h[1]) PROVE g # <<>> /\ g[1] = h[1]
  <2>1. head # <<>> /\ head[1] = h[1]
    BY <1>1, <1>6
  <2>2. 1 \in 1..Len(head) /\ Len(head) >= 1
    BY <1>1, <2>1, NotEmpty
  <2>3. Len(g) >= 1
    BY <1>4, <2>2
  <2>4. QED
    BY <1>4, <2>1, <2>2, <2>3, NotEmpty
<1>7. QED
  BY <1>4, <1>5, <1>6

LEMMA AddFine ==
    ASSUME Hist!HistoryAssumption, MaxMessages >= 3, NEW h, Proper(h), NEW m \in Stored, Made(m),
           h # <<>> \/ IsOrigin(m)
    PROVE  Fine(Hist!Add(h, m)) /\ Hist!Add(h, m) # <<>>
<1> DEFINE g == Append(h, m)
           t == Hist!Trim(g)
<1>1. h \in Seq(Stored) /\ AllMade(h) /\ (h # <<>> => IsOrigin(h[1]))
  BY DEF Proper
<1>2. /\ g \in Seq(Stored) /\ Len(g) = Len(h) + 1 /\ Len(h) \in Nat
      /\ \A i \in 1..Len(h) : g[i] = h[i]
      /\ g[Len(h) + 1] = m
      /\ \A i \in 1..Len(g) : i \in 1..Len(h) \/ i = Len(h) + 1
  BY <1>1, AppendStored
<1> HIDE DEF g
<1>3. AllMade(g)
  BY <1>1, <1>2 DEF AllMade
<1>4. g # <<>> /\ IsOrigin(g[1])
  <2>1. g # <<>>
    <3>1. Len(g) >= 1
      BY <1>2
    <3>2. QED
      BY <1>2, <3>1, NotEmpty
  <2>2. CASE h = <<>>
    <3>1. Len(h) = 0
      BY <1>1, <2>2
    <3>2. QED
      BY <1>2, <2>1, <2>2, <3>1
  <2>3. CASE h # <<>>
    BY <1>1, <1>2, <2>1, <2>3, NotEmpty
  <2>4. QED
    BY <2>2, <2>3
<1>5. Hist!Add(h, m) = t
  BY DEF Hist!Add, g
<1>6. CASE IsBounded(g)
  <2>1. t = g
    BY <1>6 DEF IsBounded, Hist!Trim
  <2>2. QED
    BY <1>2, <1>3, <1>4, <1>5, <1>6, <2>1 DEF Fine, Proper
<1>7. CASE ~IsBounded(g)
  <2>1. IsBounded(t) /\ \E head, s : Trimmed(g, t, head, s)
    BY <1>2, <1>3, <1>7, MadeIsFree, TrimIs
  <2> HIDE DEF t
  <2>2. /\ t \in Seq(Stored)
        /\ \A i \in 1..Len(t) : \E j \in 1..Len(g) : t[i] = g[j]
        /\ Hist!IsSystem(g[1]) => t # <<>> /\ t[1] = g[1]
    BY <1>2, <1>4, <2>1, TrimmedIs
  <2>3. t # <<>> /\ IsOrigin(t[1])
    BY <1>4, <2>2, OriginIsSystem
  <2>4. AllMade(t)
    BY <1>3, <2>2 DEF AllMade
  <2>5. QED
    BY <1>5, <2>1, <2>2, <2>3, <2>4 DEF Fine, Proper
<1>8. QED
  BY <1>6, <1>7

LEMMA ReplaceIs ==
    ASSUME NEW h \in Seq(Stored), AllMade(h),
           NEW m \in {Hist!Plain("refresh", 1), Hist!Plain("directive", 0)}
    PROVE  Hist!Replace(h, m) \in {h, Hist!Add(h, m)}
<1> DEFINE S == {i \in DOMAIN h : h[i].kind = m.kind}
           k == Hist!Min(S)
<1>1. /\ m = Hist!Plain("refresh", 1) => m.kind = "refresh"
      /\ m = Hist!Plain("directive", 0) => m.kind = "directive"
  BY DEF Hist!Plain, Hist!Message
<1>2. CASE S = {}
  <2>1. ~\E i \in DOMAIN h : h[i].kind = m.kind
    BY <1>2
  <2>2. QED
    BY <2>1 DEF Hist!Replace
<1>3. CASE S # {}
  <2>1. S \subseteq Nat
    OBVIOUS
  <2>2. k \in S
    BY <1>3, <2>1, MinIs
  <2>3. Hist!Replace(h, m) = [h EXCEPT ![k] = m]
    BY <1>3 DEF Hist!Replace
  <2> HIDE DEF k
  <2>4. k \in 1..Len(h) /\ h[k].kind = m.kind
    BY <2>2
  <2>5. h[k] = m
    BY <1>1, <2>4 DEF AllMade, Made
  <2>6. [h EXCEPT ![k] = m] = h
    BY <2>4, <2>5
  <2>7. QED
    BY <2>3, <2>6
<1>4. QED
  BY <1>2, <1>3

LEMMA FineIsProper ==
    ASSUME NEW h, Fine(h)
    PROVE  Proper(h) /\ h \in Seq(Stored) /\ AllMade(h)
BY DEF Fine, Proper

LEMMA EmptyFine ==
    ASSUME Hist!HistoryAssumption
    PROVE  Fine(<<>>)
<1>1. <<>> \in Seq(Stored) /\ Len(<<>>) = 0
  OBVIOUS
<1>2. Hist!Tokens(<<>>) = 0
  BY TokensNothing
<1>3. MaxMessages \in Nat /\ MaxTokens \in Nat
  BY DEF Hist!HistoryAssumption
<1>4. IsBounded(<<>>)
  BY <1>1, <1>2, <1>3 DEF IsBounded, Hist!Exceeds
<1>5. QED
  BY <1>1, <1>4 DEF Fine, Proper, AllMade

LEMMA MadeKinds ==
    /\ Made(Hist!Plain("identity", 0)) /\ IsOrigin(Hist!Plain("identity", 0))
    /\ Made(Hist!Plain("resumed", 0)) /\ IsOrigin(Hist!Plain("resumed", 0))
    /\ Made(Hist!Plain("directive", 0)) /\ Made(Hist!Plain("extra", 0))
    /\ Made(Hist!Plain("prompt", 1)) /\ Made(Hist!Plain("refresh", 1))
    /\ Made(Hist!Plain("hint", 1)) /\ Made(Hist!Plain("state", 1))
    /\ Made(Hist!Plain("text", 1)) /\ Made(Hist!Plain("empty", 0))
    /\ Made(Hist!Plain("note", 0))
<1>1. \A k : \A z \in {0, 1} : Hist!Plain(k, z).kind = k /\ Hist!Plain(k, z).size = z
  BY DEF Hist!Plain, Hist!Message
<1>2. QED
  BY <1>1 DEF Made, Costs, IsOrigin, Hist!IsSystem, Hist!Systems, Hist!IsTool, Hist!Tools

LEMMA MadeResult ==
    ASSUME NEW c \in CallIds, NEW z \in 0..2
    PROVE  Made(Hist!ResultOf(c, z)) /\ Hist!ResultOf(c, z) \in Stored
           /\ Hist!IsTool(Hist!ResultOf(c, z)) /\ ~Hist!IsSystem(Hist!ResultOf(c, z))
           /\ Hist!ResultOf(c, z).size = z
<1>1. Hist!ResultOf(c, z).kind = "result" /\ Hist!ResultOf(c, z).size = z
  BY DEF Hist!ResultOf, Hist!Message
<1>2. z \in Nat
  OBVIOUS
<1>3. z <= 2
  OBVIOUS
<1>4. Hist!ResultOf(c, z) \in Stored /\ Hist!IsTool(Hist!ResultOf(c, z))
  BY <1>2, ResultIs
<1>5. ~Hist!IsSystem(Hist!ResultOf(c, z))
  BY <1>1 DEF Hist!IsSystem, Hist!Systems
<1>6. Made(Hist!ResultOf(c, z))
  BY <1>1, <1>3, <1>4, <1>5 DEF Made, Costs
<1>7. QED
  BY <1>1, <1>4, <1>5, <1>6

LEMMA MadeBlock ==
    ASSUME NEW n \in Nat, NEW z \in {0, 1}, answers \in Nat
    PROVE  Made(Hist!Block(n, z)) /\ ~Hist!IsSystem(Hist!Block(n, z))
<1> DEFINE m == Hist!Block(n, z)
<1>1. m.size = z /\ m.kind = "calls"
  BY BlockIs DEF IsCalls
<1>2. z <= 1
  OBVIOUS
<1> HIDE DEF m
<1>3. ~Hist!IsSystem(m)
  BY <1>1 DEF Hist!IsSystem, Hist!Systems
<1>4. ~Hist!IsTool(m)
  BY <1>1 DEF Hist!IsTool, Hist!Tools
<1>5. m.size <= 1
  BY <1>1, <1>2
<1>6. Made(m)
  BY <1>1, <1>3, <1>4, <1>5 DEF Made, Costs
<1>7. QED
  BY <1>3, <1>6 DEF m

LEMMA ReplaceFine ==
    ASSUME Hist!HistoryAssumption, MaxMessages >= 3, NEW h, Fine(h),
           NEW m \in {Hist!Plain("refresh", 1), Hist!Plain("directive", 0)}, h # <<>>
    PROVE  Fine(Hist!Replace(h, m)) /\ Hist!Replace(h, m) # <<>>
<1>1. m \in Stored /\ Made(m)
  BY PlainKinds, MadeKinds
<1>2. Fine(Hist!Add(h, m)) /\ Hist!Add(h, m) # <<>>
  BY <1>1, AddFine, FineIsProper
<1>3. Hist!Replace(h, m) \in {h, Hist!Add(h, m)}
  BY FineIsProper, ReplaceIs
<1>4. QED
  BY <1>2, <1>3

LEMMA HintedFine ==
    ASSUME Hist!HistoryAssumption, MaxMessages >= 3, NEW h, Fine(h), h # <<>>
    PROVE  Fine(Hist!Hinted(h)) /\ Hist!Hinted(h) # <<>>
<1>1. CASE chat
  BY <1>1 DEF Hist!Hinted
<1>2. CASE ~chat
  <2> DEFINE kinds == Hist!Kinds \ {"hint"}
             g == Hist!Among(h, kinds)
             m == Hist!Plain("hint", 1)
  <2>1. h \in Seq(Stored) /\ AllMade(h) /\ IsOrigin(h[1])
    BY DEF Fine, Proper
  <2>2. h[1].kind \in kinds
    BY <2>1 DEF IsOrigin, Hist!Kinds, Hist!Systems
  <2> HIDE DEF kinds
  <2>3. g # <<>> /\ g[1] = h[1]
    BY <2>1, <2>2, AmongFirst
  <2>4. g \in Seq(Stored) /\ \A i \in 1..Len(g) : \E j \in 1..Len(h) : g[i] = h[j]
    BY <2>1, AmongStored
  <2>5. m \in Stored
    BY PlainIs DEF Hist!Kinds, Hist!Systems, Hist!Tools
  <2>6. Made(m)
    BY MadeKinds
  <2>7. Hist!Hinted(h) = Hist!Add(g, m)
    BY <1>2 DEF Hist!Hinted, Hist!Without, kinds
  <2> HIDE DEF g, m
  <2>8. Proper(g)
    BY <2>1, <2>3, <2>4 DEF Proper, AllMade
  <2>9. QED
    BY <2>3, <2>5, <2>6, <2>7, <2>8, AddFine
<1>3. QED
  BY <1>1, <1>2

LEMMA WithResultsFine ==
    ASSUME Hist!HistoryAssumption, MaxMessages >= 3, NEW h, Fine(h), h # <<>>,
           NEW cs \in Seq(CallIds), NEW some
    PROVE  Fine(Hist!WithResults(h, cs, some)) /\ Hist!WithResults(h, cs, some) # <<>>
<1> DEFINE G == {g \in Seq(Stored) : Fine(g) /\ g # <<>>}
<1>1. h \in G
  BY FineIsProper
<1>2. ASSUME NEW g \in G, NEW i \in 1..Len(cs) PROVE Given(g, cs[i], some) \in G
  <2> DEFINE m == Hist!ResultOf(cs[i], 0)
  <2>1. m \in Stored /\ Made(m)
    BY MadeResult
  <2> HIDE DEF m
  <2>2. Fine(Hist!Add(g, m)) /\ Hist!Add(g, m) # <<>>
    BY <2>1, AddFine, FineIsProper
  <2>3. Hist!Add(g, m) \in G
    BY <2>2, FineIsProper
  <2>4. Given(g, cs[i], some) \in {g, Hist!Add(g, m)}
    BY DEF Given, m
  <2>5. QED
    BY <2>3, <2>4
<1> DEFINE r == Hist!WithResults(h, cs, some)
<1>3. r \in G
  <2>1. \A g \in G : \A i \in 1..Len(cs) : Given(g, cs[i], some) \in G
    BY <1>2
  <2> HIDE DEF G
  <2>2. QED
    BY <1>1, <2>1, WithResultsStays
<1> HIDE DEF r
<1>4. QED
  BY <1>3 DEF r

(* compact_messages keeps an end of the history and begins it with a message *)
(* that is no result; its last message is made a text if it is calls that    *)
(* have no result.                                                         *)
LEMMA NewestIs ==
    ASSUME NEW h \in Seq(Stored), NEW n \in Nat \ {0}
    PROVE  \E s \in 1..Len(h) + 1 :
              Hist!Newest(h, n) = SubSeq(h, s, Len(h)) /\ Len(h) - s + 1 <= n
<1> DEFINE s == Hist!Max({1, Len(h) - n + 1})
<1>1. Len(h) \in Nat /\ n \in Nat /\ n >= 1
  OBVIOUS
<1>2. Len(h) - n + 1 \in Int
  BY <1>1
<1>3. s = IF Len(h) - n + 1 >= 1 THEN Len(h) - n + 1 ELSE 1
  BY <1>2, MaxOfTwo
<1>4. Hist!Newest(h, n) = SubSeq(h, s, Len(h))
  BY DEF Hist!Newest
<1> HIDE DEF s
<1>5. s \in 1..Len(h) + 1 /\ Len(h) - s + 1 <= n
  BY <1>1, <1>3
<1>6. QED
  BY <1>4, <1>5

LEMMA RepairedIs ==
    ASSUME NEW h \in Seq(Stored), AllMade(h)
    PROVE  /\ Hist!Repaired(h) \in Seq(Stored) /\ AllMade(Hist!Repaired(h))
           /\ Len(Hist!Repaired(h)) <= Len(h)
           /\ \E s \in 1..Len(h) + 1 :
                LET kept == SubSeq(h, s, Len(h))
                IN  \/ Hist!Repaired(h) = kept
                    \/ kept # <<>> /\ kept[Len(kept)].kind = "calls"
<1> DEFINE starts == {i \in DOMAIN h : ~Hist!IsTool(h[i])}
           kept == Hist!From(h, starts)
           n == Len(kept)
           last == Hist!Plain("text", kept[n].size)
           g == [kept EXCEPT ![n] = last]
<1>1. PICK s \in 1..Len(h) + 1 : kept = SubSeq(h, s, Len(h))
  <2>1. starts \subseteq 1..Len(h)
    OBVIOUS
  <2> HIDE DEF starts
  <2>2. QED
    BY <2>1, FromIs
<1>2. Hist!Repaired(h) = kept \/ (n > 0 /\ kept[n].kind = "calls" /\ Hist!Repaired(h) = g)
  BY DEF Hist!Repaired
<1> HIDE DEF kept
<1>3. /\ kept \in Seq(Stored) /\ Len(kept) = Len(h) - s + 1 /\ Len(h) \in Nat /\ n \in Nat
      /\ \A i \in 1..Len(kept) : kept[i] = h[i + s - 1] /\ i + s - 1 \in s..Len(h)
  BY <1>1, CutIs
<1>4. n <= Len(h)
  BY <1>3
<1>5. AllMade(kept)
  <2> SUFFICES ASSUME NEW i \in 1..n PROVE Made(kept[i])
    BY DEF AllMade
  <2>1. i + s - 1 \in 1..Len(h) /\ kept[i] = h[i + s - 1]
    BY <1>3
  <2>2. QED
    BY <2>1 DEF AllMade
<1>6. CASE Hist!Repaired(h) = kept
  BY <1>1, <1>3, <1>4, <1>5, <1>6
<1>7. CASE n > 0 /\ kept[n].kind = "calls" /\ Hist!Repaired(h) = g
  <2>1. n \in 1..n /\ kept[n] \in Stored /\ kept # <<>>
    BY <1>3, <1>7, NotEmpty
  <2>2. kept[n].size \in Nat /\ kept[n].size <= 1
    <3>1. kept[n].size \in Nat
      BY <2>1 DEF Stored, Msgs
    <3>2. ~Hist!IsTool(kept[n])
      BY <1>7 DEF Hist!IsTool, Hist!Tools
    <3>3. ~Hist!IsSystem(kept[n])
      BY <1>7 DEF Hist!IsSystem, Hist!Systems
    <3>4. Costs(kept[n])
      BY <1>5, <2>1 DEF AllMade, Made
    <3>5. QED
      BY <3>1, <3>2, <3>3, <3>4 DEF Costs
  <2>3. last \in Stored /\ last.kind = "text" /\ last.size <= 1
    <3>1. "text" \in Hist!Kinds \ {"calls", "result", "unfinished"}
      BY DEF Hist!Kinds, Hist!Systems, Hist!Tools
    <3>2. last \in Stored /\ last.kind = "text"
      BY <2>2, <3>1, PlainIs
    <3>3. last.size = kept[n].size
      BY DEF Hist!Plain, Hist!Message
    <3>4. QED
      BY <2>2, <3>2, <3>3
  <2>4. Made(last)
    <3>1. ~Hist!IsTool(last)
      BY <2>3 DEF Hist!IsTool, Hist!Tools
    <3>2. ~Hist!IsSystem(last)
      BY <2>3 DEF Hist!IsSystem, Hist!Systems
    <3> HIDE DEF last
    <3>3. QED
      BY <2>3, <3>1, <3>2 DEF Made, Costs
  <2> HIDE DEF last
  <2>5. g \in Seq(Stored) /\ Len(g) = n /\ g[n] = last /\ \A i \in 1..n : i # n => g[i] = kept[i]
    BY <1>3, <2>1, <2>3
  <2> HIDE DEF g, n
  <2>6. AllMade(g)
    BY <1>5, <2>4, <2>5 DEF AllMade, n
  <2>7. QED
    BY <1>1, <1>4, <1>7, <2>1, <2>5, <2>6 DEF n
<1>8. QED
  BY <1>2, <1>6, <1>7

LEMMA LeadingIsSystem ==
    ASSUME NEW h \in Seq(Stored)
    PROVE  /\ Hist!Leading(h) \in 0..Len(h)
           /\ \A i \in 1..Hist!Leading(h) : Hist!IsSystem(h[i])
           /\ \A n \in 0..Len(h) - 1 :
                ~Hist!IsSystem(h[n + 1]) /\ (\A i \in 1..n : Hist!IsSystem(h[i])) => Hist!Leading(h) = n
           /\ h # <<>> /\ Hist!IsSystem(h[1]) => Hist!Leading(h) >= 1
<1> DEFINE S == {i \in 1..Len(h) + 1 : i > Len(h) \/ ~Hist!IsSystem(h[i])}
<1>1. Len(h) \in Nat
  OBVIOUS
<1>2. S \subseteq Nat /\ Len(h) + 1 \in S
  BY <1>1
<1> DEFINE k == Hist!Min(S)
<1>3. k \in S /\ \A y \in S : k <= y
  BY <1>2, MinIs
<1>4. Hist!Leading(h) = k - 1
  BY DEF Hist!Leading
<1>5. k \in 1..Len(h) + 1 /\ (k > Len(h) \/ ~Hist!IsSystem(h[k]))
  BY <1>3
<1>6. ASSUME NEW i \in 1..k - 1 PROVE Hist!IsSystem(h[i])
  <2>1. i \in 1..Len(h) + 1 /\ ~(k <= i) /\ i <= Len(h)
    BY <1>1, <1>5
  <2>2. QED
    BY <1>3, <2>1
<1>7. ASSUME NEW n \in 0..Len(h) - 1, ~Hist!IsSystem(h[n + 1]), \A i \in 1..n : Hist!IsSystem(h[i])
      PROVE  k - 1 = n
  <2>1. n + 1 \in S /\ n \in Int
    BY <1>1, <1>7
  <2>2. k <= n + 1
    BY <1>3, <2>1
  <2> HIDE DEF k, S
  <2>3. k \notin 1..n
    <3>1. n <= Len(h) - 1 /\ n \in Int
      BY <1>1
    <3>2. k \in 1..n => ~(k > Len(h)) /\ Hist!IsSystem(h[k])
      BY <1>1, <1>7, <3>1
    <3>3. QED
      BY <1>5, <3>2
  <2>4. QED
    BY <1>1, <1>5, <2>1, <2>2, <2>3
<1>8. ASSUME h # <<>>, Hist!IsSystem(h[1]) PROVE k - 1 >= 1
  <2>1. Len(h) >= 1
    BY <1>8, NotEmpty
  <2> HIDE DEF k
  <2>2. k # 1
    BY <1>1, <1>5, <1>8, <2>1
  <2>3. QED
    BY <1>1, <1>5, <2>2
<1> HIDE DEF k
<1>9. k - 1 \in 0..Len(h)
  BY <1>1, <1>5
<1>10. QED
  BY <1>4, <1>6, <1>7, <1>8, <1>9

LEMMA CompactedFine ==
    ASSUME Hist!HistoryAssumption, NEW h, Fine(h), h # <<>>
    PROVE  Fine(Hist!Compacted(h)) /\ Hist!Compacted(h) # <<>>
<1> DEFINE n == Hist!Leading(h)
           head == SubSeq(h, 1, n)
           m == Hist!Plain("state", 1)
           new == Hist!Newest(h, KeepLast)
           rest == Hist!Repaired(new)
           p == head \o <<m>>
           g == p \o rest
<1>1. h \in Seq(Stored) /\ AllMade(h) /\ IsOrigin(h[1]) /\ Hist!IsSystem(h[1]) /\ Len(h) \in Nat
  BY OriginIsSystem DEF Fine, Proper
<1>2. KeepLast \in Nat \ {0} /\ KeepLast \in Nat
  BY DEF Hist!HistoryAssumption
<1>3. n \in 1..Len(h) /\ \A i \in 1..n : Hist!IsSystem(h[i])
  <2>1. n \in 0..Len(h) /\ n >= 1 /\ \A i \in 1..n : Hist!IsSystem(h[i])
    BY <1>1, LeadingIsSystem
  <2> HIDE DEF n
  <2>2. QED
    BY <1>1, <2>1
<1>4. Hist!Compacted(h) = g
  BY DEF Hist!Compacted
<1> HIDE DEF n
<1>5. head \in Seq(Stored) /\ Len(head) = n /\ \A i \in 1..n : head[i] = h[i]
  BY <1>1, <1>3
<1> HIDE DEF head
<1>6. m \in Stored /\ m.kind = "state" /\ Made(m)
  <2>1. "state" \in Hist!Kinds \ {"calls", "result", "unfinished"}
    BY DEF Hist!Kinds, Hist!Systems, Hist!Tools
  <2>2. QED
    BY <2>1, PlainIs, MadeKinds
<1> HIDE DEF m
<1>7. PICK s \in 1..Len(h) + 1 : new = SubSeq(h, s, Len(h)) /\ Len(h) - s + 1 <= KeepLast
  BY <1>1, <1>2, NewestIs
<1> HIDE DEF new
<1>8. /\ new \in Seq(Stored) /\ Len(new) <= KeepLast /\ Len(new) \in Nat
      /\ \A i \in 1..Len(new) : new[i] = h[i + s - 1] /\ i + s - 1 \in s..Len(h)
  BY <1>1, <1>7, CutIs
<1>9. AllMade(new)
  <2> SUFFICES ASSUME NEW i \in 1..Len(new) PROVE Made(new[i])
    BY DEF AllMade
  <2>1. i + s - 1 \in 1..Len(h) /\ new[i] = h[i + s - 1]
    BY <1>1, <1>8
  <2>2. QED
    BY <1>1, <2>1 DEF AllMade
<1>10. rest \in Seq(Stored) /\ AllMade(rest) /\ Len(rest) <= Len(new) /\ Len(rest) \in Nat
  BY <1>8, <1>9, RepairedIs
<1> HIDE DEF rest
<1>11. /\ p \in Seq(Stored) /\ Len(p) = n + 1 /\ p[n + 1] = m /\ \A i \in 1..n : p[i] = h[i]
  <2>1. <<m>> \in Seq(Stored) /\ Len(<<m>>) = 1 /\ <<m>>[1] = m
    BY <1>6
  <2>2. p \in Seq(Stored) /\ Len(p) = n + 1 /\ p[n + 1] = m /\ \A i \in 1..n : p[i] = head[i]
    BY <1>3, <1>5, <2>1, Concat
  <2> HIDE DEF p
  <2>3. QED
    BY <1>5, <2>2
<1> HIDE DEF p
<1>12. /\ g \in Seq(Stored) /\ Len(g) = n + 1 + Len(rest) /\ g[n + 1] = m
       /\ (\A i \in 1..n : g[i] = h[i])
       /\ \A i \in 1..Len(rest) : g[n + 1 + i] = rest[i]
  <2>1. /\ g \in Seq(Stored) /\ Len(g) = Len(p) + Len(rest)
        /\ (\A i \in 1..Len(p) : g[i] = p[i])
        /\ \A i \in 1..Len(rest) : g[Len(p) + i] = rest[i]
    <3>1. p \in Seq(Stored) /\ rest \in Seq(Stored)
      BY <1>10, <1>11
    <3>2. QED
      BY <3>1, Concat
  <2> HIDE DEF g
  <2>2. n + 1 \in 1..Len(p) /\ \A i \in 1..n : i \in 1..Len(p)
    BY <1>3, <1>11
  <2>3. QED
    BY <1>11, <2>1, <2>2
<1> HIDE DEF g
<1>13. AllMade(g)
  <2> SUFFICES ASSUME NEW i \in 1..Len(g) PROVE Made(g[i])
    BY DEF AllMade
  <2>1. i \in 1..n \/ i = n + 1 \/ (i - (n + 1) \in 1..Len(rest) /\ n + 1 + (i - (n + 1)) = i)
    BY <1>3, <1>10, <1>12
  <2>2. \A j \in 1..n : j \in 1..Len(h)
    BY <1>1, <1>3
  <2>3. CASE i \in 1..n
    BY <1>1, <1>12, <2>2, <2>3 DEF AllMade
  <2>4. CASE i = n + 1
    BY <1>6, <1>12, <2>4
  <2>5. CASE i - (n + 1) \in 1..Len(rest) /\ n + 1 + (i - (n + 1)) = i
    <3>1. g[i] = rest[i - (n + 1)]
      BY <1>12, <2>5
    <3>2. QED
      BY <1>10, <2>5, <3>1 DEF AllMade
  <2>6. QED
    BY <2>1, <2>3, <2>4, <2>5
<1>14. g # <<>> /\ IsOrigin(g[1])
  <2>1. 1 \in 1..n /\ Len(g) >= 1
    BY <1>1, <1>3, <1>10, <1>12
  <2>2. QED
    BY <1>1, <1>12, <2>1, NotEmpty
<1>15. Hist!IsCompacted(g)
  <2>1. n \in 0..Len(g) - 1 /\ n < Len(g)
    BY <1>1, <1>3, <1>10, <1>12
  <2>2. ~Hist!IsSystem(g[n + 1])
    BY <1>6, <1>12 DEF Hist!IsSystem, Hist!Systems
  <2>3. \A i \in 1..n : Hist!IsSystem(g[i])
    BY <1>3, <1>12
  <2>4. Hist!Leading(g) = n
    BY <1>12, <2>1, <2>2, <2>3, LeadingIsSystem
  <2>5. Len(g) <= n + 1 + KeepLast
    BY <1>2, <1>3, <1>8, <1>10, <1>12
  <2>6. g[n + 1].kind = "state"
    BY <1>6, <1>12
  <2>7. QED
    BY <2>1, <2>4, <2>5, <2>6 DEF Hist!IsCompacted
<1>16. QED
  BY <1>4, <1>12, <1>13, <1>14, <1>15 DEF Fine, Proper

LEMMA AutoCompactedFine ==
    ASSUME Hist!HistoryAssumption, NEW h, Fine(h), h # <<>>
    PROVE  Fine(Hist!AutoCompacted(h)) /\ Hist!AutoCompacted(h) # <<>>
<1>1. Hist!AutoCompacted(h) = Hist!Compacted(h) \/ Hist!AutoCompacted(h) = h
  BY DEF Hist!AutoCompacted
<1>2. QED
  BY <1>1, CompactedFine

-----------------------------------------------------------------------------
(* The memory is within its limits. *)

FineInv ==
    /\ Fine(messages) /\ Fine(stored)
    /\ dialogue \notin {"prompt", "down"} \/ injected => messages # <<>>
    /\ dialogue = "down" => ~injected

LEMMA FineStep ==
    ASSUME FineInv, Fine(messages'), messages' # <<>>, stored' \in {stored, messages, messages'},
           dialogue' # "down"
    PROVE  FineInv'
<1>1. Fine(stored')
  BY DEF FineInv
<1>2. QED
  BY <1>1 DEF FineInv

LEMMA PlainFine ==
    ASSUME Hist!HistoryAssumption, MaxMessages >= 3, NEW h, Fine(h), h # <<>>
    PROVE  /\ \A m \in {Hist!Plain("prompt", 1), Hist!Plain("text", 1), Hist!Plain("empty", 0),
                        Hist!Plain("note", 0), Hist!Plain("extra", 0)} :
                Fine(Hist!Add(h, m)) /\ Hist!Add(h, m) # <<>>
           /\ \A c \in CallIds : \A z \in 0..2 :
                Fine(Hist!Add(h, Hist!ResultOf(c, z))) /\ Hist!Add(h, Hist!ResultOf(c, z)) # <<>>
<1>1. Proper(h)
  BY FineIsProper
<1>2. \A m \in {Hist!Plain("prompt", 1), Hist!Plain("text", 1), Hist!Plain("empty", 0),
                Hist!Plain("note", 0), Hist!Plain("extra", 0)} : m \in Stored /\ Made(m)
  BY PlainKinds, MadeKinds
<1>3. QED
  BY <1>1, <1>2, MadeResult, AddFine

LEMMA FineInit ==
    ASSUME Hist!HistoryAssumption, Hist!Init
    PROVE  FineInv
BY EmptyFine DEF FineInv, Hist!Init

LEMMA PromptFine ==
    ASSUME Hist!HistoryAssumption, MaxMessages >= 3, FineInv, Hist!Prompt
    PROVE  FineInv'
<1> DEFINE known == IF injected THEN messages ELSE Hist!Add(messages, Hist!Plain("identity", 0))
           placed == Hist!Replace(known, Hist!Plain("directive", 0))
           told == Hist!Add(placed, Hist!Plain("prompt", 1))
<1>1. /\ dialogue' = "step" /\ stored' = stored
      /\ messages' \in {told, Hist!Add(told, Hist!Plain("extra", 0))}
  BY DEF Hist!Prompt
<1>2. Fine(known) /\ known # <<>>
  <2>1. CASE injected
    BY <2>1 DEF FineInv
  <2>2. CASE ~injected
    BY <2>2, AddFine, FineIsProper, PlainKinds, MadeKinds DEF FineInv
  <2>3. QED
    BY <2>1, <2>2
<1> HIDE DEF known
<1>3. Fine(placed) /\ placed # <<>>
  BY <1>2, ReplaceFine
<1> HIDE DEF placed
<1>4. Fine(told) /\ told # <<>>
  BY <1>3, PlainFine
<1> HIDE DEF told
<1>5. Fine(messages') /\ messages' # <<>>
  BY <1>1, <1>4, PlainFine
<1>6. QED
  BY <1>1, <1>5, FineStep

LEMMA StepFine ==
    ASSUME Hist!HistoryAssumption, MaxMessages >= 3, FineInv, Hist!Step
    PROVE  FineInv'
<1>1. /\ dialogue = "step" /\ dialogue' = "think" /\ stored' = messages
      /\ messages' \in {messages, Hist!Replace(messages, Hist!Plain("refresh", 1))}
  BY DEF Hist!Step
<1>2. Fine(messages) /\ messages # <<>>
  BY <1>1 DEF FineInv
<1>3. Fine(messages') /\ messages' # <<>>
  BY <1>1, <1>2, ReplaceFine
<1>4. QED
  BY <1>1, <1>3, FineStep

LEMMA ThinkFine ==
    ASSUME Hist!HistoryAssumption, MaxMessages >= 3, FineInv, Hist!Think
    PROVE  FineInv'
<1>1. /\ dialogue = "think" /\ dialogue' = "wait" /\ stored' = stored
      /\ messages' = Hist!AutoCompacted(Hist!Hinted(messages))
  BY DEF Hist!Think
<1>2. Fine(messages) /\ messages # <<>>
  BY <1>1 DEF FineInv
<1>3. Fine(messages') /\ messages' # <<>>
  BY <1>1, <1>2, HintedFine, AutoCompactedFine
<1>4. QED
  BY <1>1, <1>3, FineStep

LEMMA OverflowFine ==
    ASSUME Hist!HistoryAssumption, MaxMessages >= 3, FineInv, Hist!Overflow
    PROVE  FineInv'
<1>1. /\ dialogue = "wait" /\ dialogue' # "down" /\ stored' = stored
      /\ messages' = Hist!Compacted(messages) \/ messages' = messages
  BY DEF Hist!Overflow
<1>2. Fine(messages) /\ messages # <<>>
  BY <1>1 DEF FineInv
<1>3. Fine(messages') /\ messages' # <<>>
  BY <1>1, <1>2, CompactedFine
<1>4. QED
  BY <1>1, <1>3, FineStep

LEMMA AnswerFine ==
    ASSUME Hist!HistoryAssumption, MaxMessages >= 3, FineInv, HInv, Hist!Answer
    PROVE  FineInv'
<1>1. /\ dialogue \in {"wait", "wait again"} /\ dialogue' = "act" /\ stored' = stored
      /\ answer' \in {Hist!Plain("text", 1), Hist!Plain("empty", 0)} \union Hist!Blocks
      /\ messages' = Hist!Add(messages, answer')
  BY DEF Hist!Answer
<1>2. Fine(messages) /\ messages # <<>>
  BY <1>1 DEF FineInv
<1>3. answer' \in Stored /\ Made(answer')
  <2>1. CASE answer' \in {Hist!Plain("text", 1), Hist!Plain("empty", 0)}
    BY <2>1, PlainKinds, MadeKinds
  <2>2. CASE answer' \in Hist!Blocks
    <3>1. PICK n \in 1..MaxBatch, z \in {0, 1} : answer' = Hist!Block(n, z)
      BY <2>2 DEF Hist!Blocks
    <3>2. n \in Nat /\ answers \in Nat
      BY DEF Hist!HistoryAssumption, HInv, CallsAreKnown
    <3>3. QED
      BY <3>1, <3>2, BlockIs, MadeBlock
  <2>3. QED
    BY <1>1, <2>1, <2>2
<1>4. Fine(messages') /\ messages' # <<>>
  BY <1>1, <1>2, <1>3, AddFine, FineIsProper
<1>5. dialogue' # "down"
  BY <1>1
<1>6. QED
  BY <1>1, <1>4, <1>5, FineStep

(* A note or none. *)
LEMMA NotedFine ==
    ASSUME Hist!HistoryAssumption, MaxMessages >= 3, FineInv, dialogue \in {"act", "tools"},
           messages' \in {messages, Hist!Add(messages, Hist!Plain("note", 0))},
           stored' = stored, dialogue' # "down"
    PROVE  FineInv'
<1>1. Fine(messages) /\ messages # <<>>
  BY DEF FineInv
<1>2. Fine(messages') /\ messages' # <<>>
  BY <1>1, PlainFine
<1>3. QED
  BY <1>2, FineStep

(* A result, with a note before or behind it or none. *)
LEMMA ResultFine ==
    ASSUME Hist!HistoryAssumption, MaxMessages >= 3, FineInv, todo # <<>>,
           CallsAreKnown, NEW c \in CallIds, NEW z \in 0..2,
           LET note == Hist!Plain("note", 0)
               result == Hist!ResultOf(c, z)
           IN  messages' \in {messages, Hist!Add(messages, result),
                              Hist!Add(Hist!Add(messages, note), result),
                              Hist!Add(Hist!Add(messages, result), note)},
           stored' \in {stored, messages}, dialogue' = dialogue
    PROVE  FineInv'
<1>1. dialogue = "tools"
  BY DEF CallsAreKnown
<1>2. Fine(messages) /\ messages # <<>>
  BY <1>1 DEF FineInv
<1> DEFINE note == Hist!Plain("note", 0)
           result == Hist!ResultOf(c, z)
<1>3. \A g : Fine(g) /\ g # <<>> =>
        /\ Fine(Hist!Add(g, note)) /\ Hist!Add(g, note) # <<>>
        /\ Fine(Hist!Add(g, result)) /\ Hist!Add(g, result) # <<>>
  BY PlainFine
<1> HIDE DEF note, result
<1>4. messages' \in {messages, Hist!Add(messages, result),
                     Hist!Add(Hist!Add(messages, note), result),
                     Hist!Add(Hist!Add(messages, result), note)}
  BY DEF note, result
<1>5. Fine(messages') /\ messages' # <<>>
  BY <1>2, <1>3, <1>4
<1>6. QED
  BY <1>1, <1>5, FineStep

LEMMA ToolFine ==
    ASSUME Hist!HistoryAssumption, MaxMessages >= 3, FineInv, HInv, NEW c \in Hist!Range(todo),
           \/ Hist!Deny(c) \/ Hist!Run(c) \/ Hist!Success(c) \/ Hist!Failure(c)
           \/ Hist!Blocked(c) \/ Hist!Raise(c)
    PROVE  FineInv'
<1>1. CallsAreKnown /\ c \in CallIds
  BY LeftIs DEF HInv
<1>2. todo # <<>>
  BY DEF Hist!Range
<1> DEFINE note == Hist!Plain("note", 0)
           kept == {messages, Hist!Add(messages, Hist!ResultOf(c, 0)),
                    Hist!Add(Hist!Add(messages, note), Hist!ResultOf(c, 0)),
                    Hist!Add(Hist!Add(messages, Hist!ResultOf(c, 0)), note)}
<1>3. CASE messages' \in kept /\ stored' \in {stored, messages} /\ dialogue' = dialogue
  <2>1. 0 \in 0..2
    OBVIOUS
  <2>2. QED
    BY <1>1, <1>2, <1>3, <2>1, ResultFine
<1>4. CASE Hist!Success(c)
  <2>1. messages' = Hist!Add(messages, Hist!ResultOf(c, 2)) /\ stored' = stored /\ dialogue' = dialogue
    BY <1>4 DEF Hist!Success
  <2>2. 2 \in 0..2
    OBVIOUS
  <2>3. QED
    BY <1>1, <1>2, <2>1, <2>2, ResultFine
<1>5. ~Hist!Success(c) => messages' \in kept /\ stored' \in {stored, messages} /\ dialogue' = dialogue
  BY DEF Hist!Deny, Hist!Run, Hist!Failure, Hist!Blocked, Hist!Raise
<1>6. QED
  BY <1>3, <1>4, <1>5

LEMMA CancelFine ==
    ASSUME Hist!HistoryAssumption, MaxMessages >= 3, FineInv, HInv, Hist!Cancel
    PROVE  FineInv'
<1>1. PICK some : messages' = Hist!WithResults(messages, todo, some)
  BY DEF Hist!Cancel
<1>2. /\ dialogue \in {"step", "think", "wait", "wait again", "tools"}
      /\ dialogue' = "end" /\ stored' = stored
  BY DEF Hist!Cancel
<1>3. Fine(messages) /\ messages # <<>>
  BY <1>2 DEF FineInv
<1>4. todo \in Seq(CallIds)
  BY DEF HInv, CallsAreKnown
<1>5. Fine(messages') /\ messages' # <<>>
  BY <1>1, <1>3, <1>4, WithResultsFine
<1>6. QED
  BY <1>2, <1>5, FineStep

LEMMA CompressFine ==
    ASSUME Hist!HistoryAssumption, FineInv, Hist!Compress
    PROVE  FineInv'
<1>1. /\ dialogue = "prompt" /\ dialogue' = dialogue /\ Hist!CanCompact(messages)
      /\ messages' = Hist!Compacted(messages) /\ stored' = messages' /\ injected' = injected
  BY DEF Hist!Compress
<1>2. Fine(messages) /\ messages \in Seq(Stored)
  BY FineIsProper DEF FineInv
<1>3. messages # <<>>
  <2>1. KeepLast \in Nat /\ Len(messages) \in Nat
    BY <1>2 DEF Hist!HistoryAssumption
  <2>2. Len(messages) >= 1
    BY <1>1, <2>1 DEF Hist!CanCompact
  <2>3. QED
    BY <1>2, <2>2, NotEmpty
<1>4. Fine(messages') /\ messages' # <<>>
  BY <1>1, <1>2, <1>3, CompactedFine
<1>5. QED
  BY <1>1, <1>4, FineStep

LEMMA KillFine ==
    ASSUME Hist!HistoryAssumption, FineInv, Hist!Kill
    PROVE  FineInv'
<1>1. messages' = <<>> /\ stored' = stored /\ dialogue' = "down" /\ injected' = FALSE
  BY DEF Hist!Kill
<1>2. Fine(messages') /\ Fine(stored')
  BY <1>1, EmptyFine DEF FineInv
<1>3. QED
  BY <1>1, <1>2 DEF FineInv

LEMMA RestartFine ==
    ASSUME Hist!HistoryAssumption, MaxMessages >= 3, FineInv, Hist!Restart
    PROVE  FineInv'
<1>1. /\ dialogue = "down" /\ dialogue' = "prompt" /\ stored' = stored /\ injected' = injected
      /\ messages' \in {<<>>, Hist!Add(stored, Hist!Plain("resumed", 0))}
  BY DEF Hist!Restart
<1>2. Fine(Hist!Add(stored, Hist!Plain("resumed", 0)))
  BY AddFine, FineIsProper, PlainKinds, MadeKinds DEF FineInv
<1>3. Fine(messages') /\ Fine(stored')
  BY <1>1, <1>2, EmptyFine DEF FineInv
<1>4. ~injected'
  BY <1>1 DEF FineInv
<1>5. QED
  BY <1>1, <1>3, <1>4 DEF FineInv

LEMMA FineNext ==
    ASSUME Hist!HistoryAssumption, MaxMessages >= 3, FineInv, HInv, [Hist!Next]_(Hist!vars)
    PROVE  FineInv'
<1>1. CASE \E c \in Hist!Range(todo) :
             Hist!Deny(c) \/ Hist!Run(c) \/ Hist!Success(c) \/ Hist!Failure(c) \/ Hist!Blocked(c) \/ Hist!Raise(c)
  BY <1>1, ToolFine
<1>2. CASE UNCHANGED Hist!vars
  <2>1. UNCHANGED <<messages, stored, dialogue, injected>>
    BY <1>2 DEF Hist!vars
  <2>2. QED
    BY <2>1 DEF FineInv
<1>3. CASE Hist!Text
  <2>1. /\ dialogue = "act" /\ dialogue' \in {"end", "step"} /\ stored' = stored
        /\ messages' \in {messages, Hist!Add(messages, Hist!Plain("note", 0))}
    BY <1>3 DEF Hist!Text
  <2>2. QED
    BY <2>1, NotedFine
<1>4. CASE Hist!Batch
  <2>1. dialogue = "act" /\ dialogue' = "tools" /\ messages' = messages /\ stored' = stored
    BY <1>4 DEF Hist!Batch
  <2>2. QED
    BY <2>1, NotedFine
<1>5. CASE Hist!Nothing
  <2>1. dialogue = "act" /\ dialogue' = "step" /\ messages' = messages /\ stored' = stored
    BY <1>5 DEF Hist!Nothing
  <2>2. QED
    BY <2>1, NotedFine
<1>6. CASE Hist!BatchOver
  <2>1. /\ dialogue = "tools" /\ dialogue' \in {"end", "step"} /\ stored' = stored
        /\ messages' \in {messages, Hist!Add(messages, Hist!Plain("note", 0))}
    BY <1>6 DEF Hist!BatchOver
  <2>2. QED
    BY <2>1, NotedFine
<1>7. CASE Hist!End
  <2>1. dialogue = "end" /\ dialogue' = "prompt" /\ messages' = messages /\ stored' = messages
    BY <1>7 DEF Hist!End
  <2>2. Fine(messages) /\ messages # <<>>
    BY <2>1 DEF FineInv
  <2>3. QED
    BY <2>1, <2>2, FineStep
<1>8. QED
  BY <1>1, <1>2, <1>3, <1>4, <1>5, <1>6, <1>7, PromptFine, StepFine, ThinkFine, OverflowFine,
     AnswerFine, CancelFine, CompressFine, KillFine, RestartFine DEF Hist!Next

LEMMA FineIsBounded ==
    ASSUME FineInv
    PROVE  Hist!MemoryIsBounded
<1>1. Fine(messages) /\ (dialogue \notin {"prompt", "down"} => messages # <<>>)
  BY DEF FineInv
<1>2. (Len(messages) <= MaxMessages /\ ~Hist!Exceeds(messages)) \/ Hist!IsCompacted(messages)
  BY <1>1 DEF Fine, IsBounded
<1>3. messages # <<>> => messages[1].kind \in {"identity", "resumed"}
  BY <1>1 DEF Fine, Proper, IsOrigin
<1>4. QED
  BY <1>1, <1>2, <1>3 DEF Hist!MemoryIsBounded

-----------------------------------------------------------------------------
(* The dialogue ends with a message that a window may begin with and no     *)
(* more than k results behind it.                                          *)

EndsAt(b, i, k) ==
    /\ i \in 1..Len(b) /\ ~Hist!IsTool(b[i])
    /\ b[i].kind = "calls" => i < Len(b)
    /\ \A j \in i + 1..Len(b) : Hist!IsTool(b[j])
    /\ Len(b) - i <= k

Ends(h, k) == \E i \in 1..Len(Body(h)) : EndsAt(Body(h), i, k)

RoomFor(k) == k + 3 <= MaxMessages /\ (MaxTokens > 0 => 2 * k + 1 <= MaxTokens)

NotSystems == Hist!Kinds \ Hist!Systems

LEMMA BodyNoSystem ==
    ASSUME NEW m \in Stored
    PROVE  m.kind \in NotSystems <=> ~Hist!IsSystem(m)
BY DEF NotSystems, Hist!IsSystem, Stored, Msgs

LEMMA BodyAmong ==
    ASSUME NEW h
    PROVE  Body(h) = Hist!Among(h, NotSystems)
BY DEF Body, Hist!Without, NotSystems

LEMMA BodyAppend ==
    ASSUME NEW h \in Seq(Stored), NEW m \in Stored
    PROVE  Body(Append(h, m)) = IF Hist!IsSystem(m) THEN Body(h) ELSE Append(Body(h), m)
<1>1. Hist!Among(Append(h, m), NotSystems) = Pick(Hist!Among(h, NotSystems), m, NotSystems)
  BY AmongAppend
<1>2. m.kind \in NotSystems <=> ~Hist!IsSystem(m)
  BY BodyNoSystem
<1>3. QED
  BY <1>1, <1>2, BodyAmong DEF Pick

LEMMA BodyConcat ==
    ASSUME NEW p \in Seq(Stored), NEW h \in Seq(Stored)
    PROVE  Body(p \o h) = Body(p) \o Body(h)
BY AmongConcat, BodyAmong

LEMMA BodyOfSystems ==
    ASSUME NEW h \in Seq(Stored), \A i \in 1..Len(h) : Hist!IsSystem(h[i])
    PROVE  Body(h) = <<>>
<1>1. \A i \in 1..Len(h) : h[i].kind \notin NotSystems
  BY DEF NotSystems, Hist!IsSystem
<1>2. QED
  BY <1>1, AmongNone, BodyAmong

LEMMA BodyOfBody ==
    ASSUME NEW h \in Seq(Stored), \A i \in 1..Len(h) : ~Hist!IsSystem(h[i])
    PROVE  Body(h) = h
<1>1. \A i \in 1..Len(h) : h[i].kind \in NotSystems
  <2> SUFFICES ASSUME NEW i \in 1..Len(h) PROVE h[i].kind \in NotSystems
    OBVIOUS
  <2>1. h[i] \in Stored /\ ~Hist!IsSystem(h[i])
    OBVIOUS
  <2>2. QED
    BY <2>1, BodyNoSystem
<1>2. QED
  BY <1>1, AmongAll, BodyAmong

LEMMA BodyCosts ==
    ASSUME NEW h \in Seq(Stored), AllMade(h)
    PROVE  \A i \in 1..Len(Body(h)) :
              Body(h)[i].size <= IF Hist!IsTool(Body(h)[i]) THEN 2 ELSE 1
<1> DEFINE b == Body(h)
<1>1. b \in Seq(Stored) /\ \A i \in 1..Len(b) : ~Hist!IsSystem(b[i]) /\ \E j \in 1..Len(h) : b[i] = h[j]
  BY BodyIs
<1> HIDE DEF b
<1>2. \A i \in 1..Len(b) : Costs(b[i])
  BY <1>1 DEF AllMade, Made
<1>3. \A i \in 1..Len(b) : b[i].size <= IF Hist!IsTool(b[i]) THEN 2 ELSE 1
  BY <1>1, <1>2 DEF Costs
<1>4. QED
  BY <1>3 DEF b

(* The last message of a dialogue. *)
LEMMA LastOfBody ==
    ASSUME NEW h \in Seq(Stored), h # <<>>, ~Hist!IsSystem(h[Len(h)])
    PROVE  /\ Len(Body(h)) \in 1..Len(Body(h)) /\ Body(h)[Len(Body(h))] = h[Len(h)]
           /\ Body(h) \in Seq(Stored) /\ Len(Body(h)) \in Nat
<1> DEFINE m == h[Len(h)]
           n == Len(h) - 1
           p == SubSeq(h, 1, n)
           b == Body(p)
<1>1. Len(h) \in Nat /\ Len(h) >= 1 /\ m \in Stored
  BY NotEmpty
<1>2. p \in Seq(Stored) /\ h = Append(p, m)
  <2>1. p \in Seq(Stored) /\ Len(p) = Len(h) - 1 /\ \A i \in 1..Len(p) : p[i] = h[i]
    <3>1. n \in 0..Len(h) /\ n = Len(h) - 1
      BY <1>1
    <3> HIDE DEF n, m
    <3>2. p \in Seq(Stored) /\ Len(p) = n /\ \A i \in 1..n : p[i] = h[i]
      BY <1>1, <3>1
    <3> HIDE DEF p
    <3>3. QED
      BY <3>1, <3>2
  <2> HIDE DEF p, m
  <2>2. /\ Append(p, m) \in Seq(Stored) /\ Len(Append(p, m)) = Len(h)
        /\ \A i \in 1..Len(Append(p, m)) : Append(p, m)[i] = h[i]
    <3>1. /\ Append(p, m) \in Seq(Stored) /\ Len(Append(p, m)) = Len(p) + 1 /\ Len(p) \in Nat
          /\ \A i \in 1..Len(p) : Append(p, m)[i] = p[i]
          /\ Append(p, m)[Len(p) + 1] = m
      BY <1>1, <2>1, AppendStored
    <3>2. \A i \in 1..Len(h) : i \in 1..Len(p) \/ i = Len(h)
      BY <1>1, <2>1
    <3>3. Len(p) + 1 = Len(h)
      BY <1>1, <2>1
    <3>4. QED
      BY <2>1, <3>1, <3>2, <3>3 DEF m
  <2>3. Append(p, m) = h
    BY <2>2, Same
  <2>4. QED
    BY <2>1, <2>3
<1> HIDE DEF p, m
<1>3. Body(h) = Append(b, m)
  BY <1>1, <1>2, BodyAppend DEF m
<1>4. b \in Seq(Stored)
  BY <1>2, BodyIs
<1> HIDE DEF b
<1>5. /\ Append(b, m) \in Seq(Stored) /\ Len(Append(b, m)) = Len(b) + 1 /\ Len(b) \in Nat
      /\ Append(b, m)[Len(b) + 1] = m /\ Len(b) + 1 \in 1..Len(Append(b, m))
  BY <1>1, <1>4, AppendStored
<1>6. QED
  BY <1>3, <1>5 DEF m

LEMMA EndsMore ==
    ASSUME NEW h \in Seq(Stored), NEW k \in Nat, Ends(h, k), NEW l \in Nat, k <= l
    PROVE  Ends(h, l)
<1>1. Len(Body(h)) \in Nat
  BY BodyIs
<1>2. PICK i \in 1..Len(Body(h)) : EndsAt(Body(h), i, k)
  BY DEF Ends
<1>3. Len(Body(h)) - i <= l
  BY <1>1, <1>2 DEF EndsAt
<1>4. EndsAt(Body(h), i, l)
  BY <1>2, <1>3 DEF EndsAt
<1>5. QED
  BY <1>4 DEF Ends

(* A history that ends with a message that is no result and no calls. *)
IsOpening(m) == ~Hist!IsSystem(m) /\ ~Hist!IsTool(m) /\ m.kind # "calls"

LEMMA EndsWith ==
    ASSUME NEW h \in Seq(Stored), h # <<>>, IsOpening(h[Len(h)])
    PROVE  Ends(h, 0)
<1> DEFINE b == Body(h)
           n == Len(b)
<1>1. n \in 1..n /\ b[n] = h[Len(h)] /\ n \in Nat
  BY LastOfBody DEF IsOpening
<1> HIDE DEF b
<1>2. EndsAt(b, n, 0)
  BY <1>1 DEF EndsAt, IsOpening
<1>3. QED
  BY <1>1, <1>2 DEF Ends, b

(* A result behind an end. *)
LEMMA EndsWithResult ==
    ASSUME NEW h \in Seq(Stored), NEW m \in Stored, Hist!IsTool(m), ~Hist!IsSystem(m),
           NEW k \in Nat, Ends(h, k)
    PROVE  Ends(Append(h, m), k + 1)
<1> DEFINE b == Body(h)
           g == Append(b, m)
<1>1. PICK i \in 1..Len(b) : EndsAt(b, i, k)
  BY DEF Ends
<1>2. b \in Seq(Stored)
  BY BodyIs
<1>3. Body(Append(h, m)) = g
  BY BodyAppend
<1> HIDE DEF b
<1>4. /\ g \in Seq(Stored) /\ Len(g) = Len(b) + 1 /\ Len(b) \in Nat /\ g[Len(b) + 1] = m
      /\ (\A j \in 1..Len(b) : g[j] = b[j])
      /\ \A j \in 1..Len(g) : j \in 1..Len(b) \/ j = Len(b) + 1
  BY <1>2, AppendStored
<1> HIDE DEF g
<1>5. i \in 1..Len(g) /\ i < Len(g) /\ Len(g) - i <= k + 1 /\ g[i] = b[i]
  BY <1>1, <1>4 DEF EndsAt
<1>6. \A j \in i + 1..Len(g) : Hist!IsTool(g[j])
  <2> SUFFICES ASSUME NEW j \in i + 1..Len(g) PROVE Hist!IsTool(g[j])
    OBVIOUS
  <2>1. j \in i + 1..Len(b) \/ j = Len(b) + 1
    BY <1>4
  <2>2. j \in i + 1..Len(b) => j \in 1..Len(b)
    BY <1>4
  <2>3. QED
    BY <1>1, <1>4, <2>1, <2>2 DEF EndsAt
<1>7. EndsAt(g, i, k + 1)
  BY <1>1, <1>5, <1>6 DEF EndsAt
<1>8. QED
  BY <1>3, <1>5, <1>7 DEF Ends

(* A result behind calls that have none yet. *)
LEMMA EndsWithFirst ==
    ASSUME NEW h \in Seq(Stored), NEW m \in Stored, Hist!IsTool(m), ~Hist!IsSystem(m),
           h # <<>>, h[Len(h)].kind = "calls"
    PROVE  Ends(Append(h, m), 1)
<1> DEFINE b == Body(h)
           g == Append(b, m)
           n == Len(b)
<1>1. ~Hist!IsSystem(h[Len(h)])
  BY DEF Hist!IsSystem, Hist!Systems
<1>2. n \in 1..n /\ b[n] = h[Len(h)] /\ n \in Nat /\ b \in Seq(Stored)
  BY <1>1, LastOfBody
<1>3. Body(Append(h, m)) = g
  BY BodyAppend
<1> HIDE DEF b
<1>4. /\ g \in Seq(Stored) /\ Len(g) = n + 1 /\ g[n + 1] = m
      /\ \A j \in 1..n : g[j] = b[j]
  BY <1>2, AppendStored
<1> HIDE DEF g, n
<1>5. n \in 1..Len(g) /\ n < Len(g) /\ Len(g) - n <= 1 /\ g[n] = h[Len(h)]
  BY <1>2, <1>4
<1>6. \A j \in n + 1..Len(g) : j = n + 1
  BY <1>2, <1>4
<1>7. ~Hist!IsTool(h[Len(h)])
  BY DEF Hist!IsTool, Hist!Tools
<1>8. EndsAt(g, n, 1)
  BY <1>4, <1>5, <1>6, <1>7 DEF EndsAt
<1>9. QED
  BY <1>3, <1>5, <1>8 DEF Ends

LEMMA EndsWithSystem ==
    ASSUME NEW h \in Seq(Stored), NEW m \in Stored, Hist!IsSystem(m), NEW k, Ends(h, k)
    PROVE  Ends(Append(h, m), k)
BY BodyAppend DEF Ends

(* Such an end fits, and trimming leaves it.                               *)

LEMMA EndIsLight ==
    ASSUME NEW h \in Seq(Stored), AllMade(h), NEW k \in Nat, NEW i, EndsAt(Body(h), i, k)
    PROVE  LET c == SubSeq(Body(h), i, Len(Body(h)))
           IN  c \in Seq(Stored) /\ Hist!Tokens(c) \in Nat /\ Hist!Tokens(c) <= 2 * k + 1
<1> DEFINE b == Body(h)
           c == SubSeq(b, i, Len(b))
<1>1. b \in Seq(Stored) /\ Len(b) \in Nat
  BY BodyIs
<1>2. \A j \in 1..Len(b) : b[j].size <= IF Hist!IsTool(b[j]) THEN 2 ELSE 1
  BY BodyCosts
<1>3. i \in 1..Len(b) /\ ~Hist!IsTool(b[i]) /\ Len(b) - i <= k
  BY DEF EndsAt
<1> HIDE DEF b
<1>4. i \in 1..Len(b) + 1
  BY <1>1, <1>3
<1>5. /\ c \in Seq(Stored) /\ Len(c) = Len(b) - i + 1 /\ Len(c) \in Nat
      /\ \A j \in 1..Len(c) : c[j] = b[j + i - 1] /\ j + i - 1 \in i..Len(b)
  BY <1>1, <1>4, CutIs
<1> HIDE DEF c
<1>6. Light(c)
  <2> SUFFICES ASSUME NEW j \in 1..Len(c) PROVE c[j].size <= IF j = 1 THEN 1 ELSE 2
    BY DEF Light
  <2>1. j + i - 1 \in 1..Len(b) /\ c[j] = b[j + i - 1] /\ c[j] \in Stored
    BY <1>1, <1>3, <1>5
  <2>2. c[j].size \in Nat
    BY <2>1 DEF Stored, Msgs
  <2>3. c[j].size <= 2
    <3>1. c[j].size <= IF Hist!IsTool(b[j + i - 1]) THEN 2 ELSE 1
      BY <1>2, <2>1
    <3>2. QED
      BY <2>2, <3>1
  <2>4. j = 1 => c[j].size <= 1
    <3>1. j = 1 => j + i - 1 = i
      BY <1>3
    <3>2. QED
      BY <1>2, <1>3, <2>1, <3>1
  <2>5. QED
    BY <2>3, <2>4
<1>7. c # <<>> /\ Len(c) <= k + 1
  <2>1. Len(c) >= 1 /\ Len(c) <= k + 1
    BY <1>1, <1>3, <1>5
  <2>2. QED
    BY <1>5, <2>1, NotEmpty
<1>8. Hist!Tokens(c) \in Nat /\ Hist!Tokens(c) + 1 <= 2 * Len(c)
  BY <1>5, <1>6, <1>7, TokensLight
<1>9. Hist!Tokens(c) <= 2 * k + 1
  BY <1>5, <1>7, <1>8
<1>10. QED
  BY <1>5, <1>8, <1>9 DEF b, c

LEMMA EndFits ==
    ASSUME Hist!HistoryAssumption, NEW h \in Seq(Stored), AllMade(h), NEW k \in Nat, RoomFor(k),
           NEW i, EndsAt(Body(h), i, k)
    PROVE  Fits(h, i)
<1> DEFINE b == Body(h)
           t == Hist!Tokens(SubSeq(b, i, Len(b)))
<1>1. t \in Nat /\ t <= 2 * k + 1
  BY EndIsLight
<1>2. b \in Seq(Stored) /\ Len(b) \in Nat
  BY BodyIs
<1>3. i \in 1..Len(b) /\ Hist!Opens(b, i) /\ Len(b) - i <= k
  <2>1. /\ i \in 1..Len(b) /\ ~Hist!IsTool(b[i]) /\ Len(b) - i <= k
        /\ b[i].kind = "calls" => i < Len(b)
        /\ \A j \in i + 1..Len(b) : Hist!IsTool(b[j])
    BY DEF EndsAt
  <2> HIDE DEF b
  <2>2. i < Len(b) => i + 1 \in i + 1..Len(b)
    BY <1>2, <2>1
  <2>3. QED
    BY <2>1, <2>2 DEF Hist!Opens
<1> HIDE DEF b, t
<1>4. Len(b) - i + 3 <= MaxMessages
  BY <1>2, <1>3 DEF RoomFor, Hist!HistoryAssumption
<1>5. MaxTokens > 0 => t <= MaxTokens
  BY <1>1 DEF RoomFor, Hist!HistoryAssumption
<1>6. QED
  BY <1>3, <1>4, <1>5 DEF Fits, b, t

LEMMA EndFitsWithCalls ==
    ASSUME Hist!HistoryAssumption, NEW h \in Seq(Stored), AllMade(h), NEW k \in Nat, RoomFor(k),
           k + 4 <= MaxMessages, MaxTokens > 0 => 2 * k + 2 <= MaxTokens,
           NEW i, EndsAt(Body(h), i, k), NEW m \in Stored, Made(m), m.kind = "calls"
    PROVE  Fits(Append(h, m), i)
<1> DEFINE b == Body(h)
           c == SubSeq(b, i, Len(b))
           b2 == Append(b, m)
           c2 == SubSeq(b2, i, Len(b2))
<1>1. c \in Seq(Stored) /\ Hist!Tokens(c) \in Nat /\ Hist!Tokens(c) <= 2 * k + 1
  BY EndIsLight
<1>2. b \in Seq(Stored) /\ Len(b) \in Nat
  BY BodyIs
<1>3. /\ i \in 1..Len(b) /\ ~Hist!IsTool(b[i]) /\ Len(b) - i <= k
      /\ b[i].kind = "calls" => i < Len(b)
      /\ \A j \in i + 1..Len(b) : Hist!IsTool(b[j])
  BY DEF EndsAt
<1>4. ~Hist!IsSystem(m) /\ ~Hist!IsTool(m)
  BY DEF Hist!IsSystem, Hist!Systems, Hist!IsTool, Hist!Tools
<1>5. Body(Append(h, m)) = b2
  BY <1>4, BodyAppend
<1> HIDE DEF b
<1>6. /\ b2 \in Seq(Stored) /\ Len(b2) = Len(b) + 1 /\ b2[Len(b) + 1] = m
      /\ \A j \in 1..Len(b) : b2[j] = b[j]
  BY <1>2, AppendStored
<1> HIDE DEF b2
<1>7. i \in 1..Len(b2) /\ Hist!Opens(b2, i)
  <2>1. i \in 1..Len(b2) /\ b2[i] = b[i]
    BY <1>2, <1>3, <1>6
  <2>2. i < Len(b) => i + 1 \in i + 1..Len(b) /\ i + 1 \in 1..Len(b) /\ i < Len(b2)
    BY <1>2, <1>3, <1>6
  <2>3. i < Len(b) => Hist!IsTool(b2[i + 1])
    BY <1>3, <1>6, <2>2
  <2>4. QED
    BY <1>3, <2>1, <2>2, <2>3 DEF Hist!Opens
<1>8. Len(b2) - i + 3 <= MaxMessages
  BY <1>2, <1>3, <1>6 DEF Hist!HistoryAssumption
<1>9. m.size \in Nat /\ m.size <= 1
  BY <1>4 DEF Made, Costs, Stored, Msgs
<1>10. c2 = Append(c, m)
  <2> DEFINE f == Append(c, m)
  <2>1. i \in 1..Len(b) + 1 /\ i \in 1..Len(b2) + 1
    BY <1>2, <1>3, <1>6
  <2>2. /\ Len(c) = Len(b) - i + 1
        /\ \A j \in 1..Len(c) : c[j] = b[j + i - 1] /\ j + i - 1 \in i..Len(b)
    BY <1>2, <2>1, CutIs
  <2>3. /\ c2 \in Seq(Stored) /\ Len(c2) = Len(b2) - i + 1
        /\ \A j \in 1..Len(c2) : c2[j] = b2[j + i - 1]
    BY <1>6, <2>1, CutIs
  <2> HIDE DEF c, c2
  <2>4. /\ f \in Seq(Stored) /\ Len(f) = Len(c) + 1 /\ f[Len(c) + 1] = m
        /\ (\A j \in 1..Len(c) : f[j] = c[j])
        /\ \A j \in 1..Len(f) : j \in 1..Len(c) \/ j = Len(c) + 1
    BY <1>1, AppendStored
  <2> HIDE DEF f
  <2>5. Len(c2) = Len(f)
    BY <1>2, <1>3, <1>6, <2>2, <2>3, <2>4
  <2>6. ASSUME NEW j \in 1..Len(c2) PROVE c2[j] = f[j]
    <3>1. CASE j \in 1..Len(c)
      <4>1. j + i - 1 \in 1..Len(b)
        BY <1>2, <1>3, <2>2, <3>1
      <4>2. QED
        BY <1>6, <2>2, <2>3, <2>4, <3>1, <4>1
    <3>2. CASE j = Len(c) + 1
      <4>1. j + i - 1 = Len(b) + 1
        BY <1>2, <1>3, <2>2, <3>2
      <4>2. QED
        BY <1>6, <2>3, <2>4, <3>2, <4>1
    <3>3. QED
      BY <2>4, <2>5, <3>1, <3>2
  <2>7. c2 = f
    BY <2>3, <2>4, <2>5, <2>6, Same
  <2>8. QED
    BY <2>7 DEF f
<1> HIDE DEF c, c2
<1>11. Hist!Tokens(c2) = Hist!Tokens(c) + m.size
  BY <1>1, <1>10, TokensAppend
<1>12. MaxTokens > 0 => Hist!Tokens(c2) <= MaxTokens
  BY <1>1, <1>9, <1>11 DEF Hist!HistoryAssumption
<1>13. QED
  BY <1>5, <1>7, <1>8, <1>12 DEF Fits, c2

LEMMA TrimmedBody ==
    ASSUME NEW h \in Seq(Stored), NEW g, NEW head, NEW s, Trimmed(h, g, head, s)
    PROVE  Body(g) = SubSeq(Body(h), s, Len(Body(h)))
<1> DEFINE b == Body(h)
           c == SubSeq(b, s, Len(b))
<1>1. head \in Seq(Stored) /\ (\A i \in 1..Len(head) : Hist!IsSystem(head[i]))
      /\ g = head \o c /\ s \in 1..Len(b) + 1
  BY DEF Trimmed
<1>2. b \in Seq(Stored) /\ \A i \in 1..Len(b) : ~Hist!IsSystem(b[i])
  BY BodyIs
<1> HIDE DEF b
<1>3. /\ c \in Seq(Stored) /\ Len(b) \in Nat
      /\ \A i \in 1..Len(c) : c[i] = b[i + s - 1] /\ i + s - 1 \in s..Len(b)
  BY <1>1, <1>2, CutIs
<1> HIDE DEF c
<1>4. \A i \in 1..Len(c) : ~Hist!IsSystem(c[i])
  <2> SUFFICES ASSUME NEW i \in 1..Len(c) PROVE ~Hist!IsSystem(c[i])
    OBVIOUS
  <2>1. i + s - 1 \in 1..Len(b) /\ c[i] = b[i + s - 1]
    BY <1>1, <1>3
  <2>2. QED
    BY <1>2, <2>1
<1>5. Body(head) = <<>> /\ Body(c) = c
  BY <1>1, <1>3, <1>4, BodyOfSystems, BodyOfBody
<1>6. Body(g) = <<>> \o c
  BY <1>1, <1>3, <1>5, BodyConcat
<1>7. <<>> \o c = c
  BY <1>3
<1>8. QED
  BY <1>6, <1>7 DEF b, c

LEMMA TrimEnds ==
    ASSUME Hist!HistoryAssumption, MaxMessages >= 3, NEW h \in Seq(Stored), AllMade(h),
           NEW k \in Nat, RoomFor(k), Ends(h, k)
    PROVE  Ends(Hist!Trim(h), k)
<1> DEFINE t == Hist!Trim(h)
           b == Body(h)
<1>1. PICK i \in 1..Len(b) : EndsAt(b, i, k)
  BY DEF Ends
<1>2. CASE IsBounded(h)
  <2>1. t = h
    BY <1>2 DEF IsBounded, Hist!Trim
  <2>2. QED
    BY <2>1
<1>3. CASE ~IsBounded(h)
  <2>1. PICK head, s : Trimmed(h, t, head, s) /\ \A j : Fits(h, j) => s <= j
    BY <1>3, MadeIsFree, TrimIs
  <2>2. s <= i
    BY <1>1, <2>1, EndFits
  <2> DEFINE c == SubSeq(b, s, Len(b))
             j == i - s + 1
  <2>3. Body(t) = c
    BY <2>1, TrimmedBody
  <2>4. b \in Seq(Stored) /\ Len(b) \in Nat /\ s \in 1..Len(b) + 1
    BY <2>1, BodyIs DEF Trimmed
  <2> HIDE DEF b
  <2>5. /\ Len(c) = Len(b) - s + 1 /\ Len(c) \in Nat
        /\ \A x \in 1..Len(c) : c[x] = b[x + s - 1] /\ x + s - 1 \in s..Len(b)
        /\ \A x \in s..Len(b) : x - s + 1 \in 1..Len(c) /\ c[x - s + 1] = b[x]
    BY <2>4, CutIs
  <2> HIDE DEF c
  <2>6. i \in s..Len(b)
    BY <1>1, <2>2, <2>4
  <2>7. j \in 1..Len(c) /\ c[j] = b[i]
    BY <2>5, <2>6
  <2>8. Len(c) - j = Len(b) - i /\ (i < Len(b) => j < Len(c))
    BY <2>4, <2>5, <2>6
  <2>9. ASSUME NEW x \in j + 1..Len(c) PROVE Hist!IsTool(c[x])
    <3>1. x \in 1..Len(c) /\ x + s - 1 \in i + 1..Len(b)
      BY <2>4, <2>5, <2>6, <2>7
    <3>2. c[x] = b[x + s - 1]
      BY <2>5, <3>1
    <3>3. QED
      BY <1>1, <3>1, <3>2 DEF EndsAt
  <2> HIDE DEF j
  <2>10. EndsAt(c, j, k)
    BY <1>1, <2>7, <2>8, <2>9 DEF EndsAt
  <2>11. QED
    BY <2>3, <2>7, <2>10 DEF Ends
<1>4. QED
  BY <1>2, <1>3

LEMMA TrimLast ==
    ASSUME Hist!HistoryAssumption, MaxMessages >= 3, NEW h \in Seq(Stored), AllMade(h),
           h # <<>>, ~Hist!IsSystem(h[Len(h)]), NEW i, Fits(h, i)
    PROVE  LET t == Hist!Trim(h)
           IN  t # <<>> /\ t[Len(t)] = h[Len(h)]
<1> DEFINE t == Hist!Trim(h)
           b == Body(h)
           n == Len(b)
<1>1. CASE IsBounded(h)
  <2>1. t = h
    BY <1>1 DEF IsBounded, Hist!Trim
  <2>2. QED
    BY <2>1
<1>2. CASE ~IsBounded(h)
  <2>1. PICK head, s : Trimmed(h, t, head, s) /\ \A j : Fits(h, j) => s <= j
    BY <1>2, MadeIsFree, TrimIs
  <2>2. s <= i /\ i \in 1..n
    BY <2>1 DEF Fits
  <2> DEFINE c == SubSeq(b, s, n)
  <2>3. b \in Seq(Stored) /\ n \in Nat /\ s \in 1..n + 1 /\ head \in Seq(Stored) /\ t = head \o c
    BY <2>1, BodyIs DEF Trimmed
  <2>4. b[n] = h[Len(h)]
    BY LastOfBody
  <2> HIDE DEF b, n
  <2>5. n \in s..n
    BY <2>2, <2>3
  <2>6. /\ c \in Seq(Stored) /\ Len(c) = n - s + 1 /\ Len(c) \in Nat
        /\ \A x \in s..n : x - s + 1 \in 1..Len(c) /\ c[x - s + 1] = b[x]
    BY <2>3, CutIs DEF n
  <2>7. Len(c) \in 1..Len(c) /\ c[Len(c)] = b[n]
    BY <2>5, <2>6
  <2> HIDE DEF c
  <2> HIDE DEF t
  <2>8. /\ t \in Seq(Stored) /\ Len(t) = Len(head) + Len(c) /\ Len(head) \in Nat
        /\ \A x \in 1..Len(c) : t[Len(head) + x] = c[x]
    <3>1. head \in Seq(Stored) /\ c \in Seq(Stored) /\ t = head \o c
      BY <2>3, <2>6
    <3>2. QED
      BY <3>1, Concat
  <2>9. t[Len(t)] = c[Len(c)]
    BY <2>7, <2>8
  <2>10. t # <<>>
    <3>1. Len(t) >= 1
      BY <2>7, <2>8
    <3>2. QED
      BY <2>8, <3>1, NotEmpty
  <2>11. QED
    BY <2>4, <2>7, <2>9, <2>10 DEF t
<1>3. QED
  BY <1>1, <1>2

LEMMA Halves ==
    ASSUME NEW h \in Seq(Stored), NEW s \in 1..Len(h) + 1
    PROVE  /\ SubSeq(h, 1, s - 1) \in Seq(Stored) /\ SubSeq(h, s, Len(h)) \in Seq(Stored)
           /\ h = SubSeq(h, 1, s - 1) \o SubSeq(h, s, Len(h))
<1> DEFINE n == s - 1
           p == SubSeq(h, 1, n)
           g == SubSeq(h, s, Len(h))
           f == p \o g
<1>1. n \in 0..Len(h) /\ n = s - 1 /\ Len(h) \in Nat /\ s \in Nat
  OBVIOUS
<1>2. /\ g \in Seq(Stored) /\ Len(g) = Len(h) - s + 1 /\ Len(g) \in Nat
      /\ \A i \in 1..Len(g) : g[i] = h[i + s - 1] /\ i + s - 1 \in s..Len(h)
  BY CutIs
<1> HIDE DEF g, n
<1>3. p \in Seq(Stored) /\ Len(p) = n /\ \A i \in 1..n : p[i] = h[i]
  BY <1>1
<1> HIDE DEF p
<1>4. /\ f \in Seq(Stored) /\ Len(f) = Len(p) + Len(g)
      /\ (\A i \in 1..Len(p) : f[i] = p[i])
      /\ \A i \in 1..Len(g) : f[Len(p) + i] = g[i]
  <2>1. p \in Seq(Stored) /\ g \in Seq(Stored)
    BY <1>2, <1>3
  <2>2. QED
    BY <2>1, Concat
<1> HIDE DEF f
<1>5. Len(f) = Len(h)
  BY <1>1, <1>2, <1>3, <1>4
<1>6. ASSUME NEW i \in 1..Len(f) PROVE f[i] = h[i]
  <2>1. CASE i \in 1..n
    BY <1>3, <1>4, <2>1
  <2>2. CASE i \notin 1..n
    <3>1. i - n \in 1..Len(g) /\ n + (i - n) = i /\ (i - n) + s - 1 = i
      BY <1>1, <1>2, <1>5, <2>2
    <3>2. f[i] = g[i - n]
      BY <1>3, <1>4, <3>1
    <3>3. QED
      BY <1>2, <3>1, <3>2
  <2>3. QED
    BY <2>1, <2>2
<1>7. f = h
  BY <1>4, <1>5, <1>6, Same
<1>8. QED
  BY <1>2, <1>3, <1>7 DEF f, p, g, n

(* Of an end in two parts, the later one ends so or has results only. *)
LEMMA EndOfHalves ==
    ASSUME NEW p \in Seq(Stored), NEW b \in Seq(Stored), NEW k \in Nat,
           NEW i, EndsAt(p \o b, i, k)
    PROVE  \/ \E j \in 1..Len(b) : EndsAt(b, j, k)
           \/ Len(b) <= k /\ \A j \in 1..Len(b) : Hist!IsTool(b[j])
<1> DEFINE g == p \o b
           n == Len(p)
<1>1. /\ g \in Seq(Stored) /\ Len(g) = n + Len(b) /\ n \in Nat /\ Len(b) \in Nat
      /\ \A x \in 1..Len(b) : g[n + x] = b[x]
  BY Concat
<1> HIDE DEF g, n
<1>2. /\ i \in 1..Len(g) /\ ~Hist!IsTool(g[i])
      /\ g[i].kind = "calls" => i < Len(g)
      /\ \A j \in i + 1..Len(g) : Hist!IsTool(g[j])
      /\ Len(g) - i <= k
  BY DEF EndsAt, g
<1>3. CASE i > n
  <2> DEFINE j == i - n
  <2>1. j \in 1..Len(b) /\ n + j = i /\ (i < Len(g) => j < Len(b)) /\ Len(b) - j <= k
    BY <1>1, <1>2, <1>3
  <2>2. g[i] = b[j]
    BY <1>1, <2>1
  <2>3. ASSUME NEW x \in j + 1..Len(b) PROVE Hist!IsTool(b[x])
    <3>1. x \in 1..Len(b) /\ n + x \in i + 1..Len(g)
      BY <1>1, <1>2, <2>1
    <3>2. QED
      BY <1>1, <1>2, <3>1
  <2> HIDE DEF j
  <2>4. EndsAt(b, j, k)
    BY <1>2, <2>1, <2>2, <2>3 DEF EndsAt
  <2>5. QED
    BY <2>1, <2>4
<1>4. CASE ~(i > n)
  <2>1. Len(b) <= k
    BY <1>1, <1>2, <1>4
  <2>2. ASSUME NEW x \in 1..Len(b) PROVE Hist!IsTool(b[x])
    <3>1. n + x \in i + 1..Len(g)
      BY <1>1, <1>2, <1>4
    <3>2. QED
      BY <1>1, <1>2, <3>1
  <2>3. QED
    BY <2>1, <2>2
<1>5. QED
  BY <1>3, <1>4

(* A message that is no result and no calls, in front. *)
LEMMA EndBehind ==
    ASSUME NEW m \in Stored, IsOpening(m), NEW b \in Seq(Stored), NEW k \in Nat,
           \/ \E j \in 1..Len(b) : EndsAt(b, j, k)
           \/ Len(b) <= k /\ \A j \in 1..Len(b) : Hist!IsTool(b[j])
    PROVE  \E i \in 1..Len(<<m>> \o b) : EndsAt(<<m>> \o b, i, k)
<1> DEFINE p == <<m>>
           g == p \o b
<1>1. p \in Seq(Stored) /\ Len(p) = 1 /\ p[1] = m
  OBVIOUS
<1> HIDE DEF p
<1>2. /\ g \in Seq(Stored) /\ Len(g) = 1 + Len(b) /\ Len(b) \in Nat
      /\ g[1] = m
      /\ \A x \in 1..Len(b) : g[1 + x] = b[x]
  <2>1. /\ g \in Seq(Stored) /\ Len(g) = Len(p) + Len(b) /\ Len(b) \in Nat
        /\ (\A x \in 1..Len(p) : g[x] = p[x])
        /\ \A x \in 1..Len(b) : g[Len(p) + x] = b[x]
    BY <1>1, Concat
  <2> HIDE DEF g
  <2>2. 1 \in 1..Len(p)
    BY <1>1
  <2>3. QED
    BY <1>1, <2>1, <2>2
<1> HIDE DEF g
<1>3. CASE \E j \in 1..Len(b) : EndsAt(b, j, k)
  <2>1. PICK j \in 1..Len(b) : EndsAt(b, j, k)
    BY <1>3
  <2>2. /\ ~Hist!IsTool(b[j]) /\ Len(b) - j <= k
        /\ b[j].kind = "calls" => j < Len(b)
        /\ \A x \in j + 1..Len(b) : Hist!IsTool(b[x])
    BY <2>1 DEF EndsAt
  <2> DEFINE i == 1 + j
  <2>3. i \in 1..Len(g) /\ g[i] = b[j] /\ Len(g) - i <= k /\ (j < Len(b) => i < Len(g))
    BY <1>2, <2>1, <2>2
  <2>4. ASSUME NEW x \in i + 1..Len(g) PROVE Hist!IsTool(g[x])
    <3>1. x - 1 \in j + 1..Len(b) /\ x - 1 \in 1..Len(b) /\ 1 + (x - 1) = x
      BY <1>2, <2>1
    <3>2. g[x] = b[x - 1]
      BY <1>2, <3>1
    <3>3. QED
      BY <2>2, <3>1, <3>2
  <2> HIDE DEF i
  <2>5. EndsAt(g, i, k)
    BY <2>2, <2>3, <2>4 DEF EndsAt
  <2>6. QED
    BY <2>3, <2>5 DEF g, p
<1>4. CASE Len(b) <= k /\ \A j \in 1..Len(b) : Hist!IsTool(b[j])
  <2>1. 1 \in 1..Len(g) /\ Len(g) - 1 <= k
    BY <1>2, <1>4
  <2>2. ASSUME NEW x \in 1 + 1..Len(g) PROVE Hist!IsTool(g[x])
    <3>1. x - 1 \in 1..Len(b) /\ 1 + (x - 1) = x
      BY <1>2
    <3>2. g[x] = b[x - 1]
      BY <1>2, <3>1
    <3>3. QED
      BY <1>4, <3>1, <3>2
  <2>3. EndsAt(g, 1, k)
    BY <1>2, <2>1, <2>2 DEF EndsAt, IsOpening
  <2>4. QED
    BY <2>1, <2>3 DEF g, p
<1>5. QED
  BY <1>3, <1>4

(* Under such an end no history ends with calls. *)
LEMMA EndsWithoutCalls ==
    ASSUME NEW h \in Seq(Stored), NEW k, Ends(h, k), h # <<>>
    PROVE  h[Len(h)].kind # "calls"
<1> SUFFICES ASSUME h[Len(h)].kind = "calls" PROVE FALSE
  OBVIOUS
<1> DEFINE b == Body(h)
           n == Len(b)
<1>1. ~Hist!IsSystem(h[Len(h)]) /\ ~Hist!IsTool(h[Len(h)])
  BY DEF Hist!IsSystem, Hist!Systems, Hist!IsTool, Hist!Tools
<1>2. n \in 1..n /\ b[n] = h[Len(h)] /\ n \in Nat
  BY <1>1, LastOfBody
<1>3. PICK i \in 1..n : EndsAt(b, i, k)
  BY DEF Ends
<1> HIDE DEF b
<1>4. CASE i = n
  BY <1>2, <1>3, <1>4 DEF EndsAt
<1>5. CASE i # n
  <2>1. n \in i + 1..n
    BY <1>2, <1>3, <1>5
  <2>2. Hist!IsTool(b[n])
    BY <1>3, <2>1 DEF EndsAt
  <2>3. QED
    BY <1>1, <1>2, <2>2
<1>6. QED
  BY <1>4, <1>5

LEMMA CompactedEnds ==
    ASSUME Hist!HistoryAssumption, NEW h \in Seq(Stored), AllMade(h), NEW k \in Nat, Ends(h, k)
    PROVE  Ends(Hist!Compacted(h), k)
<1> DEFINE n == Hist!Leading(h)
           head == SubSeq(h, 1, n)
           m == Hist!Plain("state", 1)
           new == Hist!Newest(h, KeepLast)
           rest == Hist!Repaired(new)
           p == head \o <<m>>
<1>1. KeepLast \in Nat \ {0} /\ Len(h) \in Nat
  BY DEF Hist!HistoryAssumption
<1>2. n \in 0..Len(h) /\ \A i \in 1..n : Hist!IsSystem(h[i])
  BY LeadingIsSystem
<1>3. Hist!Compacted(h) = p \o rest
  BY DEF Hist!Compacted
<1> HIDE DEF n
<1>4. head \in Seq(Stored) /\ \A i \in 1..Len(head) : Hist!IsSystem(head[i])
  <2>1. head \in Seq(Stored) /\ Len(head) = n /\ \A i \in 1..n : head[i] = h[i]
    BY <1>1, <1>2
  <2> HIDE DEF head
  <2>2. QED
    BY <1>2, <2>1
<1> HIDE DEF head
<1>5. m \in Stored /\ IsOpening(m)
  <2>1. "state" \in Hist!Kinds \ {"calls", "result", "unfinished"}
    BY DEF Hist!Kinds, Hist!Systems, Hist!Tools
  <2>2. m \in Stored /\ m.kind = "state"
    BY <2>1, PlainIs
  <2> HIDE DEF m
  <2>3. QED
    BY <2>2 DEF IsOpening, Hist!IsSystem, Hist!Systems, Hist!IsTool, Hist!Tools
<1> HIDE DEF m
<1>6. PICK s \in 1..Len(h) + 1 : new = SubSeq(h, s, Len(h))
  BY <1>1, NewestIs
<1> HIDE DEF new
<1>7. /\ new \in Seq(Stored) /\ Len(new) \in Nat
      /\ \A i \in 1..Len(new) : new[i] = h[i + s - 1] /\ i + s - 1 \in s..Len(h)
  BY <1>6, CutIs
<1>8. AllMade(new)
  <2> SUFFICES ASSUME NEW i \in 1..Len(new) PROVE Made(new[i])
    BY DEF AllMade
  <2>1. i + s - 1 \in 1..Len(h) /\ new[i] = h[i + s - 1]
    BY <1>1, <1>7
  <2>2. QED
    BY <2>1 DEF AllMade
<1>9. PICK t \in 1..Len(new) + 1 :
        LET kept == SubSeq(new, t, Len(new))
        IN  rest = kept \/ (kept # <<>> /\ kept[Len(kept)].kind = "calls")
  BY <1>7, <1>8, RepairedIs
<1> DEFINE u == t + s - 1
           kept == SubSeq(h, u, Len(h))
           old == SubSeq(h, 1, u - 1)
<1>10. SubSeq(new, t, Len(new)) = kept /\ u \in 1..Len(h) + 1
  BY <1>6, <1>9, CutOfCut
<1> HIDE DEF u
<1>11. /\ kept \in Seq(Stored) /\ Len(kept) = Len(h) - u + 1 /\ Len(kept) \in Nat
       /\ \A i \in 1..Len(kept) : kept[i] = h[i + u - 1]
  BY <1>10, CutIs
<1>12. old \in Seq(Stored) /\ h = old \o kept
  BY <1>10, Halves
<1> HIDE DEF old, rest
<1>13. rest = kept
  <2>1. ASSUME kept # <<>> PROVE kept[Len(kept)] = h[Len(h)] /\ h # <<>>
    <3>1. Len(kept) \in 1..Len(kept) /\ Len(kept) + u - 1 = Len(h) /\ Len(h) >= 1
      BY <1>1, <1>10, <1>11, <2>1, NotEmpty
    <3>2. QED
      BY <1>11, <3>1, NotEmpty
  <2> HIDE DEF kept
  <2>2. QED
    BY <1>9, <1>10, <2>1, EndsWithoutCalls
<1> HIDE DEF kept
<1> DEFINE b == Body(kept)
<1>14. Body(h) = Body(old) \o b /\ Body(old) \in Seq(Stored) /\ b \in Seq(Stored)
  BY <1>11, <1>12, BodyConcat, BodyIs
<1>15. Body(Hist!Compacted(h)) = <<m>> \o b
  <2>1. <<m>> \in Seq(Stored) /\ Len(<<m>>) = 1 /\ <<m>>[1] = m
    BY <1>5
  <2>2. Body(<<m>>) = <<m>>
    <3>1. \A i \in 1..Len(<<m>>) : ~Hist!IsSystem(<<m>>[i])
      BY <1>5, <2>1 DEF IsOpening
    <3>2. QED
      BY <2>1, <3>1, BodyOfBody
  <2>3. Body(head) = <<>>
    BY <1>4, BodyOfSystems
  <2>4. p \in Seq(Stored) /\ Body(p) = <<m>>
    <3>1. Body(p) = Body(head) \o Body(<<m>>) /\ p \in Seq(Stored)
      BY <1>4, <2>1, BodyConcat, Concat
    <3>2. <<>> \o <<m>> = <<m>>
      BY <2>1
    <3>3. QED
      BY <2>2, <2>3, <3>1, <3>2
  <2> HIDE DEF p
  <2>5. Body(p \o kept) = <<m>> \o b
    BY <1>11, <2>4, BodyConcat
  <2>6. QED
    BY <1>3, <1>13, <2>5
<1> HIDE DEF b
<1>16. PICK i \in 1..Len(Body(h)) : EndsAt(Body(old) \o b, i, k)
  BY <1>14 DEF Ends
<1>17. \/ \E j \in 1..Len(b) : EndsAt(b, j, k)
       \/ Len(b) <= k /\ \A j \in 1..Len(b) : Hist!IsTool(b[j])
  BY <1>14, <1>16, EndOfHalves
<1>18. \E j \in 1..Len(<<m>> \o b) : EndsAt(<<m>> \o b, j, k)
  BY <1>5, <1>14, <1>17, EndBehind
<1>19. QED
  BY <1>15, <1>18 DEF Ends

(* What an addition leaves at the end. *)

RoomForABatch ==
    MaxMessages >= MaxBatch + 4 /\ (MaxTokens > 0 => MaxTokens >= 2 * MaxBatch + 2)

LEMMA RoomIs ==
    ASSUME Hist!HistoryAssumption, RoomForABatch
    PROVE  /\ MaxBatch \in Nat /\ MaxMessages >= 3
           /\ \A k \in 0..MaxBatch : k \in Nat /\ RoomFor(k)
<1>1. MaxBatch \in Nat /\ MaxTokens \in Nat /\ MaxMessages \in Nat
  BY DEF Hist!HistoryAssumption
<1>2. MaxMessages >= 3
  BY <1>1 DEF RoomForABatch
<1>3. ASSUME NEW k \in 0..MaxBatch PROVE k \in Nat /\ RoomFor(k)
  <2>1. k \in Nat /\ k <= MaxBatch
    BY <1>1
  <2>2. k + 3 <= MaxMessages
    BY <1>1, <2>1 DEF RoomForABatch
  <2>3. MaxTokens > 0 => 2 * k + 1 <= MaxTokens
    BY <1>1, <2>1 DEF RoomForABatch
  <2>4. QED
    BY <2>1, <2>2, <2>3 DEF RoomFor
<1>4. QED
  BY <1>1, <1>2, <1>3

LEMMA AppendMade ==
    ASSUME NEW h \in Seq(Stored), AllMade(h), NEW m \in Stored, Made(m)
    PROVE  LET g == Append(h, m)
           IN  g \in Seq(Stored) /\ AllMade(g) /\ g # <<>> /\ g[Len(g)] = m
<1> DEFINE g == Append(h, m)
<1>1. /\ g \in Seq(Stored) /\ Len(g) = Len(h) + 1 /\ Len(h) \in Nat /\ g[Len(h) + 1] = m
      /\ (\A i \in 1..Len(h) : g[i] = h[i])
      /\ \A i \in 1..Len(g) : i \in 1..Len(h) \/ i = Len(h) + 1
  BY AppendStored
<1> HIDE DEF g
<1>2. g # <<>>
  <2>1. Len(g) >= 1
    BY <1>1
  <2>2. QED
    BY <1>1, <2>1, NotEmpty
<1>3. AllMade(g)
  BY <1>1 DEF AllMade
<1>4. QED
  BY <1>1, <1>2, <1>3 DEF g

LEMMA AddMade ==
    ASSUME Hist!HistoryAssumption, MaxMessages >= 3, NEW h \in Seq(Stored), AllMade(h),
           NEW m \in Stored, Made(m)
    PROVE  Hist!Add(h, m) \in Seq(Stored) /\ AllMade(Hist!Add(h, m))
<1> DEFINE g == Append(h, m)
           t == Hist!Trim(g)
<1>1. g \in Seq(Stored) /\ AllMade(g) /\ Hist!Add(h, m) = t
  BY AppendMade DEF Hist!Add
<1> HIDE DEF g
<1>2. CASE IsBounded(g)
  BY <1>1, <1>2 DEF IsBounded, Hist!Trim
<1>3. CASE ~IsBounded(g)
  <2>1. \E head, s : Trimmed(g, t, head, s)
    BY <1>1, <1>3, MadeIsFree, TrimIs
  <2> HIDE DEF t
  <2>2. t \in Seq(Stored) /\ \A i \in 1..Len(t) : \E j \in 1..Len(g) : t[i] = g[j]
    BY <1>1, <2>1, TrimmedIs
  <2>3. QED
    BY <1>1, <2>2 DEF AllMade
<1>4. QED
  BY <1>2, <1>3

LEMMA AddOpening ==
    ASSUME Hist!HistoryAssumption, RoomForABatch, NEW h \in Seq(Stored), AllMade(h),
           NEW m \in Stored, Made(m), IsOpening(m)
    PROVE  LET t == Hist!Add(h, m)
           IN  /\ t # <<>> /\ t[Len(t)] = m
               /\ \A k \in 0..MaxBatch : Ends(t, k)
<1> DEFINE g == Append(h, m)
<1>1. g \in Seq(Stored) /\ AllMade(g) /\ g # <<>> /\ g[Len(g)] = m
  BY AppendMade
<1>2. Hist!Add(h, m) = Hist!Trim(g)
  BY DEF Hist!Add
<1> HIDE DEF g
<1>3. Ends(g, 0)
  BY <1>1, EndsWith
<1>4. RoomFor(0) /\ 0 \in Nat /\ MaxMessages >= 3
  <2>1. 0 \in 0..MaxBatch
    BY RoomIs
  <2>2. QED
    BY <2>1, RoomIs
<1>5. Ends(Hist!Trim(g), 0)
  BY <1>1, <1>3, <1>4, TrimEnds
<1>6. PICK i \in 1..Len(Body(g)) : EndsAt(Body(g), i, 0)
  BY <1>3 DEF Ends
<1>7. Fits(g, i)
  BY <1>1, <1>4, <1>6, EndFits
<1>8. Hist!Trim(g) # <<>> /\ Hist!Trim(g)[Len(Hist!Trim(g))] = m
  BY <1>1, <1>4, <1>7, TrimLast DEF IsOpening
<1>9. \A k \in 0..MaxBatch : k \in Nat /\ 0 <= k
  BY RoomIs
<1>10. Hist!Trim(g) \in Seq(Stored)
  BY <1>2, <1>4, AddMade
<1>11. \A k \in 0..MaxBatch : Ends(Hist!Trim(g), k)
  BY <1>4, <1>5, <1>9, <1>10, EndsMore
<1>12. QED
  BY <1>2, <1>8, <1>11

LEMMA AddCalls ==
    ASSUME Hist!HistoryAssumption, RoomForABatch, NEW h \in Seq(Stored), AllMade(h),
           Ends(h, MaxBatch), NEW m \in Stored, Made(m), m.kind = "calls"
    PROVE  LET t == Hist!Add(h, m)
           IN  t # <<>> /\ t[Len(t)] = m
<1> DEFINE g == Append(h, m)
<1>1. g \in Seq(Stored) /\ AllMade(g) /\ g # <<>> /\ g[Len(g)] = m
  BY AppendMade
<1>2. Hist!Add(h, m) = Hist!Trim(g)
  BY DEF Hist!Add
<1>3. PICK i \in 1..Len(Body(h)) : EndsAt(Body(h), i, MaxBatch)
  BY DEF Ends
<1>4. MaxBatch \in Nat /\ MaxMessages >= 3 /\ RoomFor(MaxBatch)
  <2>1. MaxBatch \in 0..MaxBatch
    BY RoomIs
  <2>2. QED
    BY <2>1, RoomIs
<1>5. MaxBatch + 4 <= MaxMessages /\ (MaxTokens > 0 => 2 * MaxBatch + 2 <= MaxTokens)
  BY DEF RoomForABatch, Hist!HistoryAssumption
<1>6. Fits(g, i)
  BY <1>3, <1>4, <1>5, EndFitsWithCalls
<1> HIDE DEF g
<1>7. ~Hist!IsSystem(m)
  BY DEF Hist!IsSystem, Hist!Systems
<1>8. Hist!Trim(g) # <<>> /\ Hist!Trim(g)[Len(Hist!Trim(g))] = m
  BY <1>1, <1>4, <1>6, <1>7, TrimLast
<1>9. QED
  BY <1>2, <1>8

LEMMA AddResult ==
    ASSUME Hist!HistoryAssumption, RoomForABatch, NEW h \in Seq(Stored), AllMade(h),
           NEW c \in CallIds, NEW z \in 0..2, NEW k \in 1..MaxBatch,
           \/ h # <<>> /\ h[Len(h)].kind = "calls"
           \/ Ends(h, k - 1)
    PROVE  Ends(Hist!Add(h, Hist!ResultOf(c, z)), k)
<1> DEFINE m == Hist!ResultOf(c, z)
           g == Append(h, m)
<1>1. m \in Stored /\ Made(m) /\ Hist!IsTool(m) /\ ~Hist!IsSystem(m)
  BY MadeResult
<1>2. Hist!Add(h, m) = Hist!Trim(g)
  BY DEF Hist!Add
<1> HIDE DEF m
<1>3. g \in Seq(Stored) /\ AllMade(g)
  BY <1>1, AppendMade
<1>4. k \in Nat /\ k - 1 \in Nat /\ 1 <= k /\ RoomFor(k) /\ MaxMessages >= 3 /\ (k - 1) + 1 = k
  <2>1. k \in 0..MaxBatch /\ k - 1 \in Nat /\ 1 <= k /\ (k - 1) + 1 = k
    BY RoomIs
  <2>2. QED
    BY <2>1, RoomIs
<1>5. Ends(g, k)
  <2>1. CASE h # <<>> /\ h[Len(h)].kind = "calls"
    <3>1. Ends(g, 1) /\ 1 \in Nat
      BY <1>1, <2>1, EndsWithFirst
    <3> HIDE DEF g
    <3>2. QED
      BY <1>3, <1>4, <3>1, EndsMore
  <2>2. CASE Ends(h, k - 1)
    <3>1. Ends(g, (k - 1) + 1)
      BY <1>1, <1>4, <2>2, EndsWithResult
    <3>2. QED
      BY <1>4, <3>1
  <2>3. QED
    BY <2>1, <2>2
<1> HIDE DEF g
<1>6. Ends(Hist!Trim(g), k)
  BY <1>3, <1>4, <1>5, TrimEnds
<1>7. QED
  BY <1>2, <1>6 DEF m

LEMMA AddSystem ==
    ASSUME Hist!HistoryAssumption, RoomForABatch, NEW h \in Seq(Stored), AllMade(h),
           NEW m \in Stored, Made(m), Hist!IsSystem(m), NEW k \in 0..MaxBatch, Ends(h, k)
    PROVE  Ends(Hist!Add(h, m), k)
<1> DEFINE g == Append(h, m)
<1>1. g \in Seq(Stored) /\ AllMade(g)
  BY AppendMade
<1>2. Ends(g, k)
  BY EndsWithSystem
<1>3. Hist!Add(h, m) = Hist!Trim(g)
  BY DEF Hist!Add
<1> HIDE DEF g
<1>4. k \in Nat /\ RoomFor(k) /\ MaxMessages >= 3
  BY RoomIs
<1>5. QED
  BY <1>1, <1>2, <1>3, <1>4, TrimEnds

LEMMA Openings ==
    /\ IsOpening(Hist!Plain("prompt", 1)) /\ IsOpening(Hist!Plain("refresh", 1))
    /\ IsOpening(Hist!Plain("hint", 1)) /\ IsOpening(Hist!Plain("text", 1))
    /\ IsOpening(Hist!Plain("empty", 0)) /\ IsOpening(Hist!Plain("note", 0))
    /\ Hist!IsSystem(Hist!Plain("extra", 0))
<1>1. \A k : \A z \in {0, 1} : Hist!Plain(k, z).kind = k
  BY DEF Hist!Plain, Hist!Message
<1>2. QED
  BY <1>1 DEF IsOpening, Hist!IsSystem, Hist!Systems, Hist!IsTool, Hist!Tools

-----------------------------------------------------------------------------
(* An answer is the last message when act looks at it: while the model is   *)
(* asked, the dialogue ends with a message that a window may begin with and *)
(* the results of one answer at most, and that much is never trimmed.       *)

Talking == {"step", "think", "wait", "wait again"}

AnswerEnds ==
    /\ messages # <<>> /\ Hist!Newer = answer
    /\ answer.kind \in {"calls", "text", "empty"}
    /\ answer.kind = "calls" => Len(answer.ids) \in 1..MaxBatch

ResultsEnd ==
    /\ Len(todo) <= MaxBatch
    /\ \/ todo # <<>> /\ Hist!Newer.kind = "calls"
       \/ Ends(messages, MaxBatch - Len(todo))

EndsInv ==
    /\ dialogue \in Talking => Ends(messages, MaxBatch)
    /\ dialogue = "act" => AnswerEnds
    /\ dialogue = "tools" => ResultsEnd

LEMMA EndsAndTalks ==
    ASSUME dialogue' \notin {"act", "tools"}, Ends(messages', MaxBatch)
    PROVE  EndsInv'
BY DEF EndsInv

LEMMA EndsApart ==
    ASSUME dialogue' \in {"prompt", "end", "down"}
    PROVE  EndsInv'
BY DEF EndsInv, Talking

LEMMA OpeningTalks ==
    ASSUME Hist!HistoryAssumption, RoomForABatch, NEW h, Fine(h),
           NEW m \in Stored, Made(m), IsOpening(m),
           messages' = Hist!Add(h, m), dialogue' \notin {"act", "tools"}
    PROVE  EndsInv'
<1>1. MaxBatch \in 0..MaxBatch
  BY RoomIs
<1>2. Ends(messages', MaxBatch)
  BY <1>1, AddOpening, FineIsProper
<1>3. QED
  BY <1>2, EndsAndTalks

LEMMA EndsInit ==
    ASSUME Hist!HistoryAssumption, Hist!Init
    PROVE  EndsInv
BY DEF EndsInv, Talking, Hist!Init

LEMMA PromptEnds ==
    ASSUME Hist!HistoryAssumption, RoomForABatch, FineInv, Hist!Prompt
    PROVE  EndsInv'
<1> DEFINE known == IF injected THEN messages ELSE Hist!Add(messages, Hist!Plain("identity", 0))
           placed == Hist!Replace(known, Hist!Plain("directive", 0))
           told == Hist!Add(placed, Hist!Plain("prompt", 1))
<1>1. dialogue' = "step" /\ messages' \in {told, Hist!Add(told, Hist!Plain("extra", 0))}
  BY DEF Hist!Prompt
<1>2. MaxMessages >= 3 /\ MaxBatch \in 0..MaxBatch
  BY RoomIs
<1>3. Fine(known) /\ known # <<>>
  <2>1. CASE injected
    BY <2>1 DEF FineInv
  <2>2. CASE ~injected
    BY <1>2, <2>2, AddFine, FineIsProper, PlainKinds, MadeKinds DEF FineInv
  <2>3. QED
    BY <2>1, <2>2
<1> HIDE DEF known
<1>4. Fine(placed) /\ placed # <<>>
  BY <1>2, <1>3, ReplaceFine
<1> HIDE DEF placed
<1>5. Fine(told) /\ Ends(told, MaxBatch)
  <2>1. Fine(told)
    BY <1>2, <1>4, PlainFine
  <2>2. Ends(told, MaxBatch)
    BY <1>2, <1>4, AddOpening, FineIsProper, PlainKinds, MadeKinds, Openings
  <2>3. QED
    BY <2>1, <2>2
<1> HIDE DEF told
<1>6. Ends(Hist!Add(told, Hist!Plain("extra", 0)), MaxBatch)
  BY <1>2, <1>5, AddSystem, FineIsProper, PlainKinds, MadeKinds, Openings
<1>7. Ends(messages', MaxBatch)
  BY <1>1, <1>5, <1>6
<1>8. QED
  BY <1>1, <1>7, EndsAndTalks

LEMMA StepEnds ==
    ASSUME Hist!HistoryAssumption, RoomForABatch, FineInv, EndsInv, Hist!Step
    PROVE  EndsInv'
<1> DEFINE m == Hist!Plain("refresh", 1)
<1>1. /\ dialogue = "step" /\ dialogue' = "think"
      /\ messages' \in {messages, Hist!Replace(messages, m)}
  BY DEF Hist!Step
<1>2. Fine(messages) /\ Ends(messages, MaxBatch)
  BY <1>1 DEF FineInv, EndsInv, Talking
<1>3. Hist!Replace(messages, m) \in {messages, Hist!Add(messages, m)}
  BY <1>2, ReplaceIs, FineIsProper
<1>4. CASE messages' = messages
  BY <1>1, <1>2, <1>4, EndsAndTalks
<1>5. CASE messages' = Hist!Add(messages, m)
  BY <1>1, <1>2, <1>5, OpeningTalks, PlainKinds, MadeKinds, Openings
<1>6. QED
  BY <1>1, <1>3, <1>4, <1>5

LEMMA HintedEnds ==
    ASSUME Hist!HistoryAssumption, RoomForABatch, NEW h, Fine(h), Ends(h, MaxBatch)
    PROVE  Ends(Hist!Hinted(h), MaxBatch)
<1>1. CASE chat
  BY <1>1 DEF Hist!Hinted
<1>2. CASE ~chat
  <2> DEFINE kinds == Hist!Kinds \ {"hint"}
             g == Hist!Among(h, kinds)
             m == Hist!Plain("hint", 1)
  <2>1. h \in Seq(Stored) /\ AllMade(h)
    BY FineIsProper
  <2>2. g \in Seq(Stored) /\ \A i \in 1..Len(g) : \E j \in 1..Len(h) : g[i] = h[j]
    <3> HIDE DEF kinds
    <3>1. QED
      BY <2>1, AmongStored
  <2>3. m \in Stored
    BY PlainIs DEF Hist!Kinds, Hist!Systems, Hist!Tools
  <2>4. Made(m) /\ IsOpening(m)
    BY MadeKinds, Openings
  <2>5. Hist!Hinted(h) = Hist!Add(g, m)
    BY <1>2 DEF Hist!Hinted, Hist!Without
  <2> HIDE DEF g, m
  <2>6. AllMade(g)
    BY <2>1, <2>2 DEF AllMade
  <2>7. MaxBatch \in 0..MaxBatch
    BY RoomIs
  <2>8. QED
    BY <2>2, <2>3, <2>4, <2>5, <2>6, <2>7, AddOpening
<1>3. QED
  BY <1>1, <1>2

LEMMA ThinkEnds ==
    ASSUME Hist!HistoryAssumption, RoomForABatch, FineInv, EndsInv, Hist!Think
    PROVE  EndsInv'
<1> DEFINE h == Hist!Hinted(messages)
<1>1. dialogue = "think" /\ dialogue' = "wait" /\ messages' = Hist!AutoCompacted(h)
  BY DEF Hist!Think
<1>2. Fine(messages) /\ messages # <<>> /\ Ends(messages, MaxBatch)
  BY <1>1 DEF FineInv, EndsInv, Talking
<1>3. Fine(h) /\ Ends(h, MaxBatch) /\ MaxBatch \in Nat
  BY <1>2, HintedFine, HintedEnds, RoomIs
<1> HIDE DEF h
<1>4. Hist!AutoCompacted(h) = Hist!Compacted(h) \/ Hist!AutoCompacted(h) = h
  BY DEF Hist!AutoCompacted
<1>5. Ends(messages', MaxBatch)
  BY <1>1, <1>3, <1>4, CompactedEnds, FineIsProper
<1>6. QED
  BY <1>1, <1>5, EndsAndTalks

LEMMA OverflowEnds ==
    ASSUME Hist!HistoryAssumption, RoomForABatch, FineInv, EndsInv, Hist!Overflow
    PROVE  EndsInv'
<1>1. dialogue = "wait"
  BY DEF Hist!Overflow
<1>2. Fine(messages) /\ Ends(messages, MaxBatch) /\ MaxBatch \in Nat
  BY <1>1, RoomIs DEF FineInv, EndsInv, Talking
<1>3. CASE MaxTokens > 0 /\ Hist!CanCompact(messages)
  <2>1. messages' = Hist!Compacted(messages) /\ dialogue' = "wait again"
    BY <1>3 DEF Hist!Overflow
  <2>2. Ends(messages', MaxBatch)
    BY <1>2, <2>1, CompactedEnds, FineIsProper
  <2>3. QED
    BY <2>1, <2>2, EndsAndTalks
<1>4. CASE ~(MaxTokens > 0 /\ Hist!CanCompact(messages))
  <2>1. dialogue' = "end"
    BY <1>4 DEF Hist!Overflow
  <2>2. QED
    BY <2>1, EndsApart
<1>5. QED
  BY <1>3, <1>4

LEMMA AnswerIsLast ==
    ASSUME Hist!HistoryAssumption, RoomForABatch, HInv, NEW h, Fine(h), Ends(h, MaxBatch),
           NEW m \in {Hist!Plain("text", 1), Hist!Plain("empty", 0)} \union Hist!Blocks
    PROVE  LET t == Hist!Add(h, m)
           IN  /\ t # <<>> /\ t[Len(t)] = m
               /\ m.kind \in {"calls", "text", "empty"}
               /\ m.kind = "calls" => Len(m.ids) \in 1..MaxBatch
<1>1. CASE m \in {Hist!Plain("text", 1), Hist!Plain("empty", 0)}
  <2>1. m.kind \in {"text", "empty"}
    BY <1>1 DEF Hist!Plain, Hist!Message
  <2>2. m \in Stored /\ Made(m) /\ IsOpening(m)
    BY <1>1, PlainKinds, MadeKinds, Openings
  <2>3. QED
    BY <2>1, <2>2, AddOpening, FineIsProper
<1>2. CASE m \in Hist!Blocks
  <2>1. PICK n \in 1..MaxBatch, z \in {0, 1} : m = Hist!Block(n, z)
    BY <1>2 DEF Hist!Blocks
  <2>2. n \in Nat /\ answers \in Nat
    BY DEF Hist!HistoryAssumption, HInv, CallsAreKnown
  <2>3. m \in Stored /\ Made(m) /\ m.kind = "calls" /\ Len(m.ids) = n
    BY <2>1, <2>2, BlockIs, MadeBlock DEF IsCalls
  <2>4. QED
    BY <2>3, AddCalls, FineIsProper
<1>3. QED
  BY <1>1, <1>2

LEMMA AnswerEndsInv ==
    ASSUME Hist!HistoryAssumption, RoomForABatch, FineInv, HInv, EndsInv, Hist!Answer
    PROVE  EndsInv'
<1>1. /\ dialogue \in {"wait", "wait again"} /\ dialogue' = "act"
      /\ answer' \in {Hist!Plain("text", 1), Hist!Plain("empty", 0)} \union Hist!Blocks
      /\ messages' = Hist!Add(messages, answer')
  BY DEF Hist!Answer
<1>2. Fine(messages) /\ Ends(messages, MaxBatch)
  BY <1>1 DEF FineInv, EndsInv, Talking
<1>3. AnswerEnds'
  BY <1>1, <1>2, AnswerIsLast DEF AnswerEnds, Hist!Newer
<1>4. QED
  BY <1>1, <1>3 DEF EndsInv, Talking

LEMMA TextEnds ==
    ASSUME Hist!HistoryAssumption, RoomForABatch, FineInv, Hist!Text
    PROVE  EndsInv'
<1>1. \/ dialogue' = "end"
      \/ dialogue' = "step" /\ messages' = Hist!Add(messages, Hist!Plain("note", 0))
  BY DEF Hist!Text
<1>2. Fine(messages)
  BY DEF FineInv
<1>3. CASE dialogue' = "end"
  BY <1>3, EndsApart
<1>4. CASE dialogue' = "step" /\ messages' = Hist!Add(messages, Hist!Plain("note", 0))
  BY <1>2, <1>4, OpeningTalks, PlainKinds, MadeKinds, Openings
<1>5. QED
  BY <1>1, <1>3, <1>4

LEMMA BatchEnds ==
    ASSUME EndsInv, Hist!Batch
    PROVE  EndsInv'
<1>1. /\ dialogue = "act" /\ Hist!Newer.kind = "calls" /\ todo' = Hist!Newer.ids
      /\ dialogue' = "tools" /\ messages' = messages
  BY DEF Hist!Batch
<1>2. Hist!Newer = answer /\ Len(answer.ids) \in 1..MaxBatch
  BY <1>1 DEF EndsInv, AnswerEnds
<1>3. todo' # <<>> /\ Len(todo') <= MaxBatch
  <2>1. todo' = answer.ids
    BY <1>1, <1>2
  <2>2. Len(todo') \in 1..MaxBatch
    BY <1>2, <2>1
  <2>3. todo' # <<>>
    <3>1. ASSUME todo' = <<>> PROVE FALSE
      <4>1. Len(todo') = 0
        BY <3>1
      <4>2. QED
        BY <2>2, <4>1
    <3>2. QED
      BY <3>1
  <2>4. QED
    BY <2>2, <2>3
<1>4. ResultsEnd'
  BY <1>1, <1>3 DEF ResultsEnd, Hist!Newer
<1>5. QED
  BY <1>1, <1>4 DEF EndsInv, Talking

LEMMA NothingEnds ==
    ASSUME Hist!HistoryAssumption, RoomForABatch, FineInv, EndsInv, Hist!Nothing
    PROVE  EndsInv'
<1>1. /\ dialogue = "act" /\ messages # <<>> /\ Hist!Newer.kind \notin {"text", "calls"}
      /\ dialogue' = "step" /\ messages' = messages
  BY DEF Hist!Nothing
<1>2. Hist!Newer.kind = "empty"
  BY <1>1 DEF EndsInv, AnswerEnds
<1>3. IsOpening(messages[Len(messages)])
  BY <1>2 DEF Hist!Newer, IsOpening, Hist!IsSystem, Hist!Systems, Hist!IsTool, Hist!Tools
<1>4. messages \in Seq(Stored)
  BY FineIsProper DEF FineInv
<1>5. Ends(messages, 0)
  BY <1>1, <1>3, <1>4, EndsWith
<1>6. 0 \in Nat /\ MaxBatch \in Nat /\ 0 <= MaxBatch
  BY RoomIs
<1>7. Ends(messages, MaxBatch)
  BY <1>4, <1>5, <1>6, EndsMore
<1>8. QED
  BY <1>1, <1>7, EndsAndTalks

LEMMA BatchOverEnds ==
    ASSUME Hist!HistoryAssumption, RoomForABatch, FineInv, EndsInv, Hist!BatchOver
    PROVE  EndsInv'
<1>1. /\ dialogue = "tools" /\ todo = <<>>
      /\ \/ dialogue' = "end"
         \/ dialogue' = "step" /\ messages' \in {messages, Hist!Add(messages, Hist!Plain("note", 0))}
  BY DEF Hist!BatchOver
<1>2. Fine(messages) /\ Ends(messages, MaxBatch)
  <2>1. Ends(messages, MaxBatch - Len(todo))
    BY <1>1 DEF EndsInv, ResultsEnd
  <2>2. MaxBatch - Len(todo) = MaxBatch
    BY <1>1, RoomIs
  <2>3. QED
    BY <2>1, <2>2 DEF FineInv
<1>3. CASE dialogue' = "end"
  BY <1>3, EndsApart
<1>4. CASE dialogue' = "step" /\ messages' = Hist!Add(messages, Hist!Plain("note", 0))
  BY <1>2, <1>4, OpeningTalks, PlainKinds, MadeKinds, Openings
<1>5. CASE dialogue' = "step" /\ messages' = messages
  BY <1>2, <1>5, EndsAndTalks
<1>6. QED
  BY <1>1, <1>3, <1>4, <1>5

-----------------------------------------------------------------------------
(* The results of a batch. *)

LEMMA ResultsStep ==
    ASSUME dialogue' = "tools", Len(todo') <= MaxBatch, Ends(messages', MaxBatch - Len(todo'))
    PROVE  EndsInv'
BY DEF EndsInv, Talking, ResultsEnd

LEMMA ToolsAre ==
    ASSUME Hist!HistoryAssumption, RoomForABatch, HInv, EndsInv, NEW c \in Hist!Range(todo)
    PROVE  /\ c \in CallIds /\ dialogue = "tools" /\ MaxBatch \in Nat
           /\ Len(todo) \in 1..MaxBatch /\ Len(Hist!Less(todo, c)) = Len(todo) - 1
           /\ MaxBatch - Len(todo) \in 0..MaxBatch
           /\ MaxBatch - (Len(todo) - 1) \in 1..MaxBatch
           /\ MaxBatch - (Len(todo) - 1) \in 0..MaxBatch
           /\ MaxBatch - (Len(todo) - 1) - 1 = MaxBatch - Len(todo)
<1>1. c \in CallIds /\ dialogue = "tools" /\ todo \in Seq(CallIds)
  BY LeftIs
<1>2. Within(todo, c)
  BY <1>1, InSet
<1>3. Len(Hist!Less(todo, c)) = Len(todo) - 1 /\ Len(todo) > 0 /\ Len(todo) \in Nat
  BY <1>1, <1>2, LessIs
<1>4. Len(todo) <= MaxBatch /\ MaxBatch \in Nat
  BY <1>1, RoomIs DEF EndsInv, ResultsEnd
<1>5. QED
  BY <1>1, <1>3, <1>4

(* A result that is the last message. *)
LEMMA ResultEnds ==
    ASSUME Hist!HistoryAssumption, RoomForABatch, FineInv, HInv, EndsInv,
           NEW c \in Hist!Range(todo), NEW z \in 0..2,
           messages' = Hist!Add(messages, Hist!ResultOf(c, z)),
           todo' = Hist!Less(todo, c), dialogue' = dialogue
    PROVE  EndsInv'
<1> DEFINE k == MaxBatch - (Len(todo) - 1)
<1>1. /\ c \in CallIds /\ dialogue = "tools" /\ Len(todo') = Len(todo) - 1 /\ k \in 1..MaxBatch
      /\ k - 1 = MaxBatch - Len(todo) /\ Len(todo') <= MaxBatch
  BY ToolsAre
<1>2. \/ messages # <<>> /\ messages[Len(messages)].kind = "calls"
      \/ Ends(messages, k - 1)
  <2>1. messages # <<>>
    BY <1>1 DEF FineInv
  <2>2. ResultsEnd
    BY <1>1 DEF EndsInv
  <2>3. QED
    BY <1>1, <2>1, <2>2 DEF ResultsEnd, Hist!Newer
<1> HIDE DEF k
<1>3. messages \in Seq(Stored) /\ AllMade(messages)
  BY FineIsProper DEF FineInv
<1>4. Ends(messages', k)
  BY <1>1, <1>2, <1>3, AddResult
<1>5. k = MaxBatch - Len(todo')
  BY <1>1 DEF k
<1>6. QED
  BY <1>1, <1>4, <1>5, ResultsStep

(* A note before the result. *)
LEMMA NoteAndResultEnd ==
    ASSUME Hist!HistoryAssumption, RoomForABatch, FineInv, HInv, EndsInv,
           NEW c \in Hist!Range(todo),
           messages' = Hist!Add(Hist!Add(messages, Hist!Plain("note", 0)), Hist!ResultOf(c, 0)),
           todo' = Hist!Less(todo, c), dialogue' = dialogue
    PROVE  EndsInv'
<1> DEFINE h == Hist!Add(messages, Hist!Plain("note", 0))
           k == MaxBatch - (Len(todo) - 1)
<1>1. /\ c \in CallIds /\ dialogue = "tools" /\ Len(todo') = Len(todo) - 1 /\ k \in 1..MaxBatch
      /\ k - 1 \in 0..MaxBatch /\ Len(todo') <= MaxBatch
  BY ToolsAre
<1>2. messages \in Seq(Stored) /\ AllMade(messages)
  BY FineIsProper DEF FineInv
<1> HIDE DEF k
<1>3. h \in Seq(Stored) /\ AllMade(h) /\ Ends(h, k - 1)
  BY <1>1, <1>2, AddMade, AddOpening, PlainKinds, MadeKinds, Openings, RoomIs
<1>4. messages' = Hist!Add(h, Hist!ResultOf(c, 0))
  OBVIOUS
<1> HIDE DEF h
<1>5. Ends(messages', k)
  <2>1. 0 \in 0..2
    OBVIOUS
  <2>2. QED
    BY <1>1, <1>3, <1>4, <2>1, AddResult
<1>6. k = MaxBatch - Len(todo')
  BY <1>1 DEF k
<1>7. QED
  BY <1>1, <1>5, <1>6, ResultsStep

(* A note behind it. *)
LEMMA ResultAndNoteEnd ==
    ASSUME Hist!HistoryAssumption, RoomForABatch, FineInv, HInv, EndsInv,
           NEW c \in Hist!Range(todo),
           messages' = Hist!Add(Hist!Add(messages, Hist!ResultOf(c, 0)), Hist!Plain("note", 0)),
           todo' \in {todo, Hist!Less(todo, c)}, dialogue' = dialogue
    PROVE  EndsInv'
<1> DEFINE h == Hist!Add(messages, Hist!ResultOf(c, 0))
<1>1. /\ c \in CallIds /\ dialogue = "tools" /\ Len(todo') <= MaxBatch
      /\ MaxBatch - Len(todo') \in 0..MaxBatch
  BY ToolsAre
<1>2. messages \in Seq(Stored) /\ AllMade(messages)
  BY FineIsProper DEF FineInv
<1>3. h \in Seq(Stored) /\ AllMade(h)
  <2>1. 0 \in 0..2
    OBVIOUS
  <2>2. QED
    BY <1>1, <1>2, <2>1, AddMade, MadeResult, RoomIs
<1>4. messages' = Hist!Add(h, Hist!Plain("note", 0))
  OBVIOUS
<1> HIDE DEF h
<1>5. Ends(messages', MaxBatch - Len(todo'))
  BY <1>1, <1>3, <1>4, AddOpening, PlainKinds, MadeKinds, Openings
<1>6. QED
  BY <1>1, <1>5, ResultsStep

LEMMA ToolEnds ==
    ASSUME Hist!HistoryAssumption, RoomForABatch, FineInv, HInv, EndsInv,
           NEW c \in Hist!Range(todo),
           \/ Hist!Deny(c) \/ Hist!Run(c) \/ Hist!Success(c) \/ Hist!Failure(c)
           \/ Hist!Blocked(c) \/ Hist!Raise(c)
    PROVE  EndsInv'
<1>1. CASE Hist!Deny(c)
  <2>1. /\ messages' = Hist!Add(Hist!Add(messages, Hist!Plain("note", 0)), Hist!ResultOf(c, 0))
        /\ todo' = Hist!Less(todo, c) /\ dialogue' = dialogue
    BY <1>1 DEF Hist!Deny, Hist!Over
  <2>2. QED
    BY <2>1, NoteAndResultEnd
<1>2. CASE Hist!Run(c)
  <2>1. UNCHANGED <<messages, todo, dialogue>> /\ dialogue = "tools"
    BY <1>2, ToolsAre DEF Hist!Run
  <2>2. ResultsEnd'
    BY <2>1 DEF EndsInv, ResultsEnd, Hist!Newer
  <2>3. QED
    BY <2>1, <2>2 DEF EndsInv, Talking
<1>3. CASE Hist!Success(c)
  <2>1. /\ messages' = Hist!Add(messages, Hist!ResultOf(c, 2))
        /\ todo' = Hist!Less(todo, c) /\ dialogue' = dialogue
    BY <1>3 DEF Hist!Success, Hist!Over
  <2>2. 2 \in 0..2
    OBVIOUS
  <2>3. QED
    BY <2>1, <2>2, ResultEnds
<1>4. CASE Hist!Failure(c)
  <2>1. /\ messages' = Hist!Add(Hist!Add(messages, Hist!ResultOf(c, 0)), Hist!Plain("note", 0))
        /\ todo' = Hist!Less(todo, c) /\ dialogue' = dialogue
    BY <1>4 DEF Hist!Failure, Hist!Over
  <2>2. QED
    BY <2>1, ResultAndNoteEnd
<1>5. CASE Hist!Blocked(c)
  <2>1. /\ \/ messages' = Hist!Add(messages, Hist!ResultOf(c, 0))
           \/ messages' = Hist!Add(Hist!Add(messages, Hist!ResultOf(c, 0)), Hist!Plain("note", 0))
        /\ todo' = Hist!Less(todo, c) /\ dialogue' = dialogue
    BY <1>5 DEF Hist!Blocked, Hist!Over
  <2>2. 0 \in 0..2
    OBVIOUS
  <2>3. QED
    BY <2>1, <2>2, ResultEnds, ResultAndNoteEnd
<1>6. CASE Hist!Raise(c)
  <2>1. /\ messages' = Hist!Add(Hist!Add(messages, Hist!ResultOf(c, 0)), Hist!Plain("note", 0))
        /\ todo' = todo /\ dialogue' = dialogue
    BY <1>6 DEF Hist!Raise
  <2>2. QED
    BY <2>1, ResultAndNoteEnd
<1>7. QED
  BY <1>1, <1>2, <1>3, <1>4, <1>5, <1>6

LEMMA EndsNext ==
    ASSUME Hist!HistoryAssumption, RoomForABatch, FineInv, HInv, EndsInv, [Hist!Next]_(Hist!vars)
    PROVE  EndsInv'
<1>1. CASE \E c \in Hist!Range(todo) :
             Hist!Deny(c) \/ Hist!Run(c) \/ Hist!Success(c) \/ Hist!Failure(c) \/ Hist!Blocked(c) \/ Hist!Raise(c)
  BY <1>1, ToolEnds
<1>2. CASE UNCHANGED Hist!vars
  <2>1. UNCHANGED <<messages, todo, dialogue, answer>>
    BY <1>2 DEF Hist!vars, Hist!calling
  <2>2. ResultsEnd' = ResultsEnd /\ AnswerEnds' = AnswerEnds
    BY <2>1 DEF ResultsEnd, AnswerEnds, Hist!Newer
  <2>3. QED
    BY <2>1, <2>2 DEF EndsInv, Talking
<1>3. CASE Hist!End
  <2>1. dialogue' = "prompt"
    BY <1>3 DEF Hist!End
  <2>2. QED
    BY <2>1, EndsApart
<1>4. CASE Hist!Cancel
  <2>1. dialogue' = "end"
    BY <1>4 DEF Hist!Cancel
  <2>2. QED
    BY <2>1, EndsApart
<1>5. CASE Hist!Compress
  <2>1. dialogue' = "prompt"
    BY <1>5 DEF Hist!Compress
  <2>2. QED
    BY <2>1, EndsApart
<1>6. CASE Hist!Kill
  <2>1. dialogue' = "down"
    BY <1>6 DEF Hist!Kill
  <2>2. QED
    BY <2>1, EndsApart
<1>7. CASE Hist!Restart
  <2>1. dialogue' = "prompt"
    BY <1>7 DEF Hist!Restart
  <2>2. QED
    BY <2>1, EndsApart
<1>8. QED
  BY <1>1, <1>2, <1>3, <1>4, <1>5, <1>6, <1>7, PromptEnds, StepEnds, ThinkEnds, OverflowEnds,
     AnswerEndsInv, TextEnds, BatchEnds, NothingEnds, BatchOverEnds DEF Hist!Next

LEMMA AnswerIsLooked ==
    ASSUME EndsInv
    PROVE  Hist!AnswerIsActedOn
BY DEF EndsInv, AnswerEnds, Hist!AnswerIsActedOn

-----------------------------------------------------------------------------
(* The parts together.                                                     *)

(* The agent, its messages, the conversation and the registry step side by *)
(* side, so an invariant of one of them is kept by the steps of the others. *)
LEMMA HistoryInvariance == WorkSpec => []HInv
<1>1. WorkInit => HInv
  BY HInit, WorkAssumption DEF WorkInit
<1>2. HInv /\ [WorkNext]_workVars => HInv'
  <2> SUFFICES ASSUME HInv, [WorkNext]_workVars
               PROVE  HInv'
    OBVIOUS
  <2>1. [Hist!Next]_(Hist!vars)
    BY DEF WorkNext, workVars, history, Hist!vars, Hist!calling, Hist!ghosts, Hist!bounds
  <2>2. QED
    BY <2>1, HNext, WorkAssumption
<1>3. QED
  BY <1>1, <1>2, PTL DEF WorkSpec

LEMMA LimitsInvariance == (MaxMessages >= 3) => (WorkSpec => [](HInv /\ FineInv))
<1> SUFFICES ASSUME MaxMessages >= 3 PROVE WorkSpec => [](HInv /\ FineInv)
  OBVIOUS
<1>1. WorkInit => FineInv
  BY FineInit, WorkAssumption DEF WorkInit
<1>2. HInv /\ FineInv /\ [WorkNext]_workVars => FineInv'
  <2> SUFFICES ASSUME HInv, FineInv, [WorkNext]_workVars
               PROVE  FineInv'
    OBVIOUS
  <2>1. [Hist!Next]_(Hist!vars)
    BY DEF WorkNext, workVars, history, Hist!vars, Hist!calling, Hist!ghosts, Hist!bounds
  <2>2. QED
    BY <2>1, FineNext, WorkAssumption
<1>3. QED
  BY <1>1, <1>2, HistoryInvariance, PTL DEF WorkSpec

LEMMA ConversationInvariance == WorkSpec => []ConvInv
<1>1. WorkInit => ConvInv
  BY InitConv, WorkAssumption DEF WorkInit, ConvAssumed
<1>2. ConvInv /\ [WorkNext]_workVars => ConvInv'
  <2> SUFFICES ASSUME ConvInv, [WorkNext]_workVars
               PROVE  ConvInv'
    OBVIOUS
  <2>1. [Conv!Next]_(Conv!vars)
    BY DEF WorkNext, workVars, conversation, Conv!vars, Conv!logVars
  <2>2. QED
    BY <2>1, NextConv, WorkAssumption DEF ConvAssumed
<1>3. QED
  BY <1>1, <1>2, PTL DEF WorkSpec

LEMMA RegistryInvariance == WorkSpec => []RegInv
<1>1. WorkInit => RegInv
  BY InitReg, WorkAssumption DEF WorkInit
<1>2. RegInv /\ [WorkNext]_workVars => RegInv'
  <2> SUFFICES ASSUME RegInv, [WorkNext]_workVars
               PROVE  RegInv'
    OBVIOUS
  <2>1. [Reg!Next]_(Reg!vars)
    BY DEF WorkNext, workVars, registry, Reg!vars
  <2>2. QED
    BY <2>1, NextReg, WorkAssumption
<1>3. QED
  BY <1>1, <1>2, PTL DEF WorkSpec

(* The log is behind by no more than its deaths and the append in progress, *)
(* a stop is heeded within the step it meets, and the log accounts for the  *)
(* status, whatever threads run, stop, resume, close and repair one         *)
(* conversation (EventLog.append and reindex; run, interrupt, resume, close *)
(* and send_message of LocalConversation).                                  *)
THEOREM TheLogAccounts == WorkSpec => []ConversationIsKept
<1>1. ConvInv => ConversationIsKept
  BY ConvInvImplies DEF ConversationIsKept
<1>2. QED
  BY <1>1, ConversationInvariance, PTL

(* Whatever dies, is cancelled at any of its waits or stopped, and however   *)
(* often the server boots: a row that says running has a run on it, or one  *)
(* that died there or was cut short, which is cancelled before it knew its   *)
(* session or again in its finally before the close; a row that is closed    *)
(* says how one of its runs has ended, or what a boot made of it; and a      *)
(* cancel finds the only task of its session (_run_agent_task, cancel and    *)
(* the repair at startup in server/main.py, run of agent/base.py).           *)
THEOREM TheRegistryAccounts == WorkSpec => []RegistryIsExplained
<1>1. RegInv => RegistryIsExplained
  BY RegInvImplies
<1>2. QED
  BY <1>1, RegistryInvariance, PTL

(* Whatever the limits of the memory, the size of an answer and the number  *)
(* of faults: calls are followed at once by a result for each of them, and  *)
(* no result is without its call, in every request; and where no note of the *)
(* agent, no cancellation and no kill came between, a result that a tool    *)
(* has returned is never told to be missing (sanitize_tool_history and      *)
(* Memory in app/schema.py, compact_messages, and the additions of          *)
(* toolcall.py, base.py and cli.py).                                       *)
THEOREM ResultsReachTheModel == WorkSpec => []RequestIsValid
<1>1. HInv => RequestIsValid
  BY HShows DEF RequestIsValid
<1>2. QED
  BY <1>1, HistoryInvariance, PTL

(* Whatever is added, replaced and compacted, and however large the answers *)
(* and the results are: the memory has no more messages and no more tokens   *)
(* than it is allowed, except what a compaction has just left, and a run has  *)
(* its identity, or the summary of the task it resumed, at the head          *)
(* (_trim and _token_trim_if_needed of Memory in app/schema.py, and         *)
(* compact_messages).                                                      *)
THEOREM TheMemoryIsBounded ==
    ASSUME MaxMessages >= 3
    PROVE  WorkSpec => []Hist!MemoryIsBounded
<1>1. FineInv => Hist!MemoryIsBounded
  BY FineIsBounded
<1>2. WorkSpec => [](HInv /\ FineInv)
  BY LimitsInvariance
<1>3. QED
  BY <1>1, <1>2, PTL

(* Where the memory has room for the results of one answer, an answer that   *)
(* was just added is the message that act looks at, and its calls are run:   *)
(* the trimming of that addition never drops it (Memory.add in app/schema.py, *)
(* think and act of toolcall.py).  Without the room the code does lose       *)
(* calls: see memory_budget in the README.                                  *)
THEOREM TheMemoryIsKept ==
    ASSUME RoomForABatch
    PROVE  WorkSpec => []MemoryIsKept
<1>1. WorkSpec => [](HInv /\ FineInv)
  BY LimitsInvariance, RoomIs, WorkAssumption
<1>2. WorkInit => EndsInv
  BY EndsInit, WorkAssumption DEF WorkInit
<1>3. HInv /\ FineInv /\ EndsInv /\ [WorkNext]_workVars => EndsInv'
  <2> SUFFICES ASSUME HInv, FineInv, EndsInv, [WorkNext]_workVars
               PROVE  EndsInv'
    OBVIOUS
  <2>1. [Hist!Next]_(Hist!vars)
    BY DEF WorkNext, workVars, history, Hist!vars, Hist!calling, Hist!ghosts, Hist!bounds
  <2>2. QED
    BY <2>1, EndsNext, WorkAssumption
<1>4. FineInv /\ EndsInv => MemoryIsKept
  BY FineIsBounded, AnswerIsLooked DEF MemoryIsKept
<1>5. QED
  BY <1>1, <1>2, <1>3, <1>4, PTL DEF WorkSpec
=============================================================================
