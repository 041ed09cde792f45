-------------------------------- MODULE History --------------------------------
(***************************************************************************)
(* The message history of an agent over its runs: what run of             *)
(* app/agent/base.py, think, act and _execute_with_retry of toolcall.py,   *)
(* /compress and /resume of cli.py add to it, and what the model is shown.  *)
(*                                                                         *)
(* AgentRun counts the steps of the same runs; here a step is the messages  *)
(* it leaves.  The calls of an answer that only read run together.         *)
(*                                                                         *)
(* First what is done to the messages as a whole: Memory and               *)
(* sanitize_tool_history of app/schema.py, the two tags of agent/base.py   *)
(* and short_term.py, and compact_messages of compaction.  A message is    *)
(* its kind, the tool calls it makes or answers, and a size: content // 4, *)
(* in units of the largest result of a tool.                               *)
(***************************************************************************)
EXTENDS Naturals, Sequences, FiniteSetsExt

CONSTANTS
    MaxMessages,     \* max_messages
    MaxTokens,       \* max_context_tokens
    KeepLast,        \* keep_last of compact_messages
    MaxToolRetries,  \* MAX_TOOL_RETRIES
    MaxBatch,        \* bound: the calls of one answer
    MaxAnswers,      \* bound: the answers of the model
    MaxPrompts,      \* bound: the prompts
    MaxFaults,       \* bound: denied and failed calls, and cancelled runs
    MaxKills         \* bound: how often the process is killed

Message(kind, ids, size) == [kind |-> kind, ids |-> ids, size |-> size]

Plain(kind, size) == Message(kind, <<>>, size)

ResultOf(c, size) == Message("result", <<c>>, size)

Systems == {"identity", "directive", "extra", "resumed"}

Tools == {"result", "unfinished"}

Kinds ==
    Systems \union Tools
      \union {"prompt", "refresh", "hint", "calls", "text", "empty", "note", "state"}

IsSystem(m) == m.kind \in Systems

IsTool(m) == m.kind \in Tools

(* The messages of some kinds. *)
Among(h, kinds) ==
    LET upTo[i \in 0..Len(h)] ==
          IF i = 0 THEN <<>>
          ELSE IF h[i].kind \in kinds THEN Append(upTo[i - 1], h[i]) ELSE upTo[i - 1]
    IN  upTo[Len(h)]

Without(h, kinds) == Among(h, Kinds \ kinds)

-----------------------------------------------------------------------------
(* sanitize_tool_history: a pass over the messages with the calls that are  *)
(* not answered yet.                                                        *)

Interrupted(c) == Message("unfinished", <<c>>, 0)

Flush(acc) ==
    [out |-> acc.out \o [i \in DOMAIN acc.pending |-> Interrupted(acc.pending[i])],
     pending |-> <<>>]

Copy(acc, m) == [acc EXCEPT !.out = Append(@, m)]

(* A sequence less an element that is in it. *)
Less(s, e) ==
    LET k == CHOOSE i \in DOMAIN s : s[i] = e
    IN  [i \in 1..Len(s) - 1 |-> IF i < k THEN s[i] ELSE s[i + 1]]

Settle(acc, m) == [acc EXCEPT !.out = Append(@, m), !.pending = Less(@, m.ids[1])]

(* Faulty: a message between the calls and their results is let through. *)
PassThrough(acc, m) ==
    IF IsTool(m) THEN IF m.ids[1] \in Range(acc.pending) THEN Settle(acc, m) ELSE acc
    ELSE IF m.kind = "calls" THEN [Copy(Flush(acc), m) EXCEPT !.pending = m.ids]
    ELSE Copy(acc, m)

Pass(acc, m) ==
    IF IsTool(m) THEN IF m.ids[1] \in Range(acc.pending) THEN Settle(acc, m) ELSE acc
    ELSE IF m.kind = "calls" THEN [Copy(Flush(acc), m) EXCEPT !.pending = m.ids]
    ELSE Copy(Flush(acc), m)

Sanitize(h) ==
    LET passed[i \in 0..Len(h)] ==
          IF i = 0 THEN [out |-> <<>>, pending |-> <<>>] ELSE Pass(passed[i - 1], h[i])
    IN  Flush(passed[Len(h)]).out

-----------------------------------------------------------------------------
(* Memory: what is dropped when there is too much.                          *)

Tokens(h) ==
    LET upTo[i \in 0..Len(h)] == IF i = 0 THEN 0 ELSE upTo[i - 1] + h[i].size
    IN  upTo[Len(h)]

Exceeds(h) == MaxTokens > 0 /\ Tokens(h) > MaxTokens

(* The first and the last system message are kept. *)
Pinned(h) ==
    LET s == Among(h, Systems)
    IN  IF Len(s) <= 1 THEN s ELSE <<s[1], s[Len(s)]>>

(* Where a window may begin: not with a result, nor with calls that are     *)
(* followed by none.                                                        *)
Opens(h, i) ==
    /\ ~IsTool(h[i])
    /\ h[i].kind = "calls" => i < Len(h) /\ IsTool(h[i + 1])

From(h, starts) == IF starts = {} THEN <<>> ELSE SubSeq(h, Min(starts), Len(h))

Window(h) == From(h, {i \in DOMAIN h : Opens(h, i)})

(* The oldest go until the budget is kept.                                  *)
Fit(head, body) ==
    head \o From(body, {i \in DOMAIN body : /\ Opens(body, i)
                                             /\ ~Exceeds(head \o SubSeq(body, i, Len(body)))})

Newest(h, n) == SubSeq(h, Max({1, Len(h) - n + 1}), Len(h))

Trim(h) ==
    LET head == Pinned(h)
        body == Without(h, Systems)
    IN  IF Len(h) <= MaxMessages /\ ~Exceeds(h) THEN h
        ELSE Fit(head, Window(Newest(body, Max({1, MaxMessages - Len(head)}))))

(* Faulty: without a look at the limits. *)
AddOnly(h, m) == Append(h, m)

Add(h, m) == Trim(Append(h, m))

(* _replace_tagged_system and add_context_refresh: one message of a kind,   *)
(* replaced where it stands.                                                *)
Replace(h, m) ==
    IF \E i \in DOMAIN h : h[i].kind = m.kind
    THEN [h EXCEPT ![Min({i \in DOMAIN h : h[i].kind = m.kind})] = m]
    ELSE Add(h, m)

-----------------------------------------------------------------------------
(* compact_messages: one message stands for the middle.                     *)

Leading(h) == Min({i \in 1..Len(h) + 1 : i > Len(h) \/ ~IsSystem(h[i])}) - 1

(* _repair_boundaries. *)
Repaired(h) ==
    LET kept == From(h, {i \in DOMAIN h : ~IsTool(h[i])})
        n == Len(kept)
    IN  IF /\ n > 0 /\ kept[n].kind = "calls"
           /\ n > 1 => ~IsTool(kept[n - 1])
        THEN [kept EXCEPT ![n] = Plain("text", @.size)]
        ELSE kept

CanCompact(h) == Len(h) > KeepLast + 1

Compacted(h) ==
    SubSeq(h, 1, Leading(h)) \o <<Plain("state", 1)>> \o Repaired(Newest(h, KeepLast))

-----------------------------------------------------------------------------
(* The history and the run.                                                 *)

Nil == Plain("none", 0)

HistoryAssumption ==
    /\ {MaxToolRetries, MaxBatch, MaxAnswers, MaxPrompts, MaxFaults, MaxKills, MaxTokens}
          \subseteq Nat
    /\ MaxMessages \in Nat \ {0} /\ KeepLast \in Nat \ {0}

VARIABLES
    memory,    \* agent.memory.messages
    saved,     \* the memory of the last checkpoint
    injected,  \* _system_injected
    chat,      \* _chat_mode
    pc,        \* where the run is
    request,   \* what the model is being asked
    answer,    \* what it answered
    left,      \* the calls of the answer that are not over
    together,  \* they run at the same time
    ran,       \* those of them whose tool has returned or raised
    tries,     \* how often each has raised
    executed,  \* the calls whose tool has run
    spoilt,    \* the calls that lost their result to a note, a cancellation or a kill
    answers, prompts, faults, kills

calling == <<left, together, ran, tries>>

ghosts == <<executed, spoilt>>

bounds == <<answers, prompts, faults, kills>>

vars == <<memory, saved, injected, chat, pc, request, answer, calling, ghosts, bounds>>

Init ==
    /\ memory = <<>> /\ saved = <<>>
    /\ injected = FALSE /\ chat = FALSE
    /\ pc = "prompt"
    /\ request = <<>> /\ answer = Nil
    /\ left = <<>> /\ together = FALSE /\ ran = {} /\ tries = <<>>
    /\ executed = {} /\ spoilt = {}
    /\ answers = 0 /\ prompts = 0 /\ faults = 0 /\ kills = 0

Fault == faults < MaxFaults /\ faults' = faults + 1

-----------------------------------------------------------------------------
(* The run: its beginning, and its steps.                                  *)

(* The identity once per agent, the mode and the directory in place of the  *)
(* last ones, the prompt, and then what is only for this run: the directive *)
(* of a chat, or what long-term memory recalls.                             *)
Prompt ==
    /\ pc = "prompt"
    /\ prompts < MaxPrompts /\ prompts' = prompts + 1
    /\ LET known == IF injected THEN memory ELSE Add(memory, Plain("identity", 0))
           told == Add(Replace(known, Plain("directive", 0)), Plain("prompt", 1))
       IN  \/ memory' = told /\ chat' = FALSE
           \/ memory' = Add(told, Plain("extra", 0)) /\ chat' \in BOOLEAN
    /\ injected' = TRUE
    /\ pc' = "step"
    /\ UNCHANGED <<saved, request, answer, calling, ghosts, answers, faults, kills>>

(* Every fifth step tells what has been done so far. *)
Step ==
    /\ pc = "step"
    /\ saved' = memory
    /\ memory' \in {memory, Replace(memory, Plain("refresh", 1))}
    /\ pc' = "think"
    /\ UNCHANGED <<injected, chat, request, answer, calling, ghosts, bounds>>

(* _strip_prior_hint, and the hint of this step. *)
Hinted(h) ==
    IF chat THEN h
    ELSE Add(Without(h, {"hint"}), Plain("hint", 1))

(* _auto_compact_if_needed. *)
AutoCompacted(h) ==
    IF MaxTokens > 0 /\ 10 * Tokens(h) > 9 * MaxTokens /\ CanCompact(h) THEN Compacted(h) ELSE h

Think ==
    /\ pc = "think"
    /\ memory' = AutoCompacted(Hinted(memory))
    /\ request' = Sanitize(memory')
    /\ pc' = "wait"
    /\ UNCHANGED <<saved, injected, chat, answer, calling, ghosts, bounds>>

(* The context is too long for the model: once more, if it can be shortened. *)
Overflow ==
    /\ pc = "wait"
    /\ Fault
    /\ IF MaxTokens > 0 /\ CanCompact(memory)
       THEN /\ memory' = Compacted(memory)
            /\ request' = Sanitize(memory')
            /\ pc' = "wait again"
       ELSE /\ pc' = "end" /\ request' = <<>>
            /\ UNCHANGED memory
    /\ UNCHANGED <<saved, injected, chat, answer, calling, ghosts, answers, prompts, kills>>

(* Calls come with or without a text. *)
Block(n, z) == Message("calls", [i \in 1..n |-> <<answers + 1, i>>], z)

Blocks == {Block(n, z) : n \in 1..MaxBatch, z \in {0, 1}}

Answer ==
    /\ pc \in {"wait", "wait again"}
    /\ answers < MaxAnswers /\ answers' = answers + 1
    /\ answer' \in {Plain("text", 1), Plain("empty", 0)} \union Blocks
    /\ memory' = Add(memory, answer')
    /\ request' = <<>>
    /\ pc' = "act"
    /\ UNCHANGED <<saved, injected, chat, calling, ghosts, prompts, faults, kills>>

-----------------------------------------------------------------------------
(* act, on whatever message is the last one.                               *)

Newer == memory[Len(memory)]

(* A text ends the run, unless it is nudged to go on. *)
Text ==
    /\ pc = "act" /\ memory # <<>> /\ Newer.kind = "text"
    /\ \/ pc' = "end" /\ UNCHANGED memory
       \/ pc' = "step" /\ memory' = Add(memory, Plain("note", 0))
    /\ answer' = Nil
    /\ UNCHANGED <<saved, injected, chat, request, calling, ghosts, bounds>>

Batch ==
    /\ pc = "act" /\ memory # <<>> /\ Newer.kind = "calls"
    /\ left' = Newer.ids
    /\ together' \in {b \in BOOLEAN : b => Len(left') >= 2}
    /\ tries' = [c \in Range(left') |-> 0]
    /\ pc' = "tools"
    /\ answer' = Nil
    /\ UNCHANGED <<memory, saved, injected, chat, request, ran, ghosts, bounds>>

Nothing ==
    /\ pc = "act" /\ memory # <<>> /\ Newer.kind \notin {"text", "calls"}
    /\ pc' = "step"
    /\ answer' = Nil
    /\ UNCHANGED <<memory, saved, injected, chat, request, calling, ghosts, bounds>>

(* The calls that are under way. *)
Current == IF together THEN Range(left) ELSE {left[i] : i \in {1} \intersect DOMAIN left}

Over(c) == left' = Less(left, c) /\ ran' = ran \ {c}

(* The results that a note in the history cuts off from their calls. *)
CutOff(calls) == spoilt' = spoilt \union calls

(* PermissionGate says no, or the user does: a note, and then the result. *)
Deny(c) ==
    /\ c \in Current \ ran
    /\ Fault
    /\ memory' = Add(Add(memory, Plain("note", 0)), ResultOf(c, 0))
    /\ CutOff(Range(left))
    /\ Over(c)
    /\ UNCHANGED <<saved, injected, chat, pc, request, answer, together, tries, executed, answers,
                   prompts, kills>>

(* The tool has returned; the journal is written before the memory, and at  *)
(* every fourth call with a checkpoint.                                     *)
Run(c) ==
    /\ c \in Current \ ran
    /\ ran' = ran \union {c}
    /\ executed' = executed \union {c}
    /\ saved' \in {saved, memory}
    /\ UNCHANGED <<memory, injected, chat, pc, request, answer, left, together, tries, spoilt,
                   bounds>>

Success(c) ==
    /\ c \in ran
    /\ memory' = Add(memory, ResultOf(c, 2))
    /\ Over(c)
    /\ UNCHANGED <<saved, injected, chat, pc, request, answer, together, tries, ghosts, bounds>>

(* Faulty: the note comes first. *)
FailureLate(c) ==
    /\ c \in ran
    /\ Fault
    /\ tries[c] + 1 < MaxToolRetries
    /\ memory' = Add(Add(memory, Plain("note", 0)), ResultOf(c, 0))
    /\ CutOff(Range(left) \ {c})
    /\ Over(c)
    /\ UNCHANGED <<saved, injected, chat, pc, request, answer, together, tries, executed, answers,
                   prompts, kills>>

(* The tool reports an error, not on the last try; the note asks for        *)
(* another way. *)
Failure(c) ==
    /\ c \in ran
    /\ Fault
    /\ tries[c] + 1 < MaxToolRetries
    /\ memory' = Add(Add(memory, ResultOf(c, 0)), Plain("note", 0))
    /\ CutOff(Range(left) \ {c})
    /\ Over(c)
    /\ UNCHANGED <<saved, injected, chat, pc, request, answer, together, tries, executed, answers,
                   prompts, kills>>

(* The tool raises.  What only the user can help with has a note; what      *)
(* somebody else must, and the last try, have none.                         *)
Blocked(c) ==
    /\ c \in Current \ ran
    /\ Fault
    /\ executed' = executed \union {c}
    /\ \/ memory' = Add(memory, ResultOf(c, 0)) /\ UNCHANGED spoilt
       \/ /\ memory' = Add(Add(memory, ResultOf(c, 0)), Plain("note", 0))
          /\ CutOff(Range(left) \ {c})
    /\ Over(c)
    /\ UNCHANGED <<saved, injected, chat, pc, request, answer, together, tries, answers, prompts,
                   kills>>

Raise(c) ==
    /\ c \in Current \ ran
    /\ Fault
    /\ tries[c] + 1 < MaxToolRetries
    /\ tries' = [tries EXCEPT ![c] = @ + 1]
    /\ executed' = executed \union {c}
    /\ memory' = Add(Add(memory, ResultOf(c, 0)), Plain("note", 0))
    /\ CutOff(Range(left) \ {c})
    /\ UNCHANGED <<saved, injected, chat, pc, request, answer, left, together, ran, answers,
                   prompts, kills>>

(* terminate ends the run with the batch; a loop of the same is nudged. *)
BatchOver ==
    /\ pc = "tools" /\ left = <<>>
    /\ together' = FALSE /\ tries' = <<>>
    /\ \/ pc' = "end" /\ UNCHANGED memory
       \/ pc' = "step" /\ memory' \in {memory, Add(memory, Plain("note", 0))}
    /\ UNCHANGED <<saved, injected, chat, request, answer, left, ran, ghosts, bounds>>

-----------------------------------------------------------------------------
(* The end of a run, and what happens between runs.                        *)

End ==
    /\ pc = "end"
    /\ saved' = memory
    /\ pc' = "prompt"
    /\ UNCHANGED <<memory, injected, chat, request, answer, calling, ghosts, bounds>>

(* The memory with a result for some of the calls, in their order. *)
WithResults(h, calls, some) ==
    LET upTo[i \in 0..Len(calls)] ==
          IF i = 0 THEN h
          ELSE IF calls[i] \in some THEN Add(upTo[i - 1], ResultOf(calls[i], 0)) ELSE upTo[i - 1]
    IN  upTo[Len(calls)]

(* The tools that are running have a result that says so; the others of the *)
(* answer have none. *)
Cancel ==
    /\ pc \in {"step", "think", "wait", "wait again", "tools"}
    /\ Fault
    /\ \E some \in SUBSET (Current \ ran) :
         memory' = WithResults(memory, left, some)
    /\ CutOff(Range(left))
    /\ left' = <<>> /\ together' = FALSE /\ ran' = {} /\ tries' = <<>>
    /\ request' = <<>>
    /\ pc' = "end"
    /\ UNCHANGED <<saved, injected, chat, answer, executed, answers, prompts, kills>>

(* /compress. *)
Compress ==
    /\ pc = "prompt" /\ CanCompact(memory)
    /\ Fault
    /\ memory' = Compacted(memory)
    /\ saved' = memory'
    /\ UNCHANGED <<injected, chat, pc, request, answer, calling, ghosts, answers, prompts, kills>>

HasResult(h, c) == \E i \in DOMAIN h : IsTool(h[i]) /\ h[i].ids = <<c>>

(* The results that were not saved are lost. *)
Kill ==
    /\ pc # "down"
    /\ kills < MaxKills /\ kills' = kills + 1
    /\ memory' = <<>> /\ injected' = FALSE /\ chat' = FALSE
    /\ request' = <<>> /\ answer' = Nil
    /\ left' = <<>> /\ together' = FALSE /\ ran' = {} /\ tries' = <<>>
    /\ CutOff({c \in executed : ~HasResult(saved, c)})
    /\ pc' = "down"
    /\ UNCHANGED <<saved, executed, answers, prompts, faults>>

(* A new process, with /resume or without. *)
Restart ==
    /\ pc = "down"
    /\ memory' \in {<<>>, Add(saved, Plain("resumed", 0))}
    /\ pc' = "prompt"
    /\ UNCHANGED <<saved, injected, chat, request, answer, calling, ghosts, bounds>>

Next ==
    \/ Prompt \/ Step \/ Think \/ Overflow \/ Answer \/ Text \/ Batch \/ Nothing \/ BatchOver
    \/ \E c \in Range(left) :
         Deny(c) \/ Run(c) \/ Success(c) \/ Failure(c) \/ Blocked(c) \/ Raise(c)
    \/ End \/ Cancel \/ Compress \/ Kill \/ Restart

Spec == Init /\ [][Next]_vars

-----------------------------------------------------------------------------

(* What a strict provider accepts: calls are followed at once by an answer  *)
(* to each of them, and nothing else is answered.                           *)
RequestIsValid ==
    /\ \A i \in DOMAIN request : request[i].kind = "calls" =>
         LET n == Len(request[i].ids)
             next == SubSeq(request, i + 1, i + n)
         IN  /\ \A k \in DOMAIN next : IsTool(next[k])
             /\ {next[k].ids[1] : k \in DOMAIN next} = Range(request[i].ids)
    /\ \A j \in DOMAIN request : IsTool(request[j]) =>
         \E i \in 1..j - 1 : request[i].kind = "calls" /\ j - i <= Len(request[i].ids)

(* The model is not told of a call that ran that it was "interrupted before *)
(* execution", except where a note of the agent stands between the call and *)
(* its result, or the run was cancelled or killed before the result was     *)
(* kept: trimming, compaction and calls at the same time take no result     *)
(* away.                                                                    *)
ResultsAreShown ==
    \A i \in DOMAIN request :
        request[i].kind = "unfinished" => request[i].ids[1] \notin executed \ spoilt

(* What the code does not keep, and no run checks (README, section 6):      *)
(* every result that exists is shown.                                      *)
DoneIsShown ==
    \A i \in DOMAIN request : request[i].kind = "unfinished" => ~HasResult(memory, request[i].ids[1])

(* The answer that was just added is the message that act looks at,         *)
(* whatever the addition dropped.                                           *)
AnswerIsActedOn == pc = "act" => memory # <<>> /\ Newer = answer

(* What compact_messages leaves: the system messages at the head, the state *)
(* and no more than KeepLast messages.                                     *)
IsCompacted(h) ==
    LET n == Leading(h)
    IN  /\ n < Len(h) /\ h[n + 1].kind = "state"
        /\ Len(h) <= n + 1 + KeepLast

(* The memory is within both of its limits, but for what a compaction has   *)
(* just left, and a run has its identity, or the summary of the task that   *)
(* was resumed, at the head.                                               *)
MemoryIsBounded ==
    /\ (Len(memory) <= MaxMessages /\ ~Exceeds(memory)) \/ IsCompacted(memory)
    /\ pc \notin {"prompt", "down"} =>
         memory # <<>> /\ memory[1].kind \in {"identity", "resumed"}
=============================================================================
