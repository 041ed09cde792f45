---------------------------------- MODULE Hooks ----------------------------------
(***************************************************************************)
(* The hooks of app/hooks/manager.py: their registry with its index by     *)
(* event, the execution of one type of event by several emitters at the     *)
(* same time, and the end of shutdown.                                       *)
(*                                                                         *)
(* An emitter is in the manager, or in the hook that it waits for.          *)
(***************************************************************************)
EXTENDS Naturals, Sequences, FiniteSets, SequencesExt

CONSTANTS
    Objects,    \* hook objects
    Defaults,   \* of each: name, priority, failOpen, and whether it subscribes to the event
    Settings,   \* of each: the set of what it may be configured to
    Emitters,   \* calls of execute_hooks
    MaxChanges, \* bound: hooks registered, removed or configured
    None

(* What the constants must be. *)
HooksAssumption ==
    /\ \A o \in Objects : \A s \in Settings[o] \union {Defaults[o]} :
          s.priority \in Nat /\ s.failOpen \in BOOLEAN /\ s.subscribes \in BOOLEAN
    /\ MaxChanges \in Nat /\ None \notin Objects

(* A hook is not renamed: what holds of it rests on this, not the actions.  *)
NamesStay == \A o \in Objects : \A s \in Settings[o] : s.name = Defaults[o].name

VARIABLES
    hooks,    \* _hooks: the registered objects in the order of the dict
    key,      \* the name that each is registered under
    enabled,  \* the objects that are enabled
    attributes, \* their other attributes
    index,    \* _event_index: the names of the hooks for the event
    sorted,   \* the priorities when the index was built
    todo,     \* the names that an emitter has before it
    current,  \* the hook that an emitter waits for
    at,       \* where each emitter is
    verdict,  \* the aggregate: its decision, the hook that denied, and whose content it has
    heard,    \* the objects that each emitter has heard, in order, with their answers
    steady,   \* the objects that were there, in the index and enabled, ever since it began
    rank,     \* the priorities that the names of each emitter are in the order of
    stopping, \* shutdown waits for the hooks to be torn down
    changes   \* counts for MaxChanges

registry == <<hooks, key, enabled, attributes, index, sorted>>
emission == <<todo, current, at, verdict, heard>>
watch == <<steady, rank>>
vars == <<registry, emission, watch, stopping, changes>>

Allow == [decision |-> "allow", denier |-> None, content |-> None]

Init ==
    /\ hooks = <<>>
    /\ attributes = [o \in Objects |-> Defaults[o]]
    /\ key = [o \in Objects |-> Defaults[o].name]
    /\ enabled = Objects
    /\ index = <<>>
    /\ sorted = [o \in Objects |-> Defaults[o].priority]
    /\ todo = [e \in Emitters |-> <<>>]
    /\ current = [e \in Emitters |-> None]
    /\ at = [e \in Emitters |-> "new"]
    /\ verdict = [e \in Emitters |-> Allow]
    /\ heard = [e \in Emitters |-> <<>>]
    /\ steady = [e \in Emitters |-> {}]
    /\ rank = [e \in Emitters |-> sorted]
    /\ stopping = FALSE
    /\ changes = 0

Change == changes < MaxChanges /\ changes' = changes + 1

Called(n) == {o \in Range(hooks) : key[o] = n}

Keep(those) == steady' = [e \in Emitters |-> steady[e] \cap those]

-----------------------------------------------------------------------------
(* register, unregister and configure.                                     *)

(* The places in the dict of the hooks for the event. *)
Subscribed(order) == {i \in DOMAIN order : order[i] \in enabled /\ attributes[order[i]].subscribes}

Names(order, places) == [a \in DOMAIN places |-> attributes[order[places[a]]].name]

(* Faulty: in the order of their registration. *)
IndexedAsTheyCame(order) ==
    {Names(order, places) : places \in
        {p \in SetToSeqs(Subscribed(order)) : \A a, b \in DOMAIN p : a < b => p[a] < p[b]}}

(* _rebuild_index: by priority, and then in the order of the dict.          *)
Indexed(order) ==
    LET priority(i) == attributes[order[i]].priority
        before(i, j) == priority(i) < priority(j) \/ (priority(i) = priority(j) /\ i < j)
    IN {Names(order, places) : places \in
           {p \in SetToSeqs(Subscribed(order)) : \A a, b \in DOMAIN p : a < b => before(p[a], p[b])}}

Rebuild ==
    /\ index' \in Indexed(hooks')
    /\ sorted' = [o \in Objects |-> attributes[o].priority]

(* A hook of the same name is replaced, in its place; one that is there     *)
(* stays.  One that was renamed is registered again only after its removal. *)
Register(o) ==
    /\ o \in Range(hooks) => key[o] = attributes[o].name
    /\ Change
    /\ LET same == Called(attributes[o].name)
       IN hooks' = IF same = {} THEN Append(hooks, o)
                   ELSE [i \in DOMAIN hooks |-> IF hooks[i] \in same THEN o ELSE hooks[i]]
    /\ key' = [key EXCEPT ![o] = attributes[o].name]
    /\ Rebuild
    /\ Keep(Range(hooks'))
    /\ UNCHANGED <<enabled, attributes, emission, rank, stopping>>

Unregister(o) ==
    /\ \E i \in DOMAIN hooks : hooks[i] = o /\ hooks' = RemoveAt(hooks, i)
    /\ Change
    /\ Rebuild
    /\ Keep(Range(hooks'))
    /\ UNCHANGED <<key, enabled, attributes, emission, rank, stopping>>

(* The index is not rebuilt: until another hook comes or goes, a hook that   *)
(* was registered while disabled is not called when it is enabled, and one   *)
(* with another priority keeps its place.                                   *)
Configure(o) ==
    /\ Change
    /\ enabled' \in {enabled \ {o}, enabled \union {o}}
    /\ \E s \in Settings[o] \union {attributes[o]} : attributes' = [attributes EXCEPT ![o] = s]
    /\ Keep(enabled')
    /\ UNCHANGED <<hooks, key, index, sorted, emission, rank, stopping>>

-----------------------------------------------------------------------------
(* execute_hooks, from one await to the next, and AggregateHookResult.add.  *)

Callable(names) == {i \in DOMAIN names : Called(names[i]) \cap enabled # {}}

(* The names are those of the beginning, the hooks those of now: one that   *)
(* does not subscribe is called in the place of one that did.               *)
Advance(e, names) ==
    \/ /\ Callable(names) # {}
       /\ LET next == Min(Callable(names))
          IN /\ todo' = [todo EXCEPT ![e] = SubSeq(names, next + 1, Len(names))]
             /\ \E o \in Called(names[next]) : current' = [current EXCEPT ![e] = o]
       /\ at' = [at EXCEPT ![e] = "waiting"]
    \/ /\ Callable(names) = {}
       /\ todo' = [todo EXCEPT ![e] = <<>>]
       /\ current' = [current EXCEPT ![e] = None]
       /\ at' = [at EXCEPT ![e] = "over"]

Emit(e) ==
    /\ at[e] = "new"
    /\ Advance(e, index)
    /\ steady' = [steady EXCEPT ![e] =
          {o \in Range(hooks) \cap enabled : attributes[o].subscribes /\ key[o] \in Range(index)}]
    /\ rank' = [rank EXCEPT ![e] = sorted]
    /\ UNCHANGED <<registry, verdict, heard, stopping, changes>>

(* Faulty: the last decision wins. *)
MergedLast(aggregate, o, answer) ==
    [decision |-> answer,
     denier |-> IF answer = "deny" THEN o ELSE aggregate.denier,
     content |-> IF answer = "modify" THEN o ELSE aggregate.content]

(* The first denial stays, and the content of the last change. *)
Merged(aggregate, o, answer) ==
    [decision |-> IF answer = "allow" \/ aggregate.decision = "deny" THEN aggregate.decision ELSE answer,
     denier |-> IF answer = "deny" /\ aggregate.denier = None THEN o ELSE aggregate.denier,
     content |-> IF answer = "modify" THEN o ELSE aggregate.content]

Hear(e, answer) ==
    /\ at[e] = "waiting"
    /\ verdict' = [verdict EXCEPT ![e] = Merged(@, current[e], answer)]
    /\ heard' = [heard EXCEPT ![e] = Append(@, [hook |-> current[e], answer |-> answer])]
    /\ Advance(e, todo[e])
    /\ UNCHANGED <<registry, watch, stopping, changes>>

Answer(e) == \E answer \in {"allow", "modify", "deny"} : Hear(e, answer)

(* A timeout, or an exception. *)
Fail(e) == at[e] = "waiting" /\ Hear(e, IF attributes[current[e]].failOpen THEN "allow" ELSE "deny")

-----------------------------------------------------------------------------
(* shutdown: what is registered while it waits is cleared with the rest.   *)

Shutdown ==
    /\ ~stopping /\ Change
    /\ stopping' = TRUE
    /\ UNCHANGED <<registry, emission, watch>>

Clear ==
    /\ stopping
    /\ stopping' = FALSE
    /\ hooks' = <<>> /\ index' = <<>>
    /\ Keep({})
    /\ UNCHANGED <<key, enabled, attributes, sorted, emission, rank, changes>>

Owner ==
    \/ \E o \in Objects : Register(o) \/ Unregister(o) \/ Configure(o)
    \/ Shutdown \/ Clear

Execute(e) == Answer(e) \/ Fail(e)

Next == Owner \/ \E e \in Emitters : Emit(e) \/ Execute(e)

Spec == Init /\ [][Next]_vars

(* A hook answers, or its timeout ends.                                     *)
Fairness == \A e \in Emitters : WF_vars(Execute(e))

-----------------------------------------------------------------------------

TypeOK ==
    /\ Range(hooks) \subseteq Objects /\ Len(index) <= Len(hooks)
    /\ \A o \in Objects : attributes[o] \in Settings[o] \union {Defaults[o]}
    /\ enabled \subseteq Objects /\ stopping \in BOOLEAN
    /\ current \in [Emitters -> Objects \union {None}]
    /\ at \in [Emitters -> {"new", "waiting", "over"}]
    /\ \A e \in Emitters : verdict[e].decision \in {"allow", "modify", "deny"}

Heard(e) == {heard[e][i].hook : i \in DOMAIN heard[e]}

(* An event passes by no hook that was there and enabled all the time, and   *)
(* those that it meets are in the order of the priorities that they had when *)
(* the index was built, although hooks come, go, are replaced and are        *)
(* configured meanwhile.                                                    *)
SteadyHooksAreHeard ==
    \A e \in Emitters :
       /\ at[e] = "over" => steady[e] \subseteq Heard(e)
       /\ \A i, j \in DOMAIN heard[e] :
             i < j /\ {heard[e][i].hook, heard[e][j].hook} \subseteq steady[e]
                => rank[e][heard[e][i].hook] <= rank[e][heard[e][j].hook]

(* "Execute all hooks subscribed to *event_type* in priority order",        *)
(* manager.py:283.  Not kept: a configuration does not rebuild the index.    *)
PriorityIsHeeded ==
    \A e \in Emitters : \A i, j \in DOMAIN heard[e] :
       i < j /\ {heard[e][i].hook, heard[e][j].hook} \subseteq steady[e]
          => attributes[heard[e][i].hook].priority <= attributes[heard[e][j].hook].priority

(* A denial by any hook is the verdict, in the name of the first; and an     *)
(* event is changed only if a hook has said so.                              *)
DenialStands ==
    \A e \in Emitters :
       LET denials == {i \in DOMAIN heard[e] : heard[e][i].answer = "deny"}
       IN /\ verdict[e].decision = "deny" <=> denials # {}
          /\ denials # {} => verdict[e].denier = heard[e][Min(denials)].hook
          /\ verdict[e].decision = "modify" => verdict[e].content # None

(* The execution of an event ends, although its hooks do not answer.        *)
ExecutionEnds == \A e \in Emitters : at[e] = "waiting" ~> at[e] = "over"
=============================================================================
