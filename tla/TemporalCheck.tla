---------------------------- MODULE TemporalCheck ----------------------------
(***************************************************************************)
(* check_temporal of temporal/mod.rs with the safety path of               *)
(* temporal/safety.rs: the graph is built, then the properties are checked *)
(* in their order, those of the safety fragment directly on the graph.     *)
(* check_liveness is taken by what module Liveness shows of it: it returns *)
(* a fair lasso that falsifies the body if there is one.                   *)
(***************************************************************************)
EXTENDS StateGraph, SequencesExt

CONSTANTS
    StateAtoms, EdgeAtoms,
    Properties,     \* lists of properties [body, fairness]
    MaxLasso        \* lassos with more positions are not looked at

L == INSTANCE Ltl

VARIABLES
    properties,     \* spec.temporal
    next,           \* the property that is checked next
    verdict         \* what check_temporal returns

vars == <<graphVars, properties, next, verdict>>

Init ==
    /\ GraphInit
    /\ properties \in Properties
    /\ next = 1
    /\ verdict = [kind |-> "none"]

-------------------------------------------------------------------------------
(* Lassos of the graph as lists of state ids.                              *)
After(ids, loop, i) == ids[IF i < Len(ids) THEN i + 1 ELSE loop]
AtomsOf(i, j) == edges[i][SelectInSeq(edges[i], LAMBDA e : e.to = j)].atoms

IsLasso(ids, loop) ==
    /\ ids[1] <= initCount
    /\ \A i \in DOMAIN ids : \E e \in Range(edges[ids[i]]) : e.to = After(ids, loop, i)

WordOf(ids, loop) ==
    [letters |-> [i \in DOMAIN ids |->
                     stateBits[ids[i]] \cup AtomsOf(ids[i], After(ids, loop, i))],
     loop |-> loop]

FairLoop(ids, loop, f) ==
    LET looped == {i \in DOMAIN ids : i >= loop}
    IN  \/ \E i \in looped : f.taken \in AtomsOf(ids[i], After(ids, loop, i))
        \/ IF f.strong THEN \A i \in looped : f.enabled \notin stateBits[ids[i]]
                       ELSE \E i \in looped : f.enabled \notin stateBits[ids[i]]
FairUnder(ids, loop, fairness) ==
    \A k \in DOMAIN fairness : FairLoop(ids, loop, fairness[k])

Lassos == {<<ids, loop>> \in
              (UNION {[1 .. n -> DOMAIN arena] : n \in 1 .. MaxLasso}) \X (1 .. MaxLasso) :
                 loop <= Len(ids) /\ IsLasso(ids, loop)}
Falsifies(ids, loop, body) == ~L!Holds(body, WordOf(ids, loop), 1)

-------------------------------------------------------------------------------
(* check_safety: the first violation, of the conjuncts on initial states,  *)
(* then of always-conjuncts state by state.                                *)
EvalProp(prop, letter) == L!Holds(prop, [letters |-> <<letter>>, loop |-> 1], 1)

StatesOf(ids) == [i \in DOMAIN ids |-> arena[ids[i]].state]
PathTo(id) == TraceTo(arena, id)

\* A bug: edge propositions are evaluated on the edges to other states only.
TracesSkippingStutter(prop, id) ==
    IF L!HasEdgeAtoms(prop)
    THEN LET bad == SelectSeq(edges[id], LAMBDA e :
                        e.to # id /\ ~EvalProp(prop, stateBits[id] \cup e.atoms))
         IN  [k \in DOMAIN bad |-> Append(PathTo(id), arena[bad[k].to].state)]
    ELSE IF EvalProp(prop, stateBits[id]) THEN <<>> ELSE <<PathTo(id)>>
TracesAt(prop, id) ==
    IF L!HasEdgeAtoms(prop)
    THEN LET bad == SelectSeq(edges[id], LAMBDA e :
                        ~EvalProp(prop, stateBits[id] \cup e.atoms))
         IN  [k \in DOMAIN bad |-> Append(PathTo(id), arena[bad[k].to].state)]
    ELSE IF EvalProp(prop, stateBits[id]) THEN <<>> ELSE <<PathTo(id)>>

IsAlways(c) == c[1] = "always"

\* A bug: the states are taken from the last one discovered.
SafetyTracesBackwards(body) ==
    LET initial == SelectSeq(L!Conjuncts(body), LAMBDA c : ~IsAlways(c))
        always == SelectSeq(L!Conjuncts(body), IsAlways)
    IN  FlattenSeq([k \in DOMAIN initial |->
            FlattenSeq([id \in 1 .. initCount |-> TracesAt(initial[k], id)])])
        \o
        FlattenSeq(Reverse([id \in DOMAIN arena |->
            FlattenSeq([k \in DOMAIN always |-> TracesAt(always[k][2], id)])]))

SafetyTraces(body) ==
    LET initial == SelectSeq(L!Conjuncts(body), LAMBDA c : ~IsAlways(c))
        always == SelectSeq(L!Conjuncts(body), IsAlways)
    IN  FlattenSeq([k \in DOMAIN initial |->
            FlattenSeq([id \in 1 .. initCount |-> TracesAt(initial[k], id)])])
        \o
        FlattenSeq([id \in DOMAIN arena |->
            FlattenSeq([k \in DOMAIN always |-> TracesAt(always[k][2], id)])])

-------------------------------------------------------------------------------
Build == BuildStep /\ UNCHANGED <<properties, next, verdict>>

Returning(v) == verdict' = v /\ UNCHANGED <<graphVars, properties, next>>

\* Everything but a graph is returned as it is.
BuildReported ==
    /\ outcome.kind \notin {"none", "graph"} /\ verdict.kind = "none"
    /\ Returning(outcome)

Checking == outcome.kind = "graph" /\ verdict.kind = "none" /\ next <= Len(properties)
Property == properties[next]
GoOn == next' = next + 1 /\ UNCHANGED <<graphVars, properties, verdict>>

SafetyPasses ==
    /\ Checking /\ L!InSafetyFragment(Property.body)
    /\ SafetyTraces(Property.body) = <<>>
    /\ GoOn

SafetyViolated ==
    /\ Checking /\ L!InSafetyFragment(Property.body)
    /\ SafetyTraces(Property.body) # <<>>
    /\ Returning([kind |-> "safety", property |-> next,
                  trace |-> Head(SafetyTraces(Property.body))])

Counterexamples ==
    {l \in Lassos : /\ FairUnder(l[1], l[2], Property.fairness)
                    /\ Falsifies(l[1], l[2], Property.body)}

LivenessPasses ==
    /\ Checking /\ ~L!InSafetyFragment(Property.body)
    /\ Counterexamples = {}
    /\ GoOn

LivenessViolated ==
    /\ Checking /\ ~L!InSafetyFragment(Property.body)
    /\ Counterexamples # {}
    /\ LET l == CHOOSE c \in Counterexamples : TRUE
       IN  Returning([kind |-> "liveness", property |-> next,
                      trace |-> StatesOf(l[1]), loop |-> l[2]])

AllPass ==
    /\ outcome.kind = "graph" /\ verdict.kind = "none" /\ next > Len(properties)
    /\ Returning([kind |-> "pass", states |-> Len(arena)])

Returned == verdict.kind # "none" /\ UNCHANGED vars

Next ==
    \/ Build \/ BuildReported
    \/ SafetyPasses \/ SafetyViolated \/ LivenessPasses \/ LivenessViolated
    \/ AllPass \/ Returned

Spec == Init /\ [][Next]_vars

-------------------------------------------------------------------------------
\* The lassos that begin with the states of a trace.
Extensions(trace) ==
    {l \in Lassos : \A i \in DOMAIN trace :
        StatesOf(l[1])[IF i <= Len(l[1]) THEN i
                       ELSE l[2] + ((i - l[2]) % (Len(l[1]) + 1 - l[2]))] = trace[i]}

\* How many states it takes to show that a conjunct is false: those up to a state or,
\* for a proposition on steps, up to the target of one.
PropOf(c) == IF IsAlways(c) THEN c[2] ELSE c
OnSteps(c) == L!HasEdgeAtoms(PropOf(c))
Lengths(c) ==
    LET ids == IF IsAlways(c) THEN DOMAIN arena ELSE 1 .. initCount
        False(id) == IF OnSteps(c)
                     THEN \E e \in Range(edges[id]) :
                              ~EvalProp(PropOf(c), stateBits[id] \cup e.atoms)
                     ELSE ~EvalProp(PropOf(c), stateBits[id])
    IN  {arena[id].depth + IF OnSteps(c) THEN 2 ELSE 1 : id \in {i \in ids : False(i)}}

\* States are met in the order of their depths (safety.rs:59), so that no shorter trace
\* shows that some conjunct is false, as long as all of them are about states or all of
\* them about steps; otherwise the trace is at most one state too long, when a step was
\* met before a state.
ShortestOfOneKind ==
    verdict.kind = "safety" =>
        LET conjuncts == Range(L!Conjuncts(properties[verdict.property].body))
            excess == IF \A c, d \in conjuncts : OnSteps(c) = OnSteps(d) THEN 0 ELSE 1
        IN  \A c \in conjuncts : \A n \in Lengths(c) : Len(verdict.trace) <= n + excess

(* safety.rs:1-4: a property of the safety fragment is reported with a     *)
(* trace no behaviour of which satisfies it, fair or not; if it is passed  *)
(* then no behaviour falsifies it.  The trace is a shortest one, up to the *)
(* step before a state of a body that speaks of both.                      *)
SafetyIsExact ==
    /\ verdict.kind = "safety" =>
          /\ Extensions(verdict.trace) # {}
          /\ \A l \in Extensions(verdict.trace) :
                Falsifies(l[1], l[2], properties[verdict.property].body)
    /\ ShortestOfOneKind
    /\ verdict.kind = "pass" =>
          \A k \in DOMAIN properties : \A l \in Lassos :
              FairUnder(l[1], l[2], properties[k].fairness) =>
                  ~Falsifies(l[1], l[2], properties[k].body)
==============================================================================
