------------------------------- MODULE FairScc -------------------------------
(***************************************************************************)
(* temporal/scc.rs: the search for a strongly connected part of the        *)
(* product that has an accepting cycle which is fair, and temporal/        *)
(* witness.rs: the lasso that is read off it.                              *)
(*                                                                         *)
(* Tarjan's algorithm runs step by step over `view', a list of nodes; the  *)
(* components it finds are then examined one after the other.  One that    *)
(* fails only for strong fairness is refined: the states at which a bad    *)
(* constraint is enabled are dropped and the rest is decomposed again,     *)
(* before the components that were waiting.                                *)
(***************************************************************************)
EXTENDS Lists, Integers, FiniteSets, SequencesExt

CONSTANT
    Problems        \* products with their side conditions

(* The fields of a problem:                                                *)
(*   adj        node |-> the list of its successors, nodes being 1 .. n    *)
(*   init       the list of the initial nodes                              *)
(*   acc        the list of the acceptance sets                            *)
(*   fairness   the list of [strong, taken, enabled]: the edges that take  *)
(*              the action and the nodes that enable it                    *)
(* product.rs reaches each node from an initial one, and lists it once.    *)
IsProblem(p) ==
    LET N == DOMAIN p.adj
    IN  /\ p.adj \in Seq(Seq(N)) /\ \A v \in N : IsInjective(p.adj[v])
        /\ p.init \in Seq(N) /\ IsInjective(p.init)
        /\ \A R \in SUBSET N :
              Range(p.init) \subseteq R /\ (\A v \in R : Range(p.adj[v]) \subseteq R) => R = N
        /\ p.acc \in Seq(SUBSET N)
        /\ p.fairness \in Seq([strong : BOOLEAN, taken : SUBSET (N \X N), enabled : SUBSET N])

ASSUME ProblemAssumption == \A p \in Problems : IsProblem(p)

VARIABLES
    problem,    \* [adj, init, acc, fairness]: the product with its side conditions
    view,       \* the nodes Tarjan's algorithm runs over; <<>> when it does not run
    index,      \* discovery index of the nodes met so far
    low,        \* their low links
    stack,      \* the nodes of unfinished components
    calls,      \* the explicit call stack: <<node, next child>>, innermost first
    sccs,       \* the components found in this view
    pending,    \* components still to examine, the next one first
    found,      \* the nodes of the fair accepting component; <<>> while there is none
    visits,     \* what the cycle must still visit: nodes <<v>> and edges <<v, t>>
    cycle       \* the cycle through `found' built so far

tarjanVars == <<view, index, low, stack, calls, sccs>>
witnessVars == <<found, visits, cycle>>
sccVars == <<problem, tarjanVars, pending, witnessVars>>

MinOf(a, b) == IF a < b THEN a ELSE b
Visited == DOMAIN index
OnStack == Range(stack)
Put(f, x, v) == [y \in DOMAIN f \cup {x} |-> IF y = x THEN v ELSE f[y]]
Empty == [x \in {} |-> 0]

\* The edges inside a list of nodes.
Induced(nodes, v) == Only(problem.adj[v], Range(nodes))

StartTarjan(nodes) ==
    /\ view' = nodes
    /\ index' = Empty /\ low' = Empty
    /\ stack' = <<>> /\ calls' = <<>> /\ sccs' = <<>>

StartSearch(p, nodes) ==
    /\ problem = p
    /\ view = nodes
    /\ index = Empty /\ low = Empty
    /\ stack = <<>> /\ calls = <<>> /\ sccs = <<>>
    /\ pending = <<>>
    /\ found = <<>> /\ visits = <<>> /\ cycle = <<>>

Discover(v, callers) ==
    /\ index' = Put(index, v, Cardinality(Visited))
    /\ low' = Put(low, v, Cardinality(Visited))
    /\ stack' = <<v>> \o stack
    /\ calls' = <<<<v, 1>>>> \o callers
    /\ UNCHANGED <<problem, view, sccs, pending, witnessVars>>

Roots == Only(view, Range(view) \ Visited)

NextRoot == calls = <<>> /\ Roots # <<>> /\ Discover(Head(Roots), <<>>)

V == calls[1][1]
Children == Induced(view, V)
HasChild == calls # <<>> /\ calls[1][2] <= Len(Children)
Child == Children[calls[1][2]]
Advanced == [calls EXCEPT ![1] = <<V, @[2] + 1>>]

Descend == HasChild /\ Child \notin Visited /\ Discover(Child, Advanced)

\* A bug: a node of a finished component lowers the link, too.
LowerForVisited ==
    /\ HasChild /\ Child \in Visited
    /\ low' = [low EXCEPT ![V] = MinOf(@, index[Child])]
    /\ calls' = Advanced
    /\ UNCHANGED <<problem, view, index, stack, sccs, pending, witnessVars>>

LowerLink ==
    /\ HasChild /\ Child \in OnStack
    /\ low' = [low EXCEPT ![V] = MinOf(@, index[Child])]
    /\ calls' = Advanced
    /\ UNCHANGED <<problem, view, index, stack, sccs, pending, witnessVars>>

SkipChild ==
    /\ HasChild /\ Child \in Visited \ OnStack
    /\ calls' = Advanced
    /\ UNCHANGED <<problem, view, index, low, stack, sccs, pending, witnessVars>>

\* V is done: its caller learns its low link, and a root pops its component.
Retreat ==
    /\ calls # <<>> /\ ~HasChild
    /\ calls' = Tail(calls)
    /\ low' = IF Len(calls) = 1 THEN low
              ELSE [low EXCEPT ![calls[2][1]] = MinOf(@, low[V])]
    /\ LET n == CHOOSE i \in DOMAIN stack : stack[i] = V
       IN  IF low[V] = index[V]
           THEN /\ sccs' = Append(sccs, SubSeq(stack, 1, n))
                /\ stack' = SubSeq(stack, n + 1, Len(stack))
           ELSE UNCHANGED <<sccs, stack>>
    /\ UNCHANGED <<problem, view, index, pending, witnessVars>>

Decomposed ==
    /\ view # <<>> /\ calls = <<>> /\ Roots = <<>>
    /\ pending' = sccs \o pending
    /\ StartTarjan(<<>>)
    /\ UNCHANGED <<problem, witnessVars>>

-------------------------------------------------------------------------------
(* check_scc                                                               *)

Examining == view = <<>> /\ found = <<>> /\ pending # <<>>
Component == Head(pending)
Members == Range(Component)

Trivial == Len(Component) = 1 /\ Induced(Component, Component[1]) = <<>>

FirstIn(nodes, S) == SelectInSeq(nodes, LAMBDA v : v \in S)
Accepting == \A i \in DOMAIN problem.acc : problem.acc[i] \cap Members # {}

TakenEdges(f) ==
    {e \in f.taken : e[1] \in Members /\ e[2] \in Range(Induced(Component, e[1]))}
\* The first edge in the order of the component and of each node's list.
FirstTaken(f) ==
    LET v == Component[FirstIn(Component, {e[1] : e \in TakenEdges(f)})]
        ts == Induced(Component, v)
    IN  <<v, ts[FirstIn(ts, {t \in Range(ts) : <<v, t>> \in f.taken})]>>

Disabled(f) == Members \ f.enabled

NotTaken == {f \in Range(problem.fairness) : TakenEdges(f) = {}}
Taken == Only(problem.fairness, Range(problem.fairness) \ NotTaken)
WeakNotTaken == Only(problem.fairness, {f \in NotTaken : ~f.strong})
BadStrong == {f \in NotTaken : f.strong /\ Disabled(f) # Members}

WeakMet == \A i \in DOMAIN WeakNotTaken : Disabled(WeakNotTaken[i]) # {}

Admissible == ~Trivial /\ Accepting /\ WeakMet

Reject ==
    /\ Examining /\ ~Admissible
    /\ pending' = Tail(pending)
    /\ UNCHANGED <<problem, tarjanVars, witnessVars>>

NodeVisit(S) == <<Component[FirstIn(Component, S)]>>

Accept ==
    /\ Examining /\ Admissible /\ BadStrong = {}
    /\ found' = Component
    /\ visits' = [i \in DOMAIN problem.acc |-> NodeVisit(problem.acc[i])]
                 \o [i \in DOMAIN WeakNotTaken |-> NodeVisit(Disabled(WeakNotTaken[i]))]
                 \o [i \in DOMAIN Taken |-> FirstTaken(Taken[i])]
    /\ cycle' = <<Component[1]>>
    /\ UNCHANGED <<problem, tarjanVars, pending>>

Refined == Only(Component, {v \in Members : \A f \in BadStrong : v \notin f.enabled})

\* A bug: a component with an unmet strong constraint is given up.
GiveUp ==
    /\ Examining /\ Admissible /\ BadStrong # {}
    /\ pending' = Tail(pending)
    /\ UNCHANGED <<problem, tarjanVars, witnessVars>>

Refine ==
    /\ Examining /\ Admissible /\ BadStrong # {}
    /\ pending' = Tail(pending)
    /\ StartTarjan(Refined)
    /\ UNCHANGED <<problem, witnessVars>>

SccStep ==
    \/ NextRoot \/ Descend \/ LowerLink \/ SkipChild \/ Retreat \/ Decomposed
    \/ Reject \/ Accept \/ Refine

NoneFound == view = <<>> /\ found = <<>> /\ pending = <<>>

-------------------------------------------------------------------------------
(* extract_lasso: a cycle that makes the visits one after the other, each  *)
(* by a shortest path, and a shortest path to its first node.              *)

\* The i-th path, extended to each node that no path has met.
Extended(allowed, paths, i) ==
    LET met == {Last(p) : p \in Range(paths)}
        fresh == Only(problem.adj[Last(paths[i])], allowed \ met)
    IN  IF i > Len(paths) THEN paths
        ELSE paths \o [k \in DOMAIN fresh |-> Append(paths[i], fresh[k])]

\* A path to each node that is reached, when all have been extended.
PathsFrom(allowed, starts) ==
    LET paths[i \in 0 .. Len(problem.adj)] ==
            IF i = 0 THEN [k \in DOMAIN starts |-> <<starts[k]>>]
            ELSE Extended(allowed, paths[i - 1], i)
    IN  paths[Len(problem.adj)]

\* The search ends at the goal; what it would find after that is not used.
BfsPath(allowed, starts, goal) ==
    CHOOSE p \in Range(PathsFrom(allowed, starts)) : Last(p) = goal

GoTo(target) ==
    cycle \o Tail(BfsPath(Range(found), <<Last(cycle)>>, target))

Extending(longer) ==
    cycle' = longer /\ UNCHANGED <<problem, tarjanVars, pending, found>>

\* A bug: the source of a taken edge is visited, the edge not.
VisitSource ==
    /\ visits # <<>>
    /\ visits' = Tail(visits)
    /\ Extending(GoTo(Head(visits)[1]))

Visit ==
    /\ visits # <<>>
    /\ visits' = Tail(visits)
    /\ Extending(GoTo(Head(visits)[1]) \o Tail(Head(visits)))

\* No visit moved: one step inside the component.
ForceStep ==
    /\ visits = <<>> /\ Len(cycle) = 1
    /\ Extending(Append(cycle, Head(Induced(found, Last(cycle)))))
    /\ UNCHANGED visits

Root == found[1]

CloseCycle ==
    /\ visits = <<>> /\ Len(cycle) > 1 /\ Last(cycle) # Root
    /\ Extending(GoTo(Root))
    /\ UNCHANGED visits

CycleClosed == found # <<>> /\ visits = <<>> /\ Len(cycle) > 1 /\ Last(cycle) = Root

Prefix == BfsPath(DOMAIN problem.adj, problem.init, Root)

\* The last node leads back to the one at `loop'.
Lasso == [nodes |-> Prefix \o SubSeq(cycle, 2, Len(cycle) - 1), loop |-> Len(Prefix)]

WitnessStep == Visit \/ ForceStep \/ CloseCycle

SccInit == \E p \in Problems : StartSearch(p, [i \in DOMAIN p.adj |-> i])
SccSpec == SccInit /\ [][SccStep \/ WitnessStep]_sccVars
==============================================================================
