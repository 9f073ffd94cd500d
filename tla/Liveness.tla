------------------------------- MODULE Liveness -------------------------------
(***************************************************************************)
(* check_liveness of temporal/mod.rs: the tableau of the negated property, *)
(* its product with the state graph (product.rs), the search for a fair    *)
(* accepting component and the lasso, which is compared with the property  *)
(* once more before it is reported.                                        *)
(*                                                                         *)
(* A graph has states 1 .. n in the order of discovery, init of them       *)
(* initial; edges[s] lists the targets of s, s itself among them.  Bits    *)
(* say which states and edges have an atom.                                *)
(***************************************************************************)
EXTENDS TableauCheck, FairSccCheck

CONSTANTS
    Graphs, Bodies, FairnessLists,   \* the inputs of check_liveness
    MaxLasso                         \* the length of the lassos looked for

VARIABLES
    body, graph, fairness,   \* the input; graph and fairness from when they are used
    phase,             \* the part of the pipeline that runs
    pnodes,            \* product.nodes: <<state, automaton node>>, ids are positions
    padj,              \* product.adj
    worklist,          \* product nodes still to expand, the last one next
    report             \* what check_liveness returns

input == <<body, graph, fairness>>
productVars == <<pnodes, padj, worklist>>
vars == <<input, phase, tableauVars, productVars, sccVars, report>>

NoGraph == [init |-> 0, edges |-> <<>>, stateBits |-> <<>>, edgeBits |-> <<>>]
NoProblem == [adj |-> <<>>, init |-> <<>>, acc |-> <<>>, fairness |-> <<>>]

Start ==
    /\ graph = NoGraph /\ fairness = <<>>
    /\ pnodes = <<>> /\ padj = <<>> /\ worklist = <<>>
    /\ report = [kind |-> "none"]

InitPipeline ==
    /\ Start
    /\ phase = "tableau"
    /\ body \in Bodies
    /\ StartTableau(Nnf(body, TRUE))
    /\ StartSearch(NoProblem, <<>>)

(* The search by itself, on products that no small graph leads to.         *)
InitSearch ==
    /\ Start
    /\ phase = "search"
    /\ body = True
    /\ StartTableau(Nnf(body, TRUE))
    /\ SccInit

Init == InitPipeline \/ InitSearch

Expand ==
    /\ phase = "tableau" /\ TableauStep
    /\ UNCHANGED <<input, phase, productVars, sccVars, report>>

(* The acceptance set of an until looks up the id of its right operand.    *)
Panic ==
    /\ phase = "tableau" /\ TableauDone /\ ~RightOperandsInterned
    /\ phase' = "done"
    /\ report' = [kind |-> "panic"]
    /\ UNCHANGED <<input, tableauVars, productVars, sccVars>>

(* The tableau does not depend on the graph and the side conditions.       *)
TakeGraph ==
    /\ phase = "tableau" /\ TableauDone /\ RightOperandsInterned
    /\ phase' = "automaton"
    /\ graph' \in Graphs /\ fairness' \in FairnessLists
    /\ UNCHANGED <<body, tableauVars, productVars, sccVars, report>>

\* sat_state, sat_edge
SatState(s, lits) == \A l \in lits : (s \in graph.stateBits[l[2]]) = l[3]
SatEdge(s, t, lits) == \A l \in lits : (<<s, t>> \in graph.edgeBits[l[2]]) = l[3]

Ids(n, S) == SelectSeq([i \in 1 .. n |-> i], LAMBDA i : i \in S)
Entered(t, qs) == LET ok == SelectSeq(Ids(Len(nodes), qs),
                                      LAMBDA q : SatState(t, StateLits(q)))
                  IN  [i \in DOMAIN ok |-> <<t, ok[i]>>]

Fresh(pairs) == SelectSeq(pairs, LAMBDA p : p \notin ToSet(pnodes))
IdsIn(all, pairs) == [i \in DOMAIN pairs |-> SelectInSeq(all, LAMBDA p : p = pairs[i])]
NewIds(pairs) == [i \in DOMAIN Fresh(pairs) |-> Len(pnodes) + i]

InitialPairs == FlattenSeq([s \in 1 .. graph.init |-> Entered(s, GbaInit)])

StartProduct ==
    /\ phase = "automaton"
    /\ phase' = "product"
    /\ pnodes' = InitialPairs
    /\ padj' = [i \in DOMAIN InitialPairs |-> <<>>]
    /\ worklist' = NewIds(InitialPairs)
    /\ UNCHANGED <<input, tableauVars, sccVars, report>>

\* A bug: the literals of a step are looked up at the node it leads to.
StepsLate(s, q) ==
    FlattenSeq([i \in DOMAIN graph.edges[s] |->
        LET t == graph.edges[s][i]
        IN  SelectSeq(Entered(t, GbaEdges(q)), LAMBDA p : SatEdge(s, t, EdgeLits(p[2])))])
Steps(s, q) ==
    FlattenSeq([i \in DOMAIN graph.edges[s] |->
        LET t == graph.edges[s][i]
        IN  IF SatEdge(s, t, EdgeLits(q)) THEN Entered(t, GbaEdges(q)) ELSE <<>>])

ExpandProduct ==
    /\ phase = "product" /\ worklist # <<>>
    /\ LET p == Last(worklist)
           pairs == Steps(pnodes[p][1], pnodes[p][2])
           all == pnodes \o Fresh(pairs)
       IN  /\ pnodes' = all
           /\ padj' = [padj EXCEPT ![p] = IdsIn(all, pairs)]
                          \o [i \in DOMAIN Fresh(pairs) |-> <<>>]
           /\ worklist' = Front(worklist) \o NewIds(pairs)
    /\ UNCHANGED <<input, phase, tableauVars, sccVars, report>>

\* The side conditions as sets of product nodes and edges.
ConstraintOn(f) ==
    [strong |-> f.strong,
     taken |-> {<<p, t>> \in (DOMAIN pnodes) \X (DOMAIN pnodes) :
                   <<pnodes[p][1], pnodes[t][1]>> \in graph.edgeBits[f.taken]},
     enabled |-> {p \in DOMAIN pnodes : pnodes[p][1] \in graph.stateBits[f.enabled]}]

ProductOf ==
    [adj |-> padj,
     init |-> IdsIn(pnodes, InitialPairs),
     acc |-> [i \in DOMAIN AccSets |->
                 {p \in DOMAIN pnodes : pnodes[p][2] \in AccSets[i]}],
     fairness |-> [i \in DOMAIN fairness |-> ConstraintOn(fairness[i])]]

StartScc ==
    /\ phase = "product" /\ worklist = <<>>
    /\ phase' = "scc"
    /\ problem' = ProductOf
    /\ StartTarjan([i \in DOMAIN pnodes |-> i])
    /\ UNCHANGED <<input, tableauVars, productVars, pending, witnessVars, report>>

Search ==
    /\ phase \in {"scc", "search"} /\ (SccStep \/ WitnessStep)
    /\ UNCHANGED <<input, phase, tableauVars, productVars, report>>

\* The word of a lasso of states: the atoms of each state and of the step after it.
StateAfter(states, loop, i) == states[IF i < Len(states) THEN i + 1 ELSE loop]
WordOf(states, loop) ==
    [letters |-> [i \in DOMAIN states |->
        {a \in StateAtoms : states[i] \in graph.stateBits[a]} \cup
        {a \in EdgeAtoms :
            <<states[i], StateAfter(states, loop, i)>> \in graph.edgeBits[a]}],
     loop |-> loop]

NoFairCycle ==
    /\ phase = "scc" /\ NoneFound
    /\ phase' = "done"
    /\ report' = [kind |-> "holds"]
    /\ UNCHANGED <<input, tableauVars, productVars, sccVars>>

ExtractLasso ==
    /\ phase = "scc" /\ CycleClosed
    /\ phase' = "check"
    /\ \E l \in {Lasso} :
          report' = [kind |-> "none", loop |-> l.loop,
                     states |-> [i \in DOMAIN l.nodes |-> pnodes[l.nodes[i]][1]]]
    /\ UNCHANGED <<input, tableauVars, productVars, sccVars>>

\* lasso_satisfies_negation
SelfCheck ==
    /\ phase = "check"
    /\ phase' = "done"
    /\ report' = [report EXCEPT !.kind =
                     IF EvalHolds(body, WordOf(report.states, report.loop))
                     THEN "QNT599" ELSE "violated"]
    /\ UNCHANGED <<input, tableauVars, productVars, sccVars>>

Returned == (phase = "done" \/ (phase = "search" /\ SearchDone)) /\ UNCHANGED vars

Step ==
    \/ Expand \/ Panic \/ TakeGraph \/ StartProduct \/ ExpandProduct \/ StartScc \/ Search
    \/ NoFairCycle \/ ExtractLasso \/ SelfCheck

Next == Step \/ Returned

Spec == Init /\ [][Next]_vars

-------------------------------------------------------------------------------
(* The behaviours of the graph that end in a loop, up to a length, and     *)
(* what fairness asks of the loop.                                         *)
IsLasso(states, loop) ==
    /\ states[1] <= graph.init
    /\ \A i \in DOMAIN states : StateAfter(states, loop, i) \in ToSet(graph.edges[states[i]])

FairLoop(states, loop, f) ==
    LET looped == {i \in DOMAIN states : i >= loop}
    IN  \/ \E i \in looped : <<states[i], StateAfter(states, loop, i)>> \in graph.edgeBits[f.taken]
        \/ IF f.strong THEN \A i \in looped : states[i] \notin graph.stateBits[f.enabled]
                       ELSE \E i \in looped : states[i] \notin graph.stateBits[f.enabled]

Counterexample(states, loop) ==
    /\ IsLasso(states, loop)
    /\ \A i \in DOMAIN fairness : FairLoop(states, loop, fairness[i])
    /\ ~Holds(body, WordOf(states, loop), 1)

(* buchi.rs:1-11: a finished automaton accepts exactly the words on which  *)
(* the property is false.                                                  *)
AcceptsViolations == phase = "tableau" => AcceptsViolationsOf(body)

(* What is still to be expanded and the nodes made say together what the   *)
(* negated property says.                                                  *)
NothingLost == phase = "tableau" => ExpansionIsExact

(* mod.rs:117: a lasso that is reported is a behaviour of the stutter-     *)
(* closed graph, fair under the premises, and falsifies the body; the      *)
(* self-check never fails.                                                 *)
ReportsAreCounterexamples ==
    /\ report.kind # "QNT599"
    /\ report.kind = "violated" => Counterexample(report.states, report.loop)

(* README:14-22: if no lasso is reported then every fair behaviour         *)
(* satisfies the body; here, every one of at most MaxLasso positions.      *)
NoneMissed ==
    report.kind = "holds" =>
        \A n \in 1 .. MaxLasso :
            \A states \in [1 .. n -> DOMAIN graph.edges] :
                \A loop \in 1 .. n : ~Counterexample(states, loop)
==============================================================================
