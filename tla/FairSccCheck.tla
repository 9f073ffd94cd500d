----------------------------- MODULE FairSccCheck -----------------------------
(***************************************************************************)
(* What the search for a fair accepting component must find, from what     *)
(* makes a cycle fair and accepting; and the inductive invariant by which  *)
(* it does (TemporalProofs).                                               *)
(***************************************************************************)
EXTENDS FairScc

CONSTANT MaxNodes   \* only products of at most so many nodes are judged

Nodes == DOMAIN problem.adj
Judged == Cardinality(Nodes) <= MaxNodes

SearchDone == NoneFound \/ CycleClosed

\* What is reached from v by one or more edges inside S: what is in every closed set.
Out(S, v) == Range(problem.adj[v]) \cap S
Closed(S, R) == \A v \in R : Out(S, v) \subseteq R
After(S, v) == {w \in S : \A R \in SUBSET S : Out(S, v) \subseteq R /\ Closed(S, R) => w \in R}

Connected(S) == \A v, w \in S : w \in After(S, v)

(* A set of nodes that some cycle visits for ever, meeting every           *)
(* acceptance set and every fairness constraint as TLA+ defines WF and SF. *)
FairIn(S, f) ==
    \/ \E v \in S : \E t \in Out(S, v) : <<v, t>> \in f.taken
    \/ IF f.strong THEN S \cap f.enabled = {} ELSE S \ f.enabled # {}

Fair(S) ==
    /\ S # {} /\ Connected(S)
    /\ \A i \in DOMAIN problem.acc : problem.acc[i] \cap S # {}
    /\ \A i \in DOMAIN problem.fairness : FairIn(S, problem.fairness[i])

Leads(S, v, w) == w = v \/ w \in After(S, v)

\* The nodes in C are led to by each other, and by no others, inside S.
IsClass(S, C) == \A v \in C : \A w \in S : w \in C <=> Leads(S, v, w) /\ Leads(S, w, v)

ClassesOf(S) == \A i \in DOMAIN sccs : IsClass(S, Range(sccs[i]))
FinishedAreListed == UNION {Range(sccs[i]) : i \in DOMAIN sccs} = Visited \ OnStack

(* scc.rs:27: each component that Tarjan's algorithm pops is a class of    *)
(* mutually reachable nodes of the view, and the classes cover the nodes   *)
(* that have left the stack.                                               *)
ComponentsAreMaximal == Judged => ClassesOf(Range(view)) /\ FinishedAreListed

(* scc.rs:1-4: a component is found if and only if some cycle of the       *)
(* product is accepting and fair; dropping states for strong fairness      *)
(* loses none.                                                             *)
FoundIffFair == Judged /\ SearchDone => (CycleClosed <=> \E S \in SUBSET Nodes : Fair(S))

(* witness.rs:1-3: the nodes of the lasso follow edges of the product,     *)
(* start in an initial node and end with a cycle that is accepting and     *)
(* fair by itself.                                                         *)
LassoIsFair ==
    CycleClosed =>
        LET l == Lasso
            n == Len(l.nodes)
            after == [i \in 1 .. n |-> l.nodes[IF i < n THEN i + 1 ELSE l.loop]]
            loop == {l.nodes[i] : i \in l.loop .. n}
            edges == {<<l.nodes[i], after[i]>> : i \in l.loop .. n}
        IN  /\ l.nodes[1] \in Range(problem.init)
            /\ \A i \in 1 .. n : after[i] \in Range(problem.adj[l.nodes[i]])
            /\ \A i \in DOMAIN problem.acc : problem.acc[i] \cap loop # {}
            /\ \A i \in DOMAIN problem.fairness :
                  LET f == problem.fairness[i]
                  IN  \/ f.taken \cap edges # {}
                      \/ IF f.strong THEN loop \cap f.enabled = {}
                                     ELSE loop \ f.enabled # {}

-------------------------------------------------------------------------------
(* The inductive invariant.                                                *)

SccTypeOK ==
    /\ IsProblem(problem)
    /\ view \in Seq(Nodes) /\ IsInjective(view)
    /\ Visited \subseteq Range(view)
    /\ index \in [Visited -> Nat] /\ low \in [Visited -> Nat]
    /\ stack \in Seq(Visited)
    /\ calls \in Seq(Visited \X (Nat \ {0}))
    /\ sccs \in Seq(Seq(Nodes)) /\ pending \in Seq(Seq(Nodes))
    /\ found \in Seq(Nodes) /\ visits \in Seq(Seq(Nodes)) /\ cycle \in Seq(Nodes)

\* Of Tarjan's algorithm.  Indices number the nodes in the order in which they are met.
NumbersOnce ==
    /\ IsInjective(index)
    /\ \A v \in Visited : index[v] < Cardinality(Visited)

\* The stack and the calls descend in the order of discovery.
StackInOrder == \A i, j \in DOMAIN stack : i < j => index[stack[j]] < index[stack[i]]
CallsInOrder ==
    /\ \A i \in DOMAIN calls : calls[i][1] \in OnStack
    /\ \A i, j \in DOMAIN calls : i < j => index[calls[j][1]] < index[calls[i][1]]

\* The successors that have been looked at: all unless v is being explored.
Followed(v) ==
    {w \in Out(Range(view), v) :
        \A i \in DOMAIN calls :
            calls[i][1] = v => \E k \in 1 .. calls[i][2] - 1 :
                                   k \in DOMAIN Induced(view, v) /\ Induced(view, v)[k] = w}

FollowedAreMet == \A v \in Visited : Followed(v) \subseteq Visited

\* What has left the stack leads to nothing else.
FinishedIsClosed == Closed(Range(view), Visited \ OnStack)

\* A call leads to all that is above it on the stack, and all leads to a call below it.
CallsLead ==
    \A i \in DOMAIN calls : \A y \in OnStack :
        index[calls[i][1]] <= index[y] => Leads(Range(view), calls[i][1], y)
LeadToCalls ==
    \A x \in OnStack : \E i \in DOMAIN calls :
        index[calls[i][1]] <= index[x] /\ Leads(Range(view), x, calls[i][1])

\* A low link is the number of a node on the stack that the call leads to...
LowIsLed ==
    \A i \in DOMAIN calls :
        /\ low[calls[i][1]] <= index[calls[i][1]]
        /\ \E y \in OnStack :
              low[calls[i][1]] = index[y] /\ Leads(Range(view), calls[i][1], y)
\* ... and no edge followed from above a call goes below the links of the calls there.
LowIsLeast ==
    \A y, z \in OnStack : z \in Followed(y) =>
        \A i \in DOMAIN calls : index[calls[i][1]] <= index[y] =>
            \E j \in 1 .. i : low[calls[j][1]] <= index[z]

PoppedOnce == \A i \in DOMAIN sccs : sccs[i] # <<>> /\ IsInjective(sccs[i])

TarjanInv ==
    /\ NumbersOnce /\ StackInOrder /\ CallsInOrder /\ FollowedAreMet /\ FinishedIsClosed
    /\ CallsLead /\ LeadToCalls /\ LowIsLed /\ LowIsLeast
    /\ PoppedOnce /\ ClassesOf(Range(view)) /\ FinishedAreListed

\* Of the search.  What waits is connected by itself, but perhaps for a single node.
PendingConnected ==
    \A i \in DOMAIN pending :
        /\ pending[i] # <<>> /\ IsInjective(pending[i])
        /\ \A v, w \in Range(pending[i]) : Leads(Range(pending[i]), v, w)

\* No fair set of nodes is given up.
NoneDropped ==
    found = <<>> =>
        \A S \in SUBSET Nodes : Fair(S) =>
            \/ S \subseteq Range(view)
            \/ \E i \in DOMAIN pending : S \subseteq Range(pending[i])

FoundIsFair == found # <<>> => view = <<>> /\ Fair(Range(found))

\* Of the cycle.  It follows edges inside what was found, from its first node.
CycleInFound ==
    IF found = <<>> THEN cycle = <<>>
    ELSE
        /\ cycle # <<>> /\ cycle[1] = Root /\ Range(cycle) \subseteq Range(found)
        /\ \A k \in 1 .. Len(cycle) - 1 : cycle[k + 1] \in Range(problem.adj[cycle[k]])

VisitsInFound ==
    \A k \in DOMAIN visits :
        LET v == visits[k]
        IN  /\ Len(v) \in 1 .. 2 /\ Range(v) \subseteq Range(found)
            /\ Len(v) = 2 => v[2] \in Range(problem.adj[v[1]])

\* What is still to be visited, with what has been, meets all conditions.
CycleEdges == {<<cycle[k], cycle[k + 1]>> : k \in 1 .. Len(cycle) - 1}
ToVisit == {visits[k][1] : k \in DOMAIN visits}
AllIsVisited ==
    found # <<>> =>
        /\ \A i \in DOMAIN problem.acc : problem.acc[i] \cap (Range(cycle) \cup ToVisit) # {}
        /\ \A f \in Range(problem.fairness) :
              \/ f.taken \cap (CycleEdges \cup Range(visits)) # {}
              \/ IF f.strong THEN Range(found) \cap f.enabled = {}
                             ELSE (Range(cycle) \cup ToVisit) \ f.enabled # {}

SccInv ==
    /\ SccTypeOK /\ TarjanInv
    /\ PendingConnected /\ NoneDropped /\ FoundIsFair
    /\ CycleInFound /\ VisitsInFound /\ AllIsVisited
==============================================================================
