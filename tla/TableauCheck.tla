----------------------------- MODULE TableauCheck -----------------------------
(***************************************************************************)
(* What the tableau must accept, from the semantics of formulas on the     *)
(* words of Words.                                                         *)
(***************************************************************************)
EXTENDS Tableau

CONSTANT Words

(* A run of the automaton on a word: nodes whose literals hold at the      *)
(* positions, and the runs that visit every acceptance set for ever.       *)
Points(w) ==
    {p \in (DOMAIN w.letters) \X DOMAIN nodes :
        \A l \in Literals(p[2]) : (l[2] \in w.letters[p[1]]) = l[3]}

\* What is reached from the points P by any number of steps.
RECURSIVE ReachedFrom(_, _, _)
ReachedFrom(w, points, P) ==
    LET new == {p \in points \ P :
                   \E o \in P : p[1] = Succ(w, o[1]) /\ p[2] \in GbaEdges(o[2])}
    IN  IF new = {} THEN P ELSE ReachedFrom(w, points, P \cup new)

StepsOf(w, points, o) ==
    {p \in points : p[1] = Succ(w, o[1]) /\ p[2] \in GbaEdges(o[2])}

Accepts(w) ==
    LET points == Points(w)
        start == {p \in points : p[1] = 1 /\ p[2] \in GbaInit}
        after == [p \in points |-> ReachedFrom(w, points, StepsOf(w, points, p))]
    IN  \E p \in ReachedFrom(w, points, start) :
           /\ p \in after[p]
           /\ \A i \in DOMAIN AccSets :
                 \E r \in after[p] : r[2] \in AccSets[i] /\ p \in after[r]

(* buchi.rs:1-11: the automaton, if the panic for an operand without id     *)
(* lets it be finished, accepts exactly the words on which the property is *)
(* false.                                                                  *)
AcceptsViolationsOf(body) ==
    TableauDone /\ RightOperandsInterned => \A w \in Words : Accepts(w) <=> ~Holds(body, w, 1)

(* What GPVW's expansion rests on, at every step and for every word: what  *)
(* a node passes on to the next position (the root formula for the         *)
(* initial nodes) holds there if and only if some frame or node entered    *)
(* from it has all of new and the literals of old hold now and all of next *)
(* hold after.                                                             *)
Member(x) == [now |-> {i \in x.old : formulas[i][1] = "lit"}
                      \cup IF "new" \in DOMAIN x THEN x.new ELSE {},
              next |-> x.next, incoming |-> x.incoming]
Pieces == {Member(x) : x \in ToSet(frames) \cup ToSet(nodes)}

ExpansionIsExact ==
    \A w \in Words :
        LET true == [i \in DOMAIN formulas |->
                        [k \in {1, Succ(w, 1)} |-> NnfHolds(formulas[i], w, k)]]
            Fits(x) == /\ \A i \in x.now : true[i][1]
                       /\ \A i \in x.next : true[i][Succ(w, 1)]
            fitting == {x \in Pieces : Fits(x)}
        IN  \A q \in {InitNode} \cup DOMAIN nodes :
               (\A i \in IF q = InitNode THEN {1} ELSE nodes[q].next : true[i][1])
                  <=> \E x \in fitting : q \in x.incoming
==============================================================================
