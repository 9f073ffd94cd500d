------------------------------- MODULE Tableau -------------------------------
(***************************************************************************)
(* build_gba of temporal/buchi.rs: the tableau that turns the negation of  *)
(* a property into a generalized Buchi automaton.                          *)
(*                                                                         *)
(* The recursion of `expand' is a stack of frames, one step per formula    *)
(* taken from `new'.  A frame or node carries sets of formula ids; ids are *)
(* given out by `intern', and the least id is expanded first.              *)
(***************************************************************************)
EXTENDS Ltl

VARIABLES
    formulas,        \* the interned formulas; the id is the position
    frames,          \* the calls of `expand' still to make, the next one first
    nodes            \* done_index, old_sets, next_sets and incoming

tableauVars == <<formulas, frames, nodes>>

InitNode == 0        \* u32::MAX in the code: the source of initial nodes

Id(fs, f) == CHOOSE i \in DOMAIN fs : fs[i] = f

Interned(fs, f) == IF \E i \in DOMAIN fs : fs[i] = f THEN fs ELSE Append(fs, f)

StartTableau(f) ==
    /\ formulas = <<f>>
    /\ frames = <<[new |-> {1}, old |-> {}, next |-> {}, incoming |-> {InitNode}]>>
    /\ nodes = <<>>

Frame == Head(frames)
Eta == CHOOSE i \in Frame.new : \A j \in Frame.new : i <= j
Formula == formulas[Eta]
Processed == [Frame EXCEPT !.new = @ \ {Eta}, !.old = @ \cup {Eta}]

\* The call of `expand' that must have fs hold now and `later' at the next position.
Branch(fs, later) ==
    [Processed EXCEPT !.new = @ \cup (fs \ Processed.old), !.next = @ \cup later]

Call(calls) == frames' = calls \o Tail(frames)

Same(node, frame) == node.old = frame.old /\ node.next = frame.next

Merge ==
    /\ frames # <<>> /\ Frame.new = {}
    /\ \E id \in DOMAIN nodes :
          /\ Same(nodes[id], Frame)
          /\ nodes' = [nodes EXCEPT ![id].incoming = @ \cup Frame.incoming]
    /\ Call(<<>>)
    /\ UNCHANGED formulas

Create ==
    /\ frames # <<>> /\ Frame.new = {}
    /\ \A id \in DOMAIN nodes : ~Same(nodes[id], Frame)
    /\ nodes' = Append(nodes, [old |-> Frame.old, next |-> Frame.next,
                               incoming |-> Frame.incoming])
    /\ Call(<<[new |-> Frame.next, old |-> {}, next |-> {},
               incoming |-> {Len(nodes) + 1}]>>)
    /\ UNCHANGED formulas

Takes(op) == frames # <<>> /\ Frame.new # {} /\ Formula[1] = op

ExpandTrue == Takes("true") /\ Call(<<Processed>>) /\ UNCHANGED <<formulas, nodes>>

ExpandFalse == Takes("false") /\ Call(<<>>) /\ UNCHANGED <<formulas, nodes>>

Contradicts == \E i \in Frame.old : formulas[i] = Lit(Formula[2], ~Formula[3])

ExpandLit ==
    /\ Takes("lit")
    /\ Call(IF Contradicts THEN <<>> ELSE <<Processed>>)
    /\ UNCHANGED <<formulas, nodes>>

\* The arguments of an operator are interned before it is split.
Grown == Interned(Interned(formulas, Formula[2]), Formula[3])
Left == Id(Grown, Formula[2])
Right == Id(Grown, Formula[3])

Splits(op, calls) ==
    Takes(op) /\ Call(calls) /\ formulas' = Grown /\ UNCHANGED nodes

ExpandAnd == Splits("and", <<Branch({Left, Right}, {})>>)

ExpandOr == Splits("or", <<Branch({Left}, {}), Branch({Right}, {})>>)

\* Wait with the until, or fulfil it.
ExpandUntil == Splits("until", <<Branch({Left}, {Eta}), Branch({Right}, {})>>)

\* A bug: the branch that goes on holding forgets the release.
ForgetRelease == Splits("release", <<Branch({Right}, {}), Branch({Left, Right}, {})>>)

\* Go on holding, or be released.
ExpandRelease ==
    Splits("release", <<Branch({Right}, {Eta}), Branch({Left, Right}, {})>>)

TableauStep ==
    \/ Merge \/ Create
    \/ ExpandTrue \/ ExpandFalse \/ ExpandLit
    \/ ExpandAnd \/ ExpandOr \/ ExpandUntil \/ ExpandRelease

TableauDone == frames = <<>>

(* The automaton: initial nodes, edges, literals, and one acceptance set   *)
(* per until (all nodes if there is none).                                 *)
GbaInit == {q \in DOMAIN nodes : InitNode \in nodes[q].incoming}
GbaEdges(q) == {r \in DOMAIN nodes : q \in nodes[r].incoming}

Literals(q) == {formulas[i] : i \in {j \in nodes[q].old : formulas[j][1] = "lit"}}
LitsIn(q, atoms) == {l \in Literals(q) : l[2] \in atoms}
StateLits(q) == LitsIn(q, StateAtoms)
EdgeLits(q) == LitsIn(q, EdgeAtoms)

Untils == SelectSeq([i \in DOMAIN formulas |-> i], LAMBDA i : formulas[i][1] = "until")

\* expect("interned"): an until of a branch that was dropped may have no id for its
\* right operand; then build_gba panics and there is no automaton.
RightOperandsInterned ==
    \A i \in DOMAIN Untils : \E j \in DOMAIN formulas : formulas[j] = formulas[Untils[i]][3]

\* A bug: an until counts as fulfilled where it is still waited for.
AccWaiting(u) == {q \in DOMAIN nodes : TRUE}
AccOf(u) ==
    {q \in DOMAIN nodes : \/ u \notin nodes[q].old
                          \/ Id(formulas, formulas[u][3]) \in nodes[q].old}
AccSets == IF Untils = <<>> THEN <<DOMAIN nodes>>
           ELSE [i \in DOMAIN Untils |-> AccOf(Untils[i])]
==============================================================================
