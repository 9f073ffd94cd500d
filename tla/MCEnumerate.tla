----------------------------- MODULE MCEnumerate -----------------------------
(***************************************************************************)
(* Instances of Enumerate for TLC: every choice tree of a depth, the tree  *)
(* under each alternative chosen independently of the others.              *)
(***************************************************************************)
EXTENDS Enumerate, SequencesExt

Leaf(end) == << >> :> [bound |-> 0, end |-> end]

(***************************************************************************)
(* A choice among the trees given.                                         *)
(***************************************************************************)
Branch(subtrees) ==
  LET below(i) == {<<i - 1>> \o p : p \in DOMAIN subtrees[i]}
  IN  [p \in {<< >>} \cup UNION {below(i) : i \in DOMAIN subtrees} |->
         IF p = << >> THEN [bound |-> Len(subtrees), end |-> "disabled"]
         ELSE subtrees[Head(p) + 1][Tail(p)]]

TreesOf(ends, width, depth) ==
  LET trees[d \in 0 .. depth] ==
        {Leaf(e) : e \in ends} \cup
        (IF d = 0 THEN {}
         ELSE UNION {{Branch(s) : s \in [1 .. b -> trees[d - 1]]} : b \in 1 .. width})
  IN  trees[depth]

DeepTrees == TreesOf({"enabled", "disabled"}, 2, 3)

WideTrees == TreesOf({"enabled", "error"}, 3, 2)

DeepAndWide == DeepTrees \cup WideTrees

=============================================================================
