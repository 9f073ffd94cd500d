--------------------------------- MODULE Ltl ---------------------------------
(***************************************************************************)
(* The formulas of temporal/ltl.rs, their negation normal form, the safety *)
(* fragment, and the evaluation of a formula on a lasso (validate.rs).     *)
(*                                                                         *)
(* A formula is a tuple that starts with its operator.  Atoms are opaque:  *)
(* a state atom is a fact of a state, an edge atom of the step from a      *)
(* state to the next one.  A word is a lasso: letters[i] is the set of the *)
(* atoms true at position i, and the last position leads back to `loop'.   *)
(***************************************************************************)
EXTENDS Integers, Sequences, FiniteSets, SequencesExt

CONSTANTS StateAtoms, EdgeAtoms

ASSUME AtomsDiffer == StateAtoms \cap EdgeAtoms = {}

True == <<"true">>
False == <<"false">>
Atom(a) == <<"atom", a>>
Not(f) == <<"not", f>>
And(fs) == <<"and", fs>>
Or(fs) == <<"or", fs>>
Always(f) == <<"always", f>>
Eventually(f) == <<"eventually", f>>
LeadsTo(f, g) == Always(Or(<<Not(f), Eventually(g)>>))

(* nnf and fold_binary.  Literals are <<"lit", atom, positive>>. *)
Lit(a, positive) == <<"lit", a, positive>>
Constant(b) == IF b THEN True ELSE False
FoldBinary(parts, negate, join) ==
    IF parts = <<>> THEN Constant(~negate)
    ELSE FoldLeft(LAMBDA f, g : <<join, f, g>>, Head(parts), Tail(parts))

Dual(op, negate) ==
    IF negate THEN IF op = "and" THEN "or" ELSE "and" ELSE op

RECURSIVE Nnf(_, _)
Nnf(f, negate) ==
    CASE f[1] = "true" -> Constant(~negate)
      [] f[1] = "false" -> Constant(negate)
      [] f[1] = "atom" -> Lit(f[2], ~negate)
      [] f[1] = "not" -> Nnf(f[2], ~negate)
      [] f[1] \in {"and", "or"} ->
            FoldBinary([i \in DOMAIN f[2] |-> Nnf(f[2][i], negate)],
                       negate, Dual(f[1], negate))
      [] (f[1] = "always") # negate ->
            <<"release", False, Nnf(f[2], negate)>>
      [] OTHER -> <<"until", True, Nnf(f[2], negate)>>

(* as_prop, has_edge_atoms, safety_fragment. *)
RECURSIVE Propositional(_)
Propositional(f) ==
    CASE f[1] \in {"and", "or"} -> \A i \in DOMAIN f[2] : Propositional(f[2][i])
      [] f[1] = "not" -> Propositional(f[2])
      [] OTHER -> f[1] \in {"true", "false", "atom"}

RECURSIVE HasEdgeAtoms(_)
HasEdgeAtoms(f) ==
    CASE f[1] \in {"and", "or"} -> \E i \in DOMAIN f[2] : HasEdgeAtoms(f[2][i])
      [] f[1] = "not" -> HasEdgeAtoms(f[2])
      [] OTHER -> f[1] = "atom" /\ f[2] \in EdgeAtoms

Conjuncts(body) == IF body[1] = "and" THEN body[2] ELSE <<body>>

InSafetyFragment(body) ==
    \A i \in DOMAIN Conjuncts(body) :
        LET c == Conjuncts(body)[i]
        IN  Propositional(IF c[1] = "always" THEN c[2] ELSE c)

(* validate.rs: the values of a formula at all positions, by sweeps from   *)
(* the last position to the first until nothing changes.                   *)
Succ(w, i) == IF i < Len(w.letters) THEN i + 1 ELSE w.loop

Sweep(w, inner, v, always) ==
    FoldRight(LAMBDA i, u : [u EXCEPT ![i] =
                  IF always THEN inner[i] /\ u[Succ(w, i)]
                            ELSE inner[i] \/ u[Succ(w, i)]],
              [i \in DOMAIN w.letters |-> i], v)

RECURSIVE Stable(_, _, _, _)
Stable(w, inner, v, always) ==
    LET u == Sweep(w, inner, v, always)
    IN  IF u = v THEN v ELSE Stable(w, inner, u, always)

RECURSIVE Eval(_, _)
Eval(f, w) ==
    LET n == DOMAIN w.letters
    IN  CASE f[1] = "true" -> [i \in n |-> TRUE]
          [] f[1] = "false" -> [i \in n |-> FALSE]
          [] f[1] = "atom" -> [i \in n |-> f[2] \in w.letters[i]]
          [] f[1] = "not" ->
                LET v == Eval(f[2], w) IN [i \in n |-> ~v[i]]
          [] f[1] \in {"and", "or"} ->
                LET vs == [j \in DOMAIN f[2] |-> Eval(f[2][j], w)]
                IN  [i \in n |-> IF f[1] = "and" THEN \A j \in DOMAIN vs : vs[j][i]
                                                 ELSE \E j \in DOMAIN vs : vs[j][i]]
          [] OTHER ->
                Stable(w, Eval(f[2], w), [i \in n |-> f[1] = "always"],
                       f[1] = "always")

EvalHolds(f, w) == Eval(f, w)[1]

(***************************************************************************)
(* The semantics the code is compared with.  The positions from i onwards  *)
(* are i, what follows it and the whole loop.                              *)
(***************************************************************************)
From(w, i) == {j \in DOMAIN w.letters : j >= i \/ j >= w.loop}

RECURSIVE Holds(_, _, _)
Holds(f, w, i) ==
    CASE f[1] = "true" -> TRUE
      [] f[1] = "false" -> FALSE
      [] f[1] = "atom" -> f[2] \in w.letters[i]
      [] f[1] = "not" -> ~Holds(f[2], w, i)
      [] f[1] = "and" -> \A j \in DOMAIN f[2] : Holds(f[2][j], w, i)
      [] f[1] = "or" -> \E j \in DOMAIN f[2] : Holds(f[2][j], w, i)
      [] f[1] = "always" -> \A j \in From(w, i) : Holds(f[2], w, j)
      [] f[1] = "eventually" -> \E j \in From(w, i) : Holds(f[2], w, j)

(* The same for normal forms.  Between i and j: what is read before j when *)
(* reading from i.                                                         *)
Before(w, i, j) == IF j >= i THEN i .. (j - 1)
                   ELSE (i .. Len(w.letters)) \cup (w.loop .. (j - 1))

RECURSIVE NnfHolds(_, _, _)
NnfHolds(f, w, i) ==
    CASE f[1] = "true" -> TRUE
      [] f[1] = "false" -> FALSE
      [] f[1] = "lit" -> (f[2] \in w.letters[i]) = f[3]
      [] f[1] = "and" -> NnfHolds(f[2], w, i) /\ NnfHolds(f[3], w, i)
      [] f[1] = "or" -> NnfHolds(f[2], w, i) \/ NnfHolds(f[3], w, i)
      [] f[1] = "until" ->
            \E j \in From(w, i) : /\ NnfHolds(f[3], w, j)
                                  /\ \A k \in Before(w, i, j) : NnfHolds(f[2], w, k)
      [] f[1] = "release" ->
            \A j \in From(w, i) : \/ NnfHolds(f[3], w, j)
                                  \/ \E k \in Before(w, i, j) : NnfHolds(f[2], w, k)
==============================================================================
