----------------------------- MODULE ParseProperty -----------------------------
(***************************************************************************)
(* temporal/parse.rs: how the `temporal' definitions of a specification    *)
(* become fairness premises and formulas over atoms.                       *)
(*                                                                         *)
(* An expression is a tuple that starts with its operator:                 *)
(*   <<"pred", id, params>>          a state predicate on these parameters *)
(*   <<"next", id, params>>          a predicate with next(...)            *)
(*   <<"action", id, params>>, <<"vars", id, params>>                      *)
(*   <<"param", x>>, <<"value", v>>                                        *)
(*   <<"name", n>>, <<"call", n, args>>     definitions of Defs            *)
(*   <<"forall", domain, param, e>>, <<"exists", domain, param, e>>        *)
(*   <<"always", e>>, <<"leadsTo", e, f>>, <<"weakFair", action, vars>>    *)
(*   and so on.                                                            *)
(* Syntax nodes have identity: a leaf occurs at one place of Defs or of an *)
(* input, and a parameter belongs to one operator or quantifier.           *)
(*                                                                         *)
(* An atom is made of expressions bound to the parameters pushed when it   *)
(* was met.  The parser keeps a bound expression under its node and the    *)
(* values alone, so that an atom of one property may serve another one.    *)
(***************************************************************************)
EXTENDS Integers, Sequences, FiniteSets, SequencesExt

CONSTANTS
    Defs,         \* name |-> [params, body]
    Inputs,       \* lists of temporal definitions, parsed one after the other
    Words         \* lassos whose letters are sets of <<operator, id, values>>

L == INSTANCE Ltl WITH StateAtoms <- {}, EdgeAtoms <- {}

VARIABLES
    input, word,
    table,          \* the interning tables: the bindings kept under each key
    properties      \* what is parsed so far, an error the last if any

vars == <<input, word, table, properties>>

Error == <<"error">>
NotFairness == [strong |-> FALSE, taken |-> Error, enabled |-> Error]
StateDependent == <<"state dependent">>

TemporalOps == {"always", "eventually", "leadsTo", "weakFair", "strongFair",
                "orKeep", "mustChange", "enabled"}
Connectives == {"not", "and", "or", "implies", "iff", "ite"}
Quantifiers == {"forall", "exists"}

\* The subexpressions of a connective, quantifier, call or temporal operator.
Operands(e) ==
    CASE e[1] \in {"and", "or"} -> e[2]
      [] e[1] = "call" -> e[3]
      [] e[1] \in Quantifiers -> <<e[4]>>
      [] e[1] \in {"let"} \cup Connectives \cup {"always", "eventually", "leadsTo"} -> Tail(e)
      [] OTHER -> <<>>

\* kind_of: 0 is Pure, 1 NextOnly, 2 Temporal; max_with is the maximum.
Most(a, b) == IF a > b THEN a ELSE b
RECURSIVE KindOf(_)
KindOf(e) ==
    LET own == IF e[1] \in TemporalOps THEN 2 ELSE IF e[1] = "next" THEN 1 ELSE 0
        body == IF e[1] \in {"name", "call"} THEN KindOf(Defs[e[2]].body) ELSE 0
    IN  FoldLeft(LAMBDA k, o : Most(k, KindOf(o)), Most(own, body), Operands(e))

\* deref_names: names of definitions without parameters are followed.
RECURSIVE Deref(_)
Deref(e) == IF e[1] = "name" /\ Defs[e[2]].params = <<>> THEN Deref(Defs[e[2]].body) ELSE e

\* Bindings are a list of <<parameter, value>>; the last one of a parameter counts.
ValueIn(bindings, x) ==
    bindings[CHOOSE i \in DOMAIN bindings :
                bindings[i][1] = x /\ \A j \in DOMAIN bindings : bindings[j][1] = x => j <= i][2]
Values(bindings) == [i \in DOMAIN bindings |-> bindings[i][2]]

\* eval_pure: without a state nothing but parameters and constants has a value.
Evaluates(arg) == KindOf(arg) = 0 /\ arg[1] \in {"param", "value"}
EvalArg(arg, bindings) == IF arg[1] = "param" THEN ValueIn(bindings, arg[2]) ELSE arg[2]

\* A bug: a bound expression is looked up under its node alone.
KeyByNode(node, bindings) == <<node>>

\* intern_state_pred, intern_next_pred, intern_action, intern_vars: a bound expression
\* is looked up under its node and the values bound, in their order.
Key(node, bindings) == <<node, Values(bindings)>>

AtomOf(op, nodes, bindings) == <<"atom", [op |-> op, nodes |-> nodes, bindings |-> bindings]>>

\* enabled(mustChange(A, v)) is another atom than enabled(A).
EnabledAtom(e, b) == IF e[1] = "mustChange" THEN AtomOf("enabledChange", Tail(e), b)
                     ELSE AtomOf("enabled", <<e>>, b)

Enter(params, args, bindings) ==
    bindings \o [i \in DOMAIN params |-> <<params[i], EvalArg(args[i], bindings)>>]

(* translate; Error stands for the QuintError of some part.                *)
RECURSIVE Translate(_, _)
Translate(e, b) ==
    IF KindOf(e) < 2 THEN AtomOf(IF KindOf(e) = 0 THEN "pred" ELSE "next", <<e>>, b)
    ELSE LET op == e[1]
             T(i) == Translate(e[i], b)
         IN  CASE op = "name" /\ Deref(e)[1] # "name" -> Translate(Deref(e), b)
               [] op = "always" -> L!Always(T(2))
               [] op = "eventually" -> L!Eventually(T(2))
               [] op = "leadsTo" -> L!LeadsTo(T(2), T(3))
               [] op = "not" -> L!Not(T(2))
               [] op \in {"and", "or"} ->
                     <<op, [i \in DOMAIN e[2] |-> Translate(e[2][i], b)]>>
               [] op = "implies" -> L!Or(<<L!Not(T(2)), T(3)>>)
               [] op = "iff" -> L!And(<<L!Or(<<L!Not(T(2)), T(3)>>),
                                        L!Or(<<L!Not(T(3)), T(2)>>)>>)
               [] op = "ite" -> L!Or(<<L!And(<<T(2), T(3)>>),
                                       L!And(<<L!Not(T(2)), T(4)>>)>>)
               [] op \in {"orKeep", "mustChange"} -> AtomOf(op, Tail(e), b)
               [] op = "enabled" -> EnabledAtom(e[2], b)
               [] op \in Quantifiers /\ e[2] # StateDependent ->
                     <<IF op = "forall" THEN "and" ELSE "or",
                       [i \in DOMAIN e[2] |-> Translate(e[4], Append(b, <<e[3], e[2][i]>>))]>>
               [] op = "call" /\ (\A i \in DOMAIN e[3] : Evaluates(e[3][i])) ->
                     Translate(Defs[e[2]].body, Enter(Defs[e[2]].params, e[3], b))
               [] OTHER -> Error
               \* weakFair, strongFair, let, a domain or argument that has no value here,
               \* the name of an operator with parameters

RECURSIVE HasError(_)
HasError(f) ==
    CASE f[1] = "error" -> TRUE
      [] f[1] \in {"and", "or"} -> \E i \in DOMAIN f[2] : HasError(f[2][i])
      [] f[1] \in {"not", "always", "eventually"} -> HasError(f[2])
      [] OTHER -> FALSE

(* collect_fairness: the constraints of a premise, or an error.            *)
RECURSIVE Fairness(_, _)
Fairness(prem, b) ==
    LET e == Deref(prem)
    IN  CASE e[1] \in {"weakFair", "strongFair"} ->
               <<[strong |-> e[1] = "strongFair",
                  taken |-> AtomOf("mustChange", Tail(e), b),
                  enabled |-> AtomOf("enabledChange", Tail(e), b)]>>
          [] e[1] = "and" -> FlattenSeq([i \in DOMAIN e[2] |-> Fairness(e[2][i], b)])
          [] e[1] = "forall" /\ e[2] # StateDependent ->
               FlattenSeq([i \in DOMAIN e[2] |->
                              Fairness(e[4], Append(b, <<e[3], e[2][i]>>))])
          [] OTHER -> <<NotFairness>>
IsFairness(list) == \A i \in DOMAIN list : list[i] # NotFairness

\* A bug: an error in the premise drops the premise.
ParsedAnyway(expr) ==
    LET e == Deref(expr)
    IN  IF e[1] = "implies"
        THEN [fairness |-> SelectSeq(Fairness(e[2], <<>>), LAMBDA f : f # NotFairness),
              body |-> Translate(e[3], <<>>)]
        ELSE [fairness |-> <<>>, body |-> Translate(e, <<>>)]

(* parse_property                                                          *)
Parsed(expr) ==
    LET e == Deref(expr)
    IN  IF e[1] = "implies" /\ IsFairness(Fairness(e[2], <<>>))
        THEN [fairness |-> Fairness(e[2], <<>>), body |-> Translate(e[3], <<>>)]
        ELSE [fairness |-> <<>>, body |-> Translate(e, <<>>)]

(* What is interned on the way, in this order: the constraints of a        *)
(* premise up to its first part that is none, whether the premise is used  *)
(* or not, and the atoms of the body.  What is there already stays.        *)
RECURSIVE AtomsIn(_)
AtomsIn(f) ==
    CASE f[1] = "atom" -> <<f[2]>>
      [] f[1] \in {"and", "or"} -> FlattenSeq([k \in DOMAIN f[2] |-> AtomsIn(f[2][k])])
      [] f[1] \in {"not", "always", "eventually"} -> AtomsIn(f[2])
      [] OTHER -> <<>>

Collected(expr) ==
    LET e == Deref(expr)
        list == IF e[1] = "implies" THEN Fairness(e[2], <<>>) ELSE <<>>
        parts == SelectSeq([i \in DOMAIN list |-> i],
                           LAMBDA i : IsFairness(SubSeq(list, 1, i)))
    IN  [i \in DOMAIN parts |-> list[i].taken[2]]

Interned(atoms) ==
    FoldLeft(LAMBDA t, atom : FoldLeft(LAMBDA u, node :
                 u @@ (Key(node, atom.bindings) :> atom.bindings), t, atom.nodes),
             table, atoms)

-------------------------------------------------------------------------------
Init == input \in Inputs /\ word \in Words /\ table = <<>> /\ properties = <<>>

Failed == properties # <<>> /\ HasError(Last(properties).body)

ParseProperty ==
    /\ ~Failed /\ Len(properties) < Len(input)
    /\ LET expr == input[Len(properties) + 1]
       IN  /\ properties' = Append(properties, Parsed(expr))
           /\ table' = Interned(Collected(expr) \o AtomsIn(Parsed(expr).body))
    /\ UNCHANGED <<input, word>>

Returned == (Failed \/ Len(properties) = Len(input)) /\ UNCHANGED vars

Next == ParseProperty \/ Returned

Spec == Init /\ [][Next]_vars

-------------------------------------------------------------------------------
(* What the definition means on a word: parameters are scoped lexically,   *)
(* and fairness is a formula like any other.                               *)
Instance(node, env) == [k \in DOMAIN node[3] |-> env[node[3][k]]]

\* Is an atom true at a position: the operator on its expressions and their values.
Fact(op, node, values, i) == <<op, node[2], values>> \in word.letters[i]

RECURSIVE Means(_, _, _)
Means(e, env, i) ==
    LET op == e[1]
        M(k) == Means(e[k], env, i)
        later == L!From(word, i)
        cyclic == word.loop .. Len(word.letters)
        Change(kind, x, j) == Fact(kind, x[2], Instance(x[2], env) \o Instance(x[3], env), j)
        With(v) == (e[3] :> v) @@ env
    IN  CASE op \in {"pred", "next"} -> Fact(op, e, Instance(e, env), i)
          [] op = "name" -> Means(Defs[e[2]].body, <<>>, i)
          [] op = "call" ->
                LET d == Defs[e[2]]
                    At_(x) == e[3][SelectInSeq(d.params, LAMBDA y : y = x)]
                IN  Means(d.body, [x \in ToSet(d.params) |->
                              IF At_(x)[1] = "param" THEN env[At_(x)[2]] ELSE At_(x)[2]], i)
          [] op = "always" -> \A j \in later : Means(e[2], env, j)
          [] op = "eventually" -> \E j \in later : Means(e[2], env, j)
          [] op = "leadsTo" ->
                \A j \in later : Means(e[2], env, j) =>
                    \E k \in L!From(word, j) : Means(e[3], env, k)
          [] op = "not" -> ~M(2)
          [] op = "and" -> \A k \in DOMAIN e[2] : Means(e[2][k], env, i)
          [] op = "or" -> \E k \in DOMAIN e[2] : Means(e[2][k], env, i)
          [] op = "implies" -> M(2) => M(3)
          [] op = "iff" -> M(2) <=> M(3)
          [] op = "ite" -> IF M(2) THEN M(3) ELSE M(4)
          [] op = "forall" -> \A k \in DOMAIN e[2] : Means(e[4], With(e[2][k]), i)
          [] op = "exists" -> \E k \in DOMAIN e[2] : Means(e[4], With(e[2][k]), i)
          [] op \in {"mustChange", "orKeep"} -> Change(op, e, i)
          [] op = "enabled" -> IF e[2][1] = "mustChange" THEN Change("enabledChange", e[2], i)
                               ELSE Fact(op, e[2], Instance(e[2], env), i)
          [] op = "weakFair" -> \E j \in cyclic : \/ Change("mustChange", e, j)
                                                  \/ ~Change("enabledChange", e, j)
          [] op = "strongFair" -> \/ \E j \in cyclic : Change("mustChange", e, j)
                                  \/ \A j \in cyclic : ~Change("enabledChange", e, j)

(* What a parsed property means: each expression of an atom is evaluated   *)
(* at the bindings that the table keeps for it.                            *)
Kept(node, atom) ==
    LET b == table[Key(node, atom.bindings)]
    IN  [x \in {b[k][1] : k \in DOMAIN b} |-> ValueIn(b, x)]

TrueAt(atom, j) ==
    LET nodes == atom.nodes
    IN  IF atom.op \in {"pred", "next"} THEN Means(nodes[1], Kept(nodes[1], atom), j)
        ELSE Fact(atom.op, nodes[1],
                  FlattenSeq([k \in DOMAIN nodes |-> Instance(nodes[k], Kept(nodes[k], atom))]),
                  j)

ParsedWord(atoms) ==
    [letters |-> [j \in DOMAIN word.letters |-> {a \in atoms : TrueAt(a, j)}],
     loop |-> word.loop]

MeetsFairness(w, f) ==
    LET cyclic == w.loop .. Len(w.letters)
    IN  \/ \E j \in cyclic : f.taken[2] \in w.letters[j]
        \/ IF f.strong THEN \A j \in cyclic : f.enabled[2] \notin w.letters[j]
                       ELSE \E j \in cyclic : f.enabled[2] \notin w.letters[j]

HoldsParsed(p) ==
    LET w == ParsedWord(ToSet(AtomsIn(p.body)) \cup
                        UNION {{f.taken[2], f.enabled[2]} : f \in ToSet(p.fairness)})
    IN  \/ L!Holds(p.body, w, 1)
        \/ \E f \in ToSet(p.fairness) : ~MeetsFairness(w, f)

(* parse.rs:1-7: a property that is not refused means what its definition  *)
(* means, on every word and whatever was parsed before or after it: if the *)
(* premises are met then the body holds.                                   *)
MeaningIsKept ==
    \A k \in DOMAIN properties :
        ~HasError(properties[k].body) => (HoldsParsed(properties[k]) <=> Means(input[k], <<>>, 1))
==============================================================================
