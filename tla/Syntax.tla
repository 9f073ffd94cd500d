-------------------------------- MODULE Syntax --------------------------------
(***************************************************************************)
(* The resolved syntax tree that both evaluators work on.  Definitions are *)
(* looked up by name; a literal lambda is a definition of its own, named   *)
(* by its place.  Node ids, and the memo tables they key, are left out.    *)
(***************************************************************************)
EXTENDS Values

CONSTANT Defs      \* the lookup table, by name

\* A definition's kind, qualifier, parameters and expression.
DefKinds == {"op", "lambda", "param", "var", "const"}
Qualifiers == {"val", "pureval", "def", "action", "nondet", "run"}

ASSUME SyntaxAssumption ==
  \A d \in DOMAIN Defs :
    /\ Defs[d].kind \in DefKinds
    /\ Defs[d].kind \in {"op", "lambda"} => Defs[d].qualifier \in Qualifiers

OpDef(qualifier, top, ps, e) ==
  [kind |-> "op", qualifier |-> qualifier, top |-> top, ps |-> ps, e |-> e]
LambdaDef(ps, e) == [kind |-> "lambda", qualifier |-> "def", top |-> FALSE, ps |-> ps, e |-> e]

\* Expressions.  The operands of an application are as; e is a let's body.
Node(k, name, as, v) == [k |-> k, name |-> name, as |-> as, v |-> v]
Lit(v) == Node("lit", "", << >>, v)
Name(d) == Node("name", d, << >>, FALSEV)
Lam(d) == Node("lambda", d, << >>, FALSEV)
App(op, as) == Node("app", op, as, FALSEV)         \* of a builtin operator
Call(d, as) == Node("call", d, as, FALSEV)         \* of a defined one
Let(d, e) == Node("let", d, <<e>>, FALSEV)

LetBody(e) == e.as[1]

IsOperator(d) == Defs[d].kind = "op" /\ Defs[d].ps # << >>

LambdaValue(d) == <<"lambda", d>>

Names(kind) == {d \in DOMAIN Defs : Defs[d].kind = kind}

NoState == [none |-> 0]      \* where a job has no state to load

Vars == Names("var")
Params == Names("param")
LetNames == {d \in Names("op") : ~Defs[d].top}
TopVals(qualifier) == {d \in Names("op") : Defs[d].top /\ Defs[d].ps = << >>
                                            /\ Defs[d].qualifier = qualifier}

=============================================================================
