------------------------------ MODULE MCEngines -------------------------------
EXTENDS Engines, Lowering

Sets == INSTANCE SymbolicSets

I(n) == Lit(Int64(n))
L(n) == Lit(Str(n))
Op2(op, a, b) == App(op, <<a, b>>)
Assign(v, e) == App("assign", <<Name(v), e>>)
And(as) == App("and", as)
All(as) == App("actionAll", as)
AnyOf(as) == App("actionAny", as)
Get(k) == App("get", <<Lit(Map(<<<<Int64(0), Int64(1)>>>>)), k>>)
x == Name("x")
y == Name("y")

Top0(qualifier, e) == OpDef(qualifier, TRUE, << >>, e)
In0(qualifier, e) == OpDef(qualifier, FALSE, << >>, e)
OneOf(set) == In0("nondet", App("oneOf", <<set>>))
Of(kind) == [kind |-> kind, ps |-> << >>]

Parameters == [p \in {"a", "b", "f", "v", "q", "p1", "l1", "l2", "acc", "el", "it", "l3", "p2"} |-> Of("param")]

State == [x |-> Of("var"), y |-> Of("var"), N |-> Of("const")]

\* Definitions of each kind: cached, inlined and called.
Library ==
  [bits |-> Top0("pureval", App("Set", <<I(0), I(1)>>)),
   total |-> Top0("val", Op2("iadd", x, y)),
   low |-> Top0("def", Op2("ilt", x, I(2))),
   square |-> Top0("def", Op2("imul", Op2("iadd", x, I(1)), Op2("iadd", x, I(1)))),
   inc |-> OpDef("def", TRUE, <<"a">>, Op2("iadd", Name("a"), I(1))),
   zero |-> OpDef("def", TRUE, <<"b">>, I(0)),
   apply |-> OpDef("def", TRUE, <<"f", "v">>, Call("f", <<Name("v")>>)),
   bad |-> Top0("pureval", Get(I(7)))]

\* Lambdas and lets.
Scoped ==
  [i |-> OneOf(Name("bits")),
   d |-> OneOf(App("filter", <<Name("bits"), Lam("above")>>)),
   above |-> LambdaDef(<<"l1">>, Op2("igte", Name("l1"), x)),
   e |-> OneOf(Name("bits")),
   g |-> OneOf(Lit(InfiniteInt)),
   w |-> In0("val", Get(Name("e"))),
   once |-> In0("val", Name("total")),
   plus |-> LambdaDef(<<"p1">>, Assign("y", Op2("iadd", Op2("iadd", Name("w"), Name("p1")), Name("w")))),
   covers |-> LambdaDef(<<"l2">>, App("exists", <<Name("bits"), Lam("sum")>>)),
   sum |-> LambdaDef(<<"l3">>, Op2("ilte", Op2("iadd", Name("l2"), Name("l3")), Op2("iadd", Name("total"), I(2)))),
   shifted |-> OpDef("def", FALSE, <<"p2">>, Op2("iadd", Name("p2"), x)),
   add |-> LambdaDef(<<"acc", "el">>, Op2("iadd", Op2("iadd", Name("acc"), Name("acc")), Name("el"))),
   again |-> LambdaDef(<<"it">>, All(<<Op2("ilte", Name("it"), x), Name("step")>>))]

\* Actions, with nested choices that roll back.
Actions ==
  [init |-> Top0("action", All(<<Let("i", Assign("x", Name("i"))), Assign("y", I(0))>>)),
   step |-> Top0("action", AnyOf(<<
     All(<<Name("low"), Assign("x", Call("inc", <<x>>)), Assign("y", Name("total"))>>),
     Let("d", All(<<Op2("neq", y, I(2)), App("not", <<Op2("eq", Name("total"), I(3))>>),
                    Assign("y", Name("d")), Op2("igt", Name("d"), I(0)), Assign("x", x)>>)),
     All(<<Assign("x", Call("zero", <<x>>)),
           AnyOf(<<All(<<Assign("y", I(1)), Op2("igt", x, I(1))>>), Assign("y", y)>>)>>)>>)),
   risky |-> Top0("action", All(<<
     Assign("x", I(1)),
     Let("e", Let("w", App("matchVariant",
       <<App("variant", <<L(1), Name("e")>>), L(2), Name("inc"), L(1), Lam("plus")>>)))>>)),
   pick |-> Top0("action", All(<<
     Assign("x", App("oneOf", <<App("exclude", <<Name("bits"), App("Set", <<x>>)>>)>>)),
     Assign("y", App("oneOf", <<App("filter", <<Name("bits"), Lam("above")>>)>>))>>)),
   none |-> Top0("action", AnyOf(<< >>)),
   endless |-> Top0("action", Let("g", Assign("x", Name("g"))))]

\* Predicates of a state and of an edge.
Predicates ==
  [inv |-> Top0("val", And(<<
     Op2("ilte", x, I(2)),
     App("forall", <<Name("bits"), Lam("covers")>>),
     App("or", <<Op2("eq", x, y), App("ite", <<Op2("igt", x, y), Lit(TRUEV), Op2("neq", y, I(7))>>)>>),
     Op2("implies", Op2("eq", y, I(0)), Op2("ilte", Call("apply", <<Name("inc"), x>>), Name("square"))),
     Let("once", Op2("eq", Op2("field", App("Rec", <<L(1), Name("once")>>), L(1)), Name("total")))>>)),
   folds |-> Top0("val", Let("shifted", Op2("eq",
     App("fold", <<App("map", <<Name("bits"), Name("shifted")>>), x, Lam("add")>>),
     App("foldr", <<App("List", <<x, y>>), I(1), Lam("add")>>)))),
   edge |-> Top0("val", And(<<
     Op2("ilte", Name("total"), Op2("iadd", App("next", <<Name("total")>>), Name("q"))),
     Let("once", Op2("ilte", App("next", <<App("ite", <<Op2("eq", x, I(0)), Get(y), Name("once")>>)>>),
                             Op2("iadd", Name("once"), Name("once"))))>>)),
   sets |-> Top0("val", And(<<
     Op2("eq", App("flatten", <<App("powerset", <<Name("bits")>>)>>), Name("bits")),
     Op2("in", App("setToMap", <<App("tuples", <<Name("bits"), App("Set", <<y>>)>>)>>),
               Op2("setOfMaps", Name("bits"), Op2("to", I(0), I(2)))),
     Op2("eq", App("slice", <<Op2("range", I(0), I(3)), x, I(2)>>), App("List", <<x, I(1)>>))>>)),
   numbers |-> Top0("val", Op2("eq",
     Op2("imod", Op2("ipow", App("iuminus", <<Op2("iadd", x, I(2))>>), I(3)), Op2("iadd", y, I(2))),
     App("iuminus", <<Op2("field", App("with", <<App("Rec", <<L(1), x, L(2), I(1)>>), L(1), y>>), L(1))>>))),
   unmatched |-> Top0("val", App("matchVariant", <<App("variant", <<L(1), x>>), L(2), Name("inc")>>)),
   anything |-> Top0("val", App("matchVariant", <<App("variant", <<L(1), x>>), L(-1), Name("inc")>>)),
   fails |-> Top0("val", Op2("eq", Name("bad"), I(0))),
   const |-> Top0("val", Name("N"))]

\* Runs of the test runner.
Runs ==
  [once_more |-> Top0("run", Op2("expect", Op2("then", Name("init"), Name("step")),
                                 Op2("ilte", Name("total"), I(2)))),
   twice |-> Top0("run", Op2("then", Name("init"), Op2("reps", I(2), Lam("again"))))]

Definitions == Parameters @@ State @@ Library @@ Scoped @@ Actions @@ Predicates @@ Runs

-----------------------------------------------------------------------------
At2(m, n) == [x |-> Int64(m), y |-> Int64(n)]

States == {At2(0, 0), At2(0, 1), At2(1, 2), At2(2, 0)}

Job(entry, from, to, binds, choices, next_allowed, any_fallthrough) ==
  [entry |-> entry, from |-> from, to |-> to, binds |-> binds, choices |-> choices,
   next_allowed |-> next_allowed, any_fallthrough |-> any_fallthrough]

Successors(S) == {Job(a, s, NoState, << >>, TRUE, FALSE, FALSE) : a \in DOMAIN Actions, s \in S}
Checks(S) == {Job(p, s, NoState, << >>, FALSE, FALSE, FALSE) :
                p \in DOMAIN Predicates \cup {"step", "pick"}, s \in S}
Edges(S) == {Job("edge", s, t, "q" :> Int64(1), FALSE, TRUE, FALSE) : s \in S, t \in S}
RunTests == {Job(r, NoState, NoState, << >>, TRUE, FALSE, TRUE) : r \in DOMAIN Runs}

AllJobs == Successors(States) \cup Checks(States) \cup Edges(States) \cup RunTests

-----------------------------------------------------------------------------
(***************************************************************************)
(* The constants.  TLC's coverage walks the definition of a constant at    *)
(* each of its uses, unless the definition is a LET.                       *)
(***************************************************************************)
MCDefs == LET defs == Definitions IN defs
MCJobs == LET jobs == AllJobs IN jobs
MCProgram == LET code == LoweredProgram IN code

\* The operations of the value store.
MCset_cardinality(v) == LET r == Sets!cardinality(v) IN r
MCset_bounds(v) == LET r == Sets!bounds(v) IN r
MCset_pick(v, ix) == LET r == Sets!pick(v, ix) IN r
MCset_enumerate(v) == LET r == Sets!enumerate(v) IN r
MCnormal_form(v) == LET r == Sets!normalize(v) IN r
MCCanEnumerate(v) == LET r == Sets!Enumerable(v) IN r
MCHasNoEnd(v) == LET r == Sets!IsInfinite(v) IN r
MCvalues_eq(v, w) == LET r == Sets!value_eq(v, w) IN r
MCset_contains(v, e) == LET r == Sets!contains(v, e) IN r
MCset_subseteq(v, w) == LET r == Sets!subseteq(v, w) IN r
MCChoiceIndices(bs) == LET r == Sets!Indices(bs) IN r

=============================================================================
