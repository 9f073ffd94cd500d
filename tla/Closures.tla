------------------------------- MODULE Closures -------------------------------
(***************************************************************************)
(* The reference evaluator, which executes the syntax tree: an expression  *)
(* is a function of the storage s, and gives a result and a new storage.   *)
(* It is what the virtual machine promises to compute.                     *)
(*                                                                         *)
(* The choice oracle is a sequence of answers in the storage.  When it is  *)
(* used up, the result is Ask(n): a choice of n alternatives comes next.   *)
(***************************************************************************)
EXTENDS Syntax, Builtins

RECURSIVE Eval(_, _), EvalArgs(_, _), EvalAnd(_, _), EvalOr(_, _), EvalAll(_, _, _),
          EvalAny(_, _, _, _, _), Repeat(_, _, _, _, _, _), choose_all(_, _), EvalCase(_, _, _)

Ask(n) == <<"ask", n>>
Unassigned == <<"unset", 0>>

Give(r, s) == [r |-> r, s |-> s]

\* `?': go on with the value, if there is one.
Then(o, F(_, _)) == IF o.r[1] = "ok" THEN F(o.r[2], o.s) ELSE o

-----------------------------------------------------------------------------
(***************************************************************************)
(* Storage.                                                                *)
(***************************************************************************)
VarStorage(j, oracle) ==
  LET fresh(S) == [d \in S |-> Unassigned]
  IN  [cur |-> IF j.from = NoState THEN fresh(Vars) ELSE j.from,
       nxt |-> IF j.to = NoState THEN fresh(Vars) ELSE j.to,
       params |-> j.binds @@ fresh(Params), lets |-> fresh(LetNames),
       vals |-> fresh(TopVals("val")), pures |-> fresh(TopVals("pureval")),
       next_mode |-> FALSE, oracle |-> oracle, env |-> j]

shift(s) ==
  [s EXCEPT !.cur = [x \in Vars |-> IF s.nxt[x] = Unassigned THEN @[x] ELSE s.nxt[x]],
            !.nxt = [x \in Vars |-> Unassigned],
            !.vals = [d \in DOMAIN @ |-> Unassigned]]

\* One answer of the oracle; None (here -1) if there is no alternative.
choose(n, s) ==
  CASE ~s.env.choices -> Give(Err("QNT501"), s)
    [] n = 0 -> Give(Ok(-1), s)
    [] s.oracle = << >> -> Give(Ask(n), s)
    [] OTHER -> Give(Ok(Head(s.oracle)), [s EXCEPT !.oracle = Tail(@)])

choose_all(bs, s) ==
  IF bs = << >> THEN Give(Ok(<< >>), s)
  ELSE Then(choose(Head(bs), s), LAMBDA i, s1 :
         IF i = -1 THEN Give(Ok(<<-1>>), s1)
         ELSE Then(choose_all(Tail(bs), s1), LAMBDA ix, s2 : Give(Ok(<<i>> \o ix), s2)))

\* F of the element of a set that the oracle picks, or empty.
PickFrom(set, s, F(_, _), empty) ==
  IF HasNoEnd(set) THEN Give(Err("QNT501"), s)
  ELSE Then(choose_all(set_bounds(set), s), LAMBDA ix, s1 :
         IF -1 \in Range(ix) THEN Give(empty, s1) ELSE F(set_pick(set, ix).v, s1))

-----------------------------------------------------------------------------
(***************************************************************************)
(* Definitions and calls.                                                  *)
(***************************************************************************)
apply_lambda(lambda, args, s) ==
  LET d == Data(lambda)
      ps == Defs[d].ps
      Arg(p) == args[CHOOSE i \in DOMAIN ps : ps[i] = p]
      o == Eval(Defs[d].e, [s EXCEPT !.params = [p \in Range(ps) |-> Arg(p)] @@ @])
  IN  [o EXCEPT !.s.params = [p \in Range(ps) |-> s.params[p]] @@ @]

compile_opdef(d, s) ==
  LET o == Eval(Defs[d].e, s)
  IN  CASE IsOperator(d) -> Give(Ok(LambdaValue(d)), s)
        [] ~Defs[d].top -> IF s.lets[d] # Unassigned THEN Give(s.lets[d], s)
                           ELSE [o EXCEPT !.s.lets[d] = o.r]
        [] Defs[d].qualifier = "val" /\ ~s.next_mode ->
             IF s.vals[d] # Unassigned THEN Give(Ok(s.vals[d]), s)
             ELSE IF o.r[1] = "ok" THEN [o EXCEPT !.s.vals[d] = o.r[2]] ELSE o
        [] Defs[d].qualifier = "pureval" ->
             IF s.pures[d] # Unassigned THEN Give(Ok(s.pures[d]), s)
             ELSE IF o.r[1] = "ok" THEN [o EXCEPT !.s.pures[d] = o.r[2]] ELSE o
        [] OTHER -> o

compile_def(d, s) ==
  LET Read(bank, code) == Give(IF bank[d] = Unassigned THEN Err(code) ELSE Ok(bank[d]), s)
  IN  CASE Defs[d].kind = "var" -> Read(IF s.next_mode THEN s.nxt ELSE s.cur, "QNT502")
        [] Defs[d].kind = "param" -> Read(s.params, "QNT500")
        [] Defs[d].kind = "const" -> Give(Err("QNT500"), s)
        [] OTHER -> compile_opdef(d, s)

EvalArgs(as, s) ==
  IF as = << >> THEN Give(Ok(<< >>), s)
  ELSE Then(Eval(Head(as), s), LAMBDA v, s1 :
         Then(EvalArgs(Tail(as), s1), LAMBDA vs, s2 : Give(Ok(<<v>> \o vs), s2)))

\* The rest of a loop over items; reps commits the state between two of them.
Repeat(op, items, acc, args, s, first) ==
  IF items = << >> THEN Give(Ok(LoopResult(op, args, acc)), s)
  ELSE LET s0 == IF op = "reps" /\ ~first THEN shift(s) ELSE s
       IN  Then(apply_lambda(Last(args), LoopArgs(op, Head(items), acc), s0), LAMBDA v, s1 :
             LET next == LoopNext(op, Head(items), acc, v)
             IN  IF IsErr(next) THEN Give(next, s1)
                 ELSE Repeat(op, IF LoopStops(op, v) THEN << >> ELSE Tail(items),
                             next[2], args, s1, FALSE))

EvalLoop(op, args, s) ==
  LET items == LoopItems(op, args)
  IN  IF IsErr(items) THEN Give(items, s)
      ELSE Repeat(op, items[2], LoopInit(op, args), args, s, TRUE)

-----------------------------------------------------------------------------
(***************************************************************************)
(* Lazy operators.                                                         *)
(***************************************************************************)
EvalAnd(as, s) ==
  IF as = << >> THEN Give(Ok(TRUEV), s)
  ELSE Then(Eval(Head(as), s), LAMBDA v, s1 : IF v = TRUEV THEN EvalAnd(Tail(as), s1)
                                                           ELSE Give(Ok(FALSEV), s1))

EvalOr(as, s) ==
  IF as = << >> THEN Give(Ok(FALSEV), s)
  ELSE Then(Eval(Head(as), s), LAMBDA v, s1 : IF v = TRUEV THEN Give(Ok(TRUEV), s1)
                                                           ELSE EvalOr(Tail(as), s1))

\* A disabled conjunct rolls the next state back to the snapshot.
EvalAll(as, snapshot, s) ==
  IF as = << >> THEN Give(Ok(TRUEV), s)
  ELSE Then(Eval(Head(as), s), LAMBDA v, s1 :
         IF v = TRUEV THEN EvalAll(Tail(as), snapshot, s1)
         ELSE Give(Ok(FALSEV), [s1 EXCEPT !.nxt = snapshot]))

\* The branch chosen, or with fallthrough the first enabled one from it on.
EvalAny(as, branch, tries, snapshot, s) ==
  IF tries = 0 THEN Give(Ok(FALSEV), s)
  ELSE Then(Eval(as[(branch % Len(as)) + 1], s), LAMBDA v, s1 :
         IF v = TRUEV THEN Give(Ok(TRUEV), s1)
         ELSE EvalAny(as, branch + 1, tries - 1, snapshot, [s1 EXCEPT !.nxt = snapshot]))

EvalCase(as, matched, s) ==
  CASE as = << >> -> Give(Err("QNT505"), s)
    [] as[1].v \in {Str(Data(matched)[1]), Str(-1)} ->
         Then(Eval(as[2], s), LAMBDA f, s1 : apply_lambda(f, <<Data(matched)[2]>>, s1))
    [] OTHER -> EvalCase(Tail(Tail(as)), matched, s)

EvalExpect(as, s) ==
  Then(Eval(as[1], s), LAMBDA v, s1 :
    IF v # TRUEV THEN Give(Err("QNT508"), s1)
    ELSE Then(Eval(as[2], shift(s1)), LAMBDA p, s2 :
           Give(IF p = TRUEV THEN Ok(TRUEV) ELSE Err("QNT508"), [s2 EXCEPT !.nxt = s1.nxt])))

lazy_op(op, as, s) ==
  CASE op = "and" -> EvalAnd(as, s)
    [] op = "or" -> EvalOr(as, s)
    [] op = "implies" ->
         Then(Eval(as[1], s), LAMBDA v, s1 : IF v = TRUEV THEN Eval(as[2], s1)
                                                          ELSE Give(Ok(TRUEV), s1))
    [] op = "ite" ->
         Then(Eval(as[1], s), LAMBDA v, s1 : Eval(IF v = TRUEV THEN as[2] ELSE as[3], s1))
    [] op = "matchVariant" ->
         Then(Eval(as[1], s), LAMBDA v, s1 : EvalCase(Tail(as), v, s1))
    [] op = "actionAll" -> EvalAll(as, s.nxt, s)
    [] op = "actionAny" ->
         Then(choose(Len(as), s), LAMBDA i, s1 :
           IF i = -1 THEN Give(Ok(FALSEV), s1)
           ELSE EvalAny(as, i, IF s.env.any_fallthrough THEN Len(as) ELSE 1, s1.nxt, s1))
    [] op = "oneOf" ->
         Then(Eval(as[1], s), LAMBDA set, s1 :
           PickFrom(set, s1, LAMBDA v, s2 : Give(Ok(v), s2), Err("QNT509")))
    [] op = "next" ->
         IF ~s.env.next_allowed THEN Give(Err("QNT501"), s)
         ELSE [Eval(as[1], [s EXCEPT !.next_mode = TRUE]) EXCEPT !.s.next_mode = s.next_mode]
    [] op = "then" ->
         Then(Eval(as[1], s), LAMBDA v, s1 : IF v = TRUEV THEN Eval(as[2], shift(s1))
                                                          ELSE Give(Err("QNT513"), s1))
    [] op = "expect" -> EvalExpect(as, s)

LAZY_OPS == {"and", "or", "implies", "ite", "matchVariant", "actionAll", "actionAny", "oneOf",
             "next", "then", "expect"}

compile_app(op, as, s) ==
  CASE op = "assign" ->
         Then(Eval(as[2], s), LAMBDA v, s1 :
           LET w == NormalizeValue(v)
           IN  IF IsErr(w) THEN Give(w, s1)
               ELSE Give(Ok(TRUEV), [s1 EXCEPT !.nxt[as[1].name] = w[2]]))
    [] op \in LAZY_OPS -> lazy_op(op, as, s)
    [] op \in HoOps -> Then(EvalArgs(as, s), LAMBDA vs, s1 : EvalLoop(op, vs, s1))
    [] OTHER -> Then(EvalArgs(as, s), LAMBDA vs, s1 : Give(eager_op(op, vs), s1))

compile_let(d, body, s) ==
  LET InScope(v, s1) == [Eval(body, [s1 EXCEPT !.lets[d] = v]) EXCEPT !.s.lets[d] = s1.lets[d]]
  IN  IF Defs[d].qualifier = "nondet" /\ Defs[d].e.k = "app" /\ Defs[d].e.name = "oneOf"
      THEN Then(Eval(Defs[d].e.as[1], s), LAMBDA set, s1 :
             PickFrom(set, s1, LAMBDA v, s2 :
               Then(Give(NormalizeValue(v), s2), LAMBDA w, s3 : InScope(Ok(w), s3)), Ok(FALSEV)))
      ELSE InScope(Unassigned, s)

Eval(e, s) ==
  CASE e.k = "lit" -> Give(Ok(e.v), s)
    [] e.k = "name" -> compile_def(e.name, s)
    [] e.k = "lambda" -> Give(Ok(LambdaValue(e.name)), s)
    [] e.k = "app" -> compile_app(e.name, e.as, s)
    [] e.k = "call" -> Then(EvalArgs(e.as, s), LAMBDA vs, s1 :
                         Then(compile_def(e.name, s1), LAMBDA f, s2 : apply_lambda(f, vs, s2)))
    [] e.k = "let" -> compile_let(e.name, LetBody(e), s)

-----------------------------------------------------------------------------
\* What of a job counts: its result, and the states if it is an enabled action.
Outcome(j, r, c, n) == IF j.choices /\ r = Ok(TRUEV) THEN <<r, c, n>> ELSE <<r>>

RECURSIVE RefOutcomes(_, _)

(***************************************************************************)
(* The outcomes of a job with an oracle that begins with these answers; an *)
(* answer that is never asked for has no outcome.                          *)
(***************************************************************************)
RefOutcomes(j, answers) ==
  LET Outcomes(o) ==
        CASE o.r[1] = "ask" -> UNION {RefOutcomes(j, Append(answers, i)) : i \in 0 .. o.r[2] - 1}
          [] o.s.oracle # << >> -> {}
          [] OTHER -> {Outcome(j, o.r, o.s.cur, o.s.nxt)}
  IN  Outcomes(Eval(Defs[j.entry].e, VarStorage(j, answers)))

=============================================================================
