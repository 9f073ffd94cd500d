------------------------------- MODULE Lowering -------------------------------
(***************************************************************************)
(* Lowering of expressions to the instructions of the virtual machine.  A  *)
(* function is named by its definition, and so are the cells and slots;    *)
(* registers are numbers, given out as a stack.  Lower(e, dst, r, pc, inl) *)
(* is code that starts at pc, writes the value of e to dst, uses registers *)
(* from r on, and has the lets of inl lowered in place.                    *)
(*                                                                         *)
(* Inlined callees never use their parameters (has_choice), so parameters   *)
(* that resolve to registers are left out.                                 *)
(***************************************************************************)
EXTENDS Syntax

CONSTANT INLINE_MAX_NODES

Instr(op, a, b, c, t) == [op |-> op, a |-> a, b |-> b, c |-> c, t |-> t]

\* Jump targets still to be patched: of fused guards, and of plain jumps.
OpenGuard == -1
OpenJump == -2

Patch(code, open, pc) ==
  [i \in DOMAIN code |-> IF code[i].t = open THEN [code[i] EXCEPT !.t = pc] ELSE code[i]]

LoadImm(dst, v) == Instr("LoadImm", dst, v, << >>, 0)
Fail(code) == Instr("Fail", code, 0, << >>, 0)
Jump(t) == Instr("Jump", 0, 0, << >>, t)
JumpIfFalse(r, t) == Instr("JumpIfFalse", r, 0, << >>, t)

-----------------------------------------------------------------------------
(***************************************************************************)
(* Analyses of the syntax tree, which follow references.                   *)
(***************************************************************************)
RECURSIVE conj_info(_), count_refs(_, _, _), ir_size(_), has_lambda(_), has_choice(_)

IMPURE_OPS == {"assign", "actionAny", "oneOf", "next", "then", "reps", "expect"}

Merge(infos) ==
  [pure |-> \A n \in infos : n.pure, refs |-> UNION {n.refs : n \in infos}]

Operands(e) == {e.as[i] : i \in DOMAIN e.as}

\* The conjuncts that may be hoisted over a choice: what they depend on.
conj_info(e) ==
  LET itself ==
        CASE e.k \in {"name", "call"} /\ Defs[e.name].kind = "op" ->
               {conj_info(Defs[e.name].e),
                [pure |-> TRUE, refs |-> IF Defs[e.name].top THEN {} ELSE {e.name}]}
          [] e.k = "call" -> {[pure |-> FALSE, refs |-> {}]}
          [] e.k = "app" -> {[pure |-> e.name \notin IMPURE_OPS, refs |-> {}]}
          [] e.k = "lambda" -> {conj_info(Defs[e.name].e)}
          [] e.k = "let" -> {conj_info(Defs[e.name].e),
                             [pure |-> Defs[e.name].qualifier # "nondet", refs |-> {}]}
          [] OTHER -> {}
  IN  Merge(itself \cup {conj_info(a) : a \in Operands(e)})

\* References to a let: those that may be evaluated repeatedly count twice.
count_refs(e, d, guarded) ==
  LET hit == IF e.k \in {"name", "call"} /\ e.name = d THEN IF guarded THEN 2 ELSE 1 ELSE 0
      inner == CASE e.k = "lambda" -> count_refs(Defs[e.name].e, d, TRUE)
                 [] e.k = "let" -> count_refs(Defs[e.name].e, d, TRUE)
                 [] OTHER -> 0
  IN  hit + inner + FoldLeft(LAMBDA n, a : n + count_refs(a, d, guarded), 0, e.as)

ir_size(e) ==
  1 + (IF e.k \in {"lambda", "let"} THEN ir_size(Defs[e.name].e) ELSE 0)
    + FoldLeft(LAMBDA n, a : n + ir_size(a), 0, e.as)

has_lambda(e) ==
  \/ e.k = "lambda"
  \/ e.k = "let" /\ has_lambda(Defs[e.name].e)
  \/ \E a \in Operands(e) : has_lambda(a)

\* Conservative: a parameter may be an operator with choice points.
has_choice(e) ==
  \/ e.k = "app" /\ e.name \in {"oneOf", "actionAny"}
  \/ e.k \in {"name", "call"} /\ (\/ Defs[e.name].kind = "param"
                                  \/ Defs[e.name].kind = "op" /\ has_choice(Defs[e.name].e))
  \/ e.k = "lambda" /\ has_choice(Defs[e.name].e)
  \/ e.k = "let" /\ (Defs[e.name].qualifier = "nondet" \/ has_choice(Defs[e.name].e))
  \/ \E a \in Operands(e) : has_choice(a)

Inlinable(d) == ir_size(Defs[d].e) <= INLINE_MAX_NODES /\ ~has_choice(Defs[d].e)

-----------------------------------------------------------------------------
RECURSIVE Lower(_, _, _, _, _), LowerArgs(_, _, _, _, _), Tests(_, _, _, _, _, _),
          lower_or(_, _, _, _, _), AnyBranches(_, _, _, _, _), MatchCases(_, _, _, _, _)

\* Operands into consecutive registers, of which r is the first free one after.
LowerArgs(as, dst, r, pc, inl) ==
  IF as = << >> THEN << >>
  ELSE LET code == Lower(Head(as), dst, r, pc, inl)
       IN  code \o LowerArgs(Tail(as), dst + 1, r, pc + Len(code), inl)

Registers(r, n) == [i \in 1 .. n |-> r + i - 1]

(***************************************************************************)
(* A fused guard compares two operands and jumps if they do not compare;   *)
(* unlike another test it does not write dst.                              *)
(***************************************************************************)
GuardOps == [eq |-> "GuardEq", neq |-> "GuardNeq", ilt |-> "GuardLt", ilte |-> "GuardLte",
             igt |-> "GuardGt", igte |-> "GuardGte"]

IsGuard(e) == e.k = "app" /\ e.name \in DOMAIN GuardOps /\ Len(e.as) = 2

Guard(e, r, pc, inl) ==
  LowerArgs(e.as, r, r + 2, pc, inl) \o <<Instr(GuardOps[e.name], r, r + 1, << >>, OpenGuard)>>

Test(e, fuse, dst, r, pc, inl) ==
  IF fuse /\ IsGuard(e) THEN Guard(e, r, pc, inl)
  ELSE Lower(e, dst, r, pc, inl) \o <<JumpIfFalse(dst, OpenJump)>>

\* Conjuncts, each with a jump out; the last is fused only if last says so.
Tests(as, last, dst, r, pc, inl) ==
  IF as = << >> THEN << >>
  ELSE LET code == Test(Head(as), last \/ Len(as) > 1, dst, r, pc, inl)
       IN  code \o Tests(Tail(as), last, dst, r, pc + Len(code), inl)

\* Mutant: a false guard leaves the conjunction without writing dst.
AndWithoutTrampoline(as, dst, r, pc, inl) ==
  IF as = << >> THEN <<LoadImm(dst, TRUEV)>>
  ELSE LET tests == Tests(Front(as), TRUE, dst, r, pc, inl)
           code == tests \o Lower(Last(as), dst, r, pc + Len(tests), inl)
           end == pc + Len(code)
       IN  Patch(Patch(code, OpenGuard, end), OpenJump, end)

lower_and(as, dst, r, pc, inl) ==
  IF as = << >> THEN <<LoadImm(dst, TRUEV)>>
  ELSE LET tests == Tests(Front(as), TRUE, dst, r, pc, inl)
           code == tests \o Lower(Last(as), dst, r, pc + Len(tests), inl)
           end == pc + Len(code)
       IN  IF \A i \in DOMAIN code : code[i].t # OpenGuard THEN Patch(code, OpenJump, end)
           ELSE Patch(Patch(code, OpenGuard, end + 1), OpenJump, end + 2)
                  \o <<Jump(end + 2), LoadImm(dst, FALSEV)>>

lower_or(as, dst, r, pc, inl) ==
  LET code == Lower(Head(as), dst, r, pc, inl)
  IN  IF Len(as) = 1 THEN code
      ELSE code \o <<Instr("JumpIfTrue", dst, 0, << >>, OpenJump)>>
             \o lower_or(Tail(as), dst, r, pc + Len(code) + 1, inl)

(***************************************************************************)
(* all{...}: if a conjunct is false the next state is rolled back.         *)
(***************************************************************************)
\* Mutant: dst keeps what the last test that writes it has left there.
ActionAllStale(as, dst, r, pc, inl) ==
  LET tests == Tests(as, FALSE, dst, r, pc + 1, inl)
      end == pc + 1 + Len(tests)
      code == <<Instr("SnapNext", 0, 0, << >>, 0)>> \o tests
                \o <<Instr("DropSnap", 0, 0, << >>, 0), Jump(end + 3), Instr("RestoreSnapPop", 0, 0, << >>, 0)>>
  IN  IF as = << >> THEN <<LoadImm(dst, TRUEV)>>
      ELSE Patch(Patch(code, OpenGuard, end + 2), OpenJump, end + 2)

lower_action_all(as, dst, r, pc, inl) ==
  LET tests == Tests(as, FALSE, dst, r, pc + 1, inl)
      end == pc + 1 + Len(tests)
      code == <<Instr("SnapNext", 0, 0, << >>, 0)>> \o tests
                \o <<Instr("DropSnap", 0, 0, << >>, 0), Jump(end + 4),
                     LoadImm(dst, FALSEV), Instr("RestoreSnapPop", 0, 0, << >>, 0)>>
  IN  IF as = << >> THEN <<LoadImm(dst, TRUEV)>>
      ELSE Patch(Patch(code, OpenGuard, end + 2), OpenJump, end + 2)

\* if, and implies, whose other branch is true: the test jumps to els.
Branch(e, thn, els, dst, r, pc, inl) ==
  LET test == Test(e, TRUE, dst, r, pc, inl)
      yes == Lower(thn, dst, r, pc + Len(test), inl)
      other == pc + Len(test) + Len(yes) + 1
      no == Lower(els, dst, r, other, inl)
  IN  Patch(Patch(test, OpenGuard, other), OpenJump, other)
        \o yes \o <<Jump(other + Len(no))>> \o no

\* The branches of any{...}, one after the other, each closed by AnyEnd.
AnyBranches(as, dst, r, pc, inl) ==
  IF as = << >> THEN << >>
  ELSE LET code == Lower(Head(as), dst, r, pc, inl) \o <<Instr("AnyEnd", dst, 0, << >>, 0)>>
       IN  <<code>> \o AnyBranches(Tail(as), dst, r, pc + Len(code), inl)

\* Where each of a sequence of pieces of code starts.
Starts(pieces, pc) ==
  [i \in DOMAIN pieces |->
     pc + FoldLeft(LAMBDA n, c : n + Len(c), 0, SubSeq(pieces, 1, i - 1))]

lower_any(as, dst, r, pc, inl) ==
  LET branches == AnyBranches(as, dst, r, pc + 1, inl)
      code == FlattenSeq(branches)
  IN  <<Instr("AnyBegin", dst, 0, Starts(branches, pc + 1), pc + 1 + Len(code))>> \o code

lower_then(as, dst, r, pc, inl) ==
  LET first == Lower(as[1], dst, r, pc, inl)
      second == Lower(as[2], dst, r, pc + Len(first) + 2, inl)
      fail == pc + Len(first) + 2 + Len(second) + 1
  IN  first \o <<JumpIfFalse(dst, fail), Instr("Shift", 0, 0, << >>, 0)>> \o second
        \o <<Jump(fail + 1), Fail("QNT513")>>

lower_expect(as, dst, r, pc, inl) ==
  LET first == Lower(as[1], dst, r, pc, inl)
      second == Lower(as[2], r, r + 1, pc + Len(first) + 3, inl)
      end == pc + Len(first) + 3 + Len(second)
  IN  first
        \o <<JumpIfFalse(dst, end + 4), Instr("SnapNext", 0, 0, << >>, 0), Instr("Shift", 0, 0, << >>, 0)>>
        \o second
        \o <<Instr("RestoreSnapPop", 0, 0, << >>, 0), JumpIfFalse(r, end + 5), LoadImm(dst, TRUEV),
             Jump(end + 6), Fail("QNT508"), Fail("QNT508")>>

(***************************************************************************)
(* match: the payload of the variant is bound around the chosen body, or   *)
(* an operator is applied to it.  as: label and eliminator alternately.    *)
(***************************************************************************)
MatchCase(elim, dst, r, pc, inl) ==
  IF elim.k = "lambda"
  THEN LET p == Defs[elim.name].ps[1]
       IN  <<Instr("ParamEnter", p, r - 1, << >>, 0)>>
             \o Lower(Defs[elim.name].e, dst, r, pc + 1, inl)
             \o <<Instr("ParamExit", p, 0, << >>, 0), Jump(OpenJump)>>
  ELSE Lower(elim, r, r + 1, pc, inl)
         \o <<Instr("CallValue", dst, r, <<r - 1>>, 0), Jump(OpenJump)>>

MatchCases(as, dst, r, pc, inl) ==
  IF as = << >> THEN << >>
  ELSE LET code == MatchCase(as[2], dst, r, pc, inl)
       IN  <<code>> \o MatchCases(SubSeq(as, 3, Len(as)), dst, r, pc + Len(code), inl)

lower_match(as, dst, r, pc, inl) ==
  LET subject == Lower(as[1], r, r + 2, pc, inl)
      start == pc + Len(subject) + 1
      cases == MatchCases(Tail(as), dst, r + 2, start, inl)
      code == FlattenSeq(cases)
      starts == Starts(cases, start)
  IN  subject
        \o <<Instr("MatchVariant", r + 1, r,
                 [i \in DOMAIN cases |-> <<as[2 * i].v, starts[i]>>], 0)>>
        \o Patch(code, OpenJump, start + Len(code))

-----------------------------------------------------------------------------
(***************************************************************************)
(* References and calls.                                                   *)
(***************************************************************************)
lower_def_value(d, dst, r, pc, inl) ==
  CASE Defs[d].kind = "var" -> <<Instr("LoadVar", dst, d, << >>, 0)>>
    [] Defs[d].kind = "param" -> <<Instr("LoadParam", dst, d, << >>, 0)>>
    [] Defs[d].kind = "const" -> <<Fail("QNT500")>>
    [] IsOperator(d) -> <<LoadImm(dst, LambdaValue(d))>>
    [] d \in inl -> Lower(Defs[d].e, dst, r, pc, inl)
    [] ~Defs[d].top -> <<Instr("CallCached", dst, d, << >>, 0)>>
    [] Defs[d].qualifier = "val" -> <<Instr("CallCachedVal", dst, d, << >>, 0)>>
    [] Defs[d].qualifier = "pureval" -> <<Instr("CallCachedPure", dst, d, << >>, 0)>>
    [] Inlinable(d) -> Lower(Defs[d].e, dst, r, pc, {})
    [] OTHER -> <<Instr("Call", dst, d, << >>, 0)>>

lower_call(d, as, dst, r, pc, inl) ==
  LET n == Len(as)
      args == LowerArgs(as, r, r + n, pc, inl)
      end == pc + Len(args)
  IN  args \o
      CASE IsOperator(d) /\ Inlinable(d) /\ ~has_lambda(Defs[d].e) ->
             Lower(Defs[d].e, dst, r + n, end, inl)
        [] IsOperator(d) -> <<Instr("Call", dst, d, Registers(r, n), 0)>>
        [] OTHER -> lower_def_value(d, r + n, r + n + 1, end, inl)
                      \o <<Instr("CallValue", dst, r + n, Registers(r, n), 0)>>

lower_builtin(op, as, dst, r, pc, inl) ==
  LET n == Len(as)
  IN  CASE op \in {"eq", "neq"} ->
             LowerArgs(as, r, r + 2, pc, inl)
               \o <<Instr(IF op = "eq" THEN "Eq" ELSE "Neq", dst, r, <<r + 1>>, 0)>>
        [] op = "not" -> Lower(as[1], r, r + 1, pc, inl) \o <<Instr("Not", dst, r, << >>, 0)>>
        [] op = "field" /\ as[2].k = "lit" ->
             Lower(as[1], r, r + 1, pc, inl) \o <<Instr("RecField", dst, r, as[2].v, 0)>>
        [] OTHER -> LowerArgs(as, r, r + n, pc, inl)
                      \o <<Instr("Builtin", dst, op, Registers(r, n), 0)>>

(***************************************************************************)
(* let: nondet is a choice point, over which the leading conjuncts of the  *)
(* body that do not depend on it are hoisted; a let that is used once is   *)
(* lowered where it is used; any other has a cell.                         *)
(***************************************************************************)
Conjuncts(e) == IF e.k = "app" /\ e.name \in {"and", "actionAll"} THEN e.as ELSE << >>

Hoistable(e, d) == conj_info(e).pure /\ d \notin conj_info(e).refs

\* How many leading conjuncts are hoisted.
Hoisted(e, d) ==
  LET as == Conjuncts(e)
  IN  CHOOSE n \in 0 .. Len(as) :
        /\ \A i \in 1 .. n : Hoistable(as[i], d)
        /\ n < Len(as) => ~Hoistable(as[n + 1], d)

lower_nondet(d, set, e, dst, r, pc, inl) ==
  LET hoist == Hoisted(e, d)
      rest == SubSeq(Conjuncts(e), hoist + 1, Len(Conjuncts(e)))
      pick == Lower(set, r, r + 1, pc, inl)
      tests == Tests(SubSeq(Conjuncts(e), 1, hoist), TRUE, dst, r + 1, pc + Len(pick), inl)
      bind == pc + Len(pick) + Len(tests)
      body == CASE Conjuncts(e) = << >> -> Lower(e, dst, r + 1, bind + 1, inl)
                [] e.name = "and" -> lower_and(rest, dst, r + 1, bind + 1, inl)
                [] OTHER -> lower_action_all(rest, dst, r + 1, bind + 1, inl)
      disabled == bind + 1 + Len(body) + 2
  IN  pick
        \o Patch(Patch(tests, OpenGuard, disabled), OpenJump, disabled)
        \o <<Instr("OneOfBind", d, r, << >>, disabled)>>
        \o body
        \o <<Instr("LetExit", d, 0, << >>, 0), Jump(disabled + 1), LoadImm(dst, FALSEV)>>

lower_let(d, e, dst, r, pc, inl) ==
  CASE Defs[d].qualifier = "nondet" /\ Defs[d].e.k = "app" /\ Defs[d].e.name = "oneOf" ->
         lower_nondet(d, Defs[d].e.as[1], e, dst, r, pc, inl)
    [] Defs[d].qualifier # "nondet" /\ count_refs(e, d, FALSE) <= 1 ->
         Lower(e, dst, r, pc, inl \cup {d})
    [] OTHER -> <<Instr("LetEnter", d, 0, << >>, 0)>> \o Lower(e, dst, r, pc + 1, inl)
                  \o <<Instr("LetExit", d, 0, << >>, 0)>>

-----------------------------------------------------------------------------
lower_app(op, as, dst, r, pc, inl) ==
  CASE op = "assign" -> Lower(as[2], r, r + 1, pc, inl) \o <<Instr("Assign", dst, as[1].name, <<r>>, 0)>>
    [] op \in {"or", "actionAny"} /\ as = << >> -> <<LoadImm(dst, FALSEV)>>
    [] op = "and" -> lower_and(as, dst, r, pc, inl)
    [] op = "or" -> LET code == lower_or(as, dst, r, pc, inl)
                    IN  Patch(code, OpenJump, pc + Len(code))
    [] op = "implies" -> Branch(as[1], as[2], Lit(TRUEV), dst, r, pc, inl)
    [] op = "ite" -> Branch(as[1], as[2], as[3], dst, r, pc, inl)
    [] op = "actionAll" -> lower_action_all(as, dst, r, pc, inl)
    [] op = "actionAny" -> lower_any(as, dst, r, pc, inl)
    [] op = "oneOf" -> Lower(as[1], r, r + 1, pc, inl) \o <<Instr("OneOfPick", dst, r, << >>, 0)>>
    [] op = "next" -> <<Instr("NextEnter", 0, 0, << >>, 0)>> \o Lower(as[1], dst, r, pc + 1, inl)
                        \o <<Instr("NextExit", 0, 0, << >>, 0)>>
    [] op = "then" -> lower_then(as, dst, r, pc, inl)
    [] op = "reps" -> LowerArgs(as, r, r + 2, pc, inl) \o <<Instr("Reps", dst, "reps", <<r, r + 1>>, 0)>>
    [] op = "expect" -> lower_expect(as, dst, r, pc, inl)
    [] op = "matchVariant" -> lower_match(as, dst, r, pc, inl)
    [] OTHER -> lower_builtin(op, as, dst, r, pc, inl)

Lower(e, dst, r, pc, inl) ==
  CASE e.k = "lit" -> <<LoadImm(dst, e.v)>>
    [] e.k = "name" -> lower_def_value(e.name, dst, r, pc, inl)
    [] e.k = "lambda" -> <<LoadImm(dst, LambdaValue(e.name))>>
    [] e.k = "app" -> lower_app(e.name, e.as, dst, r, pc, inl)
    [] e.k = "call" -> lower_call(e.name, e.as, dst, r, pc, inl)
    [] e.k = "let" -> lower_let(e.name, LetBody(e), dst, r, pc, inl)

lower_fn(e) == Lower(e, 1, 2, 1, {}) \o <<Instr("Ret", 1, 0, << >>, 0)>>

\* The program: the code of every function that a definition may be called by.
Functions == {d \in DOMAIN Defs : Defs[d].kind \in {"op", "lambda"}}

LoweredProgram == [d \in Functions |-> lower_fn(Defs[d].e)]

=============================================================================
