------------------------------- MODULE Builtins -------------------------------
(***************************************************************************)
(* The builtin operators that take evaluated arguments, and the loops by   *)
(* which the higher-order ones apply a lambda.  Both evaluators share this *)
(* table; they differ in how they evaluate arguments and call lambdas.     *)
(* An argument of the wrong type is a panic that the type checker rules    *)
(* out: such applications are not considered.                              *)
(***************************************************************************)
EXTENDS Values

CONSTANT MaxInt        \* 2^63 - 1 in the code

\* What the value store offers on sets (SymbolicSets), under names of this module.
CONSTANTS set_cardinality(_), set_bounds(_), set_pick(_, _), set_enumerate(_), set_contains(_, _),
          set_subseteq(_, _), values_eq(_, _), normal_form(_), CanEnumerate(_), HasNoEnd(_), ChoiceIndices(_)

MinInt == -MaxInt - 1

\* The first error of a sequence of results, or F of their values.
IfOk(rs, F(_)) ==
  LET errors == {i \in DOMAIN rs : IsErr(rs[i])}
  IN  IF errors = {} THEN F([i \in DOMAIN rs |-> rs[i][2]])
      ELSE rs[CHOOSE i \in errors : \A j \in errors : i <= j]

NormalizeValue(v) == IF IsSymbolic(v) /\ IsErr(CanEnumerate(v)) THEN CanEnumerate(v) ELSE Ok(normal_form(v))

\* F of normalized values, and F of the elements of a set.
Normalized(vs, F(_)) == IfOk([i \in DOMAIN vs |-> NormalizeValue(vs[i])], F)
Listed(v, F(_)) == IF IsErr(CanEnumerate(v)) THEN CanEnumerate(v) ELSE F(set_enumerate(v))

checked(n) == IF n \in MinInt .. MaxInt THEN Ok(Int64(n)) ELSE Err("QNT601")

at_index(s, i) == IF i \in 0 .. Len(s) - 1 THEN Ok(s[i + 1]) ELSE Err("QNT510")

Pairs(s) == [i \in 1 .. Len(s) \div 2 |-> <<s[2 * i - 1], s[2 * i]>>]

-----------------------------------------------------------------------------
Constructors == {"Set", "Rec", "Tup", "List", "Map", "variant"}

constructor(op, a) ==
  Normalized(a, LAMBDA vs :
    CASE op = "Set" -> Ok(set_of_normalized(Range(vs)))
      [] op = "Tup" -> Ok(Tuple(vs))
      [] op = "List" -> Ok(List(vs))
      [] op = "Map" -> Ok(map_of_normalized([i \in DOMAIN vs |-> Data(vs[i])]))
      [] op = "Rec" -> Ok(Record(Data(map_of_normalized(Pairs(vs)))))
      [] op = "variant" -> Ok(Variant(Data(vs[1]), vs[2])))

Arithmetic == {"iadd", "isub", "imul", "iuminus", "idiv", "imod", "ipow"}

\* Division truncates towards zero.
Quotient(m, n) ==
  LET q == (IF m < 0 THEN -m ELSE m) \div (IF n < 0 THEN -n ELSE n)
  IN  IF (m < 0) = (n < 0) THEN q ELSE -q

arithmetic(op, a) ==
  CASE op = "iadd" -> checked(Data(a[1]) + Data(a[2]))
    [] op = "isub" -> checked(Data(a[1]) - Data(a[2]))
    [] op = "imul" -> checked(Data(a[1]) * Data(a[2]))
    [] op = "iuminus" -> checked(-Data(a[1]))
    [] op = "idiv" -> IF Data(a[2]) = 0 THEN Err("QNT503")
                      ELSE checked(Quotient(Data(a[1]), Data(a[2])))
    [] op = "imod" -> IF Data(a[2]) = 0 \/ (Data(a[1]) = MinInt /\ Data(a[2]) = -1) THEN Err("QNT601")
                      ELSE Ok(Int64(Data(a[1]) - Data(a[2]) * Quotient(Data(a[1]), Data(a[2]))))
    [] op = "ipow" -> IF Data(a[2]) < 0 \/ (Data(a[1]) = 0 /\ Data(a[2]) = 0) THEN Err("QNT503")
                      ELSE checked(Data(a[1]) ^ Data(a[2]))

Comparisons == {"ilt", "ilte", "igt", "igte", "iff"}

compare(op, x, y) ==
  CASE op = "ilt" -> Data(x) < Data(y)
    [] op = "ilte" -> Data(x) <= Data(y)
    [] op = "igt" -> Data(x) > Data(y)
    [] op = "igte" -> Data(x) >= Data(y)
    [] op = "iff" -> Data(x) = Data(y)

ListOps == {"item", "nth", "head", "tail", "append", "concat", "replaceAt", "slice",
            "indices", "length"}

list_op(op, a) ==
  LET s == Data(a[1])
  IN  CASE op = "item" -> at_index(s, Data(a[2]) - 1)
        [] op = "nth" -> at_index(s, Data(a[2]))
        [] op = "head" -> IF s = << >> THEN Err("QNT505") ELSE Ok(Head(s))
        [] op = "tail" -> IF s = << >> THEN Err("QNT505") ELSE Ok(List(Tail(s)))
        [] op = "append" -> Normalized(<<a[2]>>, LAMBDA v : Ok(List(s \o v)))
        [] op = "concat" -> Ok(List(s \o Data(a[2])))
        [] op = "replaceAt" ->
             IF Data(a[2]) \notin 0 .. Len(s) - 1 THEN Err("QNT510")
             ELSE Normalized(<<a[3]>>, LAMBDA v : Ok(List([s EXCEPT ![Data(a[2]) + 1] = v[1]])))
        [] op = "slice" ->
             IF Data(a[2]) >= 0 /\ Data(a[3]) >= Data(a[2]) /\ Data(a[3]) <= Len(s)
             THEN Ok(List(SubSeq(s, Data(a[2]) + 1, Data(a[3])))) ELSE Err("QNT506")
        [] op = "length" -> Ok(Int64(Len(s)))
        [] op = "indices" -> Ok(Interval(0, Len(s) - 1))

SetOps == {"contains", "in", "subseteq", "union", "exclude", "intersect", "size", "to", "powerset",
           "tuples", "chooseSome", "getOnlyElement", "isFinite", "flatten", "setToMap"}

set_op(op, a) ==
  CASE op = "contains" -> Normalized(<<a[2]>>, LAMBDA v : Ok(Bool(set_contains(a[1], v[1]))))
    [] op = "in" -> Normalized(<<a[1]>>, LAMBDA v : Ok(Bool(set_contains(a[2], v[1]))))
    [] op = "subseteq" -> Ok(Bool(set_subseteq(a[1], a[2])))
    [] op = "union" -> Listed(a[1], LAMBDA s :
                         Listed(a[2], LAMBDA t : Ok(set_of_normalized(Range(s) \cup Range(t)))))
    [] op = "exclude" ->
         Listed(a[1], LAMBDA s : Ok(Set(SelectSeq(s, LAMBDA e : ~set_contains(a[2], e)))))
    [] op = "intersect" ->
         Listed(a[1], LAMBDA s : Ok(Set(SelectSeq(s, LAMBDA e : set_contains(a[2], e)))))
    [] op = "size" -> IF HasNoEnd(a[1]) THEN Err("QNT501") ELSE Ok(Int64(set_cardinality(a[1])))
    [] op = "to" -> Ok(IF Data(a[1]) > Data(a[2]) THEN Set(<< >>)
                       ELSE Interval(Data(a[1]), Data(a[2])))
    [] op = "powerset" -> Ok(PowerSet(a[1]))
    [] op = "isFinite" -> Ok(TRUEV)
    [] op = "flatten" ->
         Listed(a[1], LAMBDA s :
           IfOk([i \in DOMAIN s |-> Listed(s[i], Ok)],
                LAMBDA ts : Ok(set_of_normalized(UNION {Range(ts[i]) : i \in DOMAIN ts}))))
    [] op = "setToMap" ->
         Listed(a[1], LAMBDA s : Ok(map_of_normalized([i \in DOMAIN s |-> Data(s[i])])))
    [] op = "tuples" -> Ok(CrossProduct(a))
    [] op = "chooseSome" -> Listed(a[1], LAMBDA s : IF s = << >> THEN Err("QNT505") ELSE Ok(Head(s)))
    [] op = "getOnlyElement" ->
         Listed(a[1], LAMBDA s : IF Len(s) # 1 THEN Err("QNT505") ELSE Ok(Head(s)))

MapOps == {"get", "set", "put", "keys", "setOfMaps"}

map_op(op, a) ==
  CASE op = "get" -> Normalized(<<a[2]>>, LAMBDA k :
                       IF HasKey(a[1], k[1]) THEN Ok(map_get(a[1], k[1])) ELSE Err("QNT507"))
    [] op \in {"set", "put"} ->
         Normalized(<<a[2], a[3]>>, LAMBDA kv :
           IF op = "set" /\ ~HasKey(a[1], kv[1]) THEN Err("QNT507")
           ELSE Ok(map_update(a[1], kv[1], kv[2])))
    [] op = "keys" -> Ok(Set([i \in DOMAIN Data(a[1]) |-> Data(a[1])[i][1]]))
    [] op = "setOfMaps" -> Ok(MapSet(a[1], a[2]))

RecordOps == {"field", "with", "fieldNames"}

record_op(op, a) ==
  LET fields == Data(a[1])
      i == CHOOSE j \in DOMAIN fields : fields[j][1] = a[2]
  IN  CASE op = "field" -> Ok(fields[i][2])
        [] op = "with" -> Normalized(<<a[3]>>, LAMBDA v : Ok(Record([fields EXCEPT ![i][2] = v[1]])))
        [] op = "fieldNames" -> Ok(set_of_normalized({fields[j][1] : j \in DOMAIN fields}))

eager_op(op, a) ==
  CASE op \in Constructors -> constructor(op, a)
    [] op \in Arithmetic -> arithmetic(op, a)
    [] op \in Comparisons -> Ok(Bool(compare(op, a[1], a[2])))
    [] op \in ListOps -> list_op(op, a)
    [] op \in SetOps -> set_op(op, a)
    [] op \in MapOps -> map_op(op, a)
    [] op = "eq" -> Ok(Bool(values_eq(a[1], a[2])))
    [] op = "neq" -> Ok(Bool(~values_eq(a[1], a[2])))
    [] op \in {"not", "fail"} -> Ok(Bool(~Data(a[1])))
    [] op = "range" -> Ok(List([i \in 1 .. Data(a[2]) - Data(a[1]) |-> Int64(Data(a[1]) + i - 1)]))
    [] op \in RecordOps -> record_op(op, a)
    [] op = "assert" -> IF Data(a[1]) THEN Ok(TRUEV) ELSE Err("QNT508")

-----------------------------------------------------------------------------
(***************************************************************************)
(* Loops: the lambda, always the last argument, is applied to one item     *)
(* after the other, and its results are gathered in an accumulator.        *)
(***************************************************************************)
Folds3 == {"fold", "foldl", "foldr"}

HoOps == Folds3 \cup {"exists", "forall", "map", "filter", "select", "mapBy", "setBy", "reps"}

LoopItems(op, a) ==
  CASE op = "foldl" \/ op = "select" -> Ok(Data(a[1]))
    [] op = "foldr" -> Ok(Reverse(Data(a[1])))
    [] op = "reps" -> Ok([i \in 1 .. Data(a[1]) |-> Int64(i - 1)])
    [] op = "setBy" -> Normalized(<<a[2]>>, LAMBDA k :
                         IF HasKey(a[1], k[1]) THEN Ok(<<map_get(a[1], k[1])>>) ELSE Err("QNT507"))
    [] OTHER -> Listed(a[1], Ok)

LoopInit(op, a) ==
  CASE op \in Folds3 -> a[2]
    [] op = "exists" -> FALSEV
    [] op \in {"forall", "reps"} -> TRUEV
    [] OTHER -> List(<< >>)

LoopArgs(op, item, acc) ==
  CASE op = "foldr" -> <<item, acc>>
    [] op \in Folds3 -> <<acc, item>>
    [] OTHER -> <<item>>

LoopStops(op, v) == <<op, v>> \in {<<"exists", TRUEV>>, <<"forall", FALSEV>>}

LoopNext(op, item, acc, v) ==
  LET With(w) == Ok(List(Append(Data(acc), w)))
  IN  CASE op \in {"map", "setBy"} -> Normalized(<<v>>, LAMBDA w : With(w[1]))
        [] op = "mapBy" -> Normalized(<<v>>, LAMBDA w : With(<<item, w[1]>>))
        [] op \in {"filter", "select"} -> IF v = TRUEV THEN With(item) ELSE Ok(acc)
        [] op = "reps" /\ v # TRUEV -> Err("QNT513")
        [] OTHER -> Ok(v)

LoopResult(op, a, acc) ==
  CASE op = "map" -> set_of_normalized(Range(Data(acc)))
    [] op = "filter" -> Set(Data(acc))
    [] op = "mapBy" -> Map(Data(acc))
    [] op = "setBy" -> map_update(a[1], normal_form(a[2]), Data(acc)[1])
    [] OTHER -> acc

=============================================================================
