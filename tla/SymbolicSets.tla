----------------------------- MODULE SymbolicSets -----------------------------
(***************************************************************************)
(* Operations on sets that are not listed: intervals, cross products,      *)
(* powersets and sets of maps answer cardinality, membership and inclusion *)
(* by their structure; an element is picked by a sequence of indices, one  *)
(* per bound, and enumeration picks every element and sorts.               *)
(***************************************************************************)
EXTENDS Values

MAX_ENUM == 64      \* 2^20 in the code

RECURSIVE IsInfinite(_), cardinality(_), contains(_, _), bounds(_), pick(_, _),
          PickEach(_, _, _), PickMap(_, _, _), enumerate(_), subseteq(_, _)

\* The sets whose cardinality is refused: some part of them is infinite.
IsInfinite(v) ==
  CASE v[1] \in {"Int", "Nat"} -> TRUE
    [] v[1] = "cross" -> \E i \in DOMAIN Data(v) : IsInfinite(Data(v)[i])
    [] v[1] = "powerset" -> IsInfinite(Data(v))
    [] v[1] = "mapset" -> IsInfinite(Data(v)[1]) \/ IsInfinite(Data(v)[2])
    [] OTHER -> FALSE

cardinality(v) ==
  CASE v[1] = "interval" -> Data(v)[2] - Data(v)[1] + 1
    [] v[1] = "cross" -> FoldLeft(LAMBDA n, s : n * cardinality(s), 1, Data(v))
    [] v[1] = "powerset" -> 2 ^ cardinality(Data(v))
    [] v[1] = "mapset" -> IF cardinality(Data(v)[1]) = 0 THEN 1
                          ELSE cardinality(Data(v)[2]) ^ cardinality(Data(v)[1])
    [] OTHER -> Len(Data(v))

(***************************************************************************)
(* bounds: how many indices pick takes, and how many values each has.      *)
(***************************************************************************)
bounds(v) ==
  CASE v[1] = "cross" -> [i \in DOMAIN Data(v) |-> cardinality(Data(v)[i])]
    [] v[1] = "mapset" ->
         FlattenSeq([i \in 1 .. cardinality(Data(v)[1]) |-> bounds(Data(v)[2])])
    [] OTHER -> <<cardinality(v)>>

(***************************************************************************)
(* pick: the element at the given indices, and the indices not used.       *)
(* Too few of them, or one out of bounds, is a panic of the code.          *)
(***************************************************************************)
Panic == <<"panic", 0>>

Picked(v, rest) == [v |-> v, rest |-> rest]

normalize(v) == IF IsSymbolic(v) THEN Set(enumerate(v)) ELSE v

\* The elements picked from each of a sequence of sets, one after the other.
PickEach(sets, picked, idx) ==
  LET Next(p) == PickEach(Tail(sets), Append(picked, p.v), p.rest)
  IN  IF sets = << >> THEN Picked(picked, idx) ELSE Next(pick(Head(sets), idx))

AnyPanic(s) == \E i \in DOMAIN s : s[i] = Panic

\* Mutant: an element's bit is the one of the next.
SubsetShifted(s, n) ==
  Set(SelectSeq(s, LAMBDA e : LET j == CHOOSE i \in DOMAIN s : s[i] = e
                              IN  (n \div 2 ^ j) % 2 = 1))

\* The elements of a sorted sequence whose bit is set in n.
SubsetAt(s, n) ==
  Set(SelectSeq(s, LAMBDA e : LET j == CHOOSE i \in DOMAIN s : s[i] = e
                              IN  (n \div 2 ^ (j - 1)) % 2 = 1))

PickMap(d, r, idx) ==
  LET range == IF r[1] = "mapset" THEN Set(enumerate(r)) ELSE r
      Build(keys, vals) ==
        IF AnyPanic(vals.v) THEN Picked(Panic, << >>)
        ELSE Picked(map_of_normalized([i \in DOMAIN keys |-> <<keys[i], normalize(vals.v[i])>>]),
                    vals.rest)
      Picks(keys) == Build(keys, PickEach([i \in DOMAIN keys |-> range], << >>, idx))
  IN  Picks(enumerate(d))

pick(v, idx) ==
  CASE v[1] = "cross" ->
         LET Build(es) == IF AnyPanic(es.v) THEN Picked(Panic, << >>)
                          ELSE Picked(Tuple([i \in DOMAIN es.v |-> normalize(es.v[i])]), es.rest)
         IN  Build(PickEach(Data(v), << >>, idx))
    [] v[1] = "mapset" ->
         IF cardinality(Data(v)[1]) = 0 THEN Picked(Map(<< >>), idx)
         ELSE PickMap(Data(v)[1], Data(v)[2], idx)
    [] idx = << >> -> Picked(Panic, << >>)
    [] v[1] = "set" -> Picked(IF Head(idx) < Len(Data(v)) THEN Data(v)[Head(idx) + 1] ELSE Panic,
                              Tail(idx))
    [] v[1] = "interval" -> Picked(Int64(Data(v)[1] + Head(idx)), Tail(idx))
    [] v[1] = "powerset" -> Picked(SubsetAt(enumerate(Data(v)), Head(idx)), Tail(idx))

(***************************************************************************)
(* enumerate: every element of a finite set, in order.                     *)
(***************************************************************************)
RECURSIVE Indices(_)

\* The sequences of indices below the bounds (the mixed-radix counter).
Indices(bs) ==
  IF bs = << >> THEN {<< >>}
  ELSE {<<i>> \o rest : i \in 0 .. Head(bs) - 1, rest \in Indices(Tail(bs))}

enumerate(v) ==
  IF v[1] = "set" THEN Data(v)
  ELSE IF cardinality(v) = 0 THEN << >>
  ELSE LET InOrder(picks) == IF Panic \in picks THEN <<Panic>>
                             ELSE Sorted({normalize(p) : p \in picks})
       IN  InOrder({pick(v, ix).v : ix \in Indices(bounds(v))})

\* The error of an operation that needs the elements, if there is one.
Enumerable(v) ==
  CASE IsInfinite(v) -> Err("QNT501")
    [] cardinality(v) > MAX_ENUM /\ v[1] # "set" -> Err("QNT501")
    [] OTHER -> Ok(v)

(***************************************************************************)
(* value_eq and contains; the element is normalized.                       *)
(***************************************************************************)
value_eq(v, w) ==
  \/ v = w
  \/ /\ IsSymbolic(v) \/ IsSymbolic(w)
     /\ {v, w} \cap {InfiniteInt, InfiniteNat} = {}
     /\ IF v[1] = "interval" /\ w[1] = "interval"
        THEN \/ Data(v)[1] > Data(v)[2] /\ Data(w)[1] > Data(w)[2]
             \/ Data(v) = Data(w)
        ELSE /\ IsSet(v) /\ IsSet(w)
             /\ cardinality(v) = cardinality(w)
             /\ enumerate(v) = enumerate(w)

\* Mutant: the keys of a map are not looked at.
ContainsAnyKeys(v, e) ==
  CASE v[1] = "set" -> e \in Range(Data(v))
    [] v[1] = "interval" -> e[1] = "int" /\ Data(v)[1] <= Data(e) /\ Data(e) <= Data(v)[2]
    [] v[1] = "mapset" -> e[1] = "map" /\ \A i \in DOMAIN Data(e) : contains(Data(v)[2], Data(e)[i][2])
    [] OTHER -> e \in Range(enumerate(v))

contains(v, e) ==
  CASE v[1] = "set" -> e \in Range(Data(v))
    [] v[1] = "interval" -> e[1] = "int" /\ Data(v)[1] <= Data(e) /\ Data(e) <= Data(v)[2]
    [] v[1] = "cross" -> /\ e[1] = "tuple"
                         /\ Len(Data(e)) = Len(Data(v))
                         /\ \A i \in DOMAIN Data(v) : contains(Data(v)[i], Data(e)[i])
    [] v[1] = "powerset" -> e[1] = "set" /\ \A i \in DOMAIN Data(e) : contains(Data(v), Data(e)[i])
    [] v[1] = "mapset" -> /\ e[1] = "map"
                          /\ value_eq(Set([i \in DOMAIN Data(e) |-> Data(e)[i][1]]), Data(v)[1])
                          /\ \A i \in DOMAIN Data(e) : contains(Data(v)[2], Data(e)[i][2])
    [] v[1] = "Int" -> e[1] = "int"
    [] v[1] = "Nat" -> e[1] = "int" /\ Data(e) >= 0

(***************************************************************************)
(* subseteq: two sets of one form are compared part by part.               *)
(***************************************************************************)
subseteq(v, w) ==
  CASE v[1] = "interval" /\ w[1] = "interval" ->
         \/ Data(v)[1] > Data(v)[2]
         \/ Data(v)[1] >= Data(w)[1] /\ Data(v)[2] <= Data(w)[2]
    [] v[1] = "cross" /\ w[1] = "cross" ->
         /\ Len(Data(v)) = Len(Data(w))
         /\ \A i \in DOMAIN Data(v) : subseteq(Data(v)[i], Data(w)[i])
    [] v[1] = "powerset" /\ w[1] = "powerset" -> subseteq(Data(v), Data(w))
    [] v[1] = "mapset" /\ w[1] = "mapset" ->
         value_eq(Data(v)[1], Data(w)[1]) /\ subseteq(Data(v)[2], Data(w)[2])
    [] v[1] \in {"Int", "Nat"} -> w = InfiniteInt \/ w = v
    [] OTHER -> \A i \in DOMAIN enumerate(v) : contains(w, enumerate(v)[i])

=============================================================================
