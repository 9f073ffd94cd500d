------------------------------ MODULE ValuesCheck ------------------------------
(***************************************************************************)
(* What the operations on values should answer.  A set, listed or          *)
(* symbolic, stands for the elements that Den gives it by definition, and  *)
(* whatever is answered by its structure is compared with those.  The      *)
(* samples are pairs of values; the store that interns them (ValueStore)   *)
(* and the memo of map updates (UpdateMemo) run on their own.              *)
(***************************************************************************)
EXTENDS SymbolicSets, ValueStore, UpdateMemo

CONSTANT Samples     \* values; the sets among them are finite

StoreRuns == <<"store", 0>>
MemoRuns == <<"memo", 0>>

VARIABLES x, y

CheckInit ==
  /\ Init
  /\ MemoInit
  /\ \/ x \in {StoreRuns, MemoRuns} /\ y = x
     \/ x \in Samples /\ y \in Samples

CheckNext ==
  \/ x = StoreRuns /\ Next /\ UNCHANGED <<memoVars, x, y>>
  \/ x = MemoRuns /\ MemoNext /\ UNCHANGED <<vars, x, y>>

CheckSpec == CheckInit /\ [][CheckNext]_<<vars, memoVars, x, y>>

-----------------------------------------------------------------------------
RECURSIVE Den(_), Tuples(_)

Tuples(sets) ==
  IF sets = << >> THEN {<< >>}
  ELSE {<<e>> \o rest : e \in Den(Head(sets)), rest \in Tuples(Tail(sets))}

\* The map value of a function.
MapOf(f) ==
  LET keys == Sorted(DOMAIN f) IN Map([i \in DOMAIN keys |-> <<keys[i], f[keys[i]]>>])

\* The elements a set stands for.
Den(v) ==
  CASE v[1] = "set" -> Range(Data(v))
    [] v[1] = "interval" -> {Int64(n) : n \in Data(v)[1] .. Data(v)[2]}
    [] v[1] = "cross" -> {Tuple(t) : t \in Tuples(Data(v))}
    [] v[1] = "powerset" -> {set_of_normalized(S) : S \in SUBSET Den(Data(v))}
    [] v[1] = "mapset" -> {MapOf(f) : f \in [Den(Data(v)[1]) -> Den(Data(v)[2])]}

\* Is a set empty that it is made of, directly or through others?
RECURSIVE HasEmptyPart(_)
HasEmptyPart(v) ==
  LET Bad(p) == Den(p) = {} \/ HasEmptyPart(p)
  IN  CASE v[1] \in {"cross", "mapset"} -> \E i \in DOMAIN Data(v) : Bad(Data(v)[i])
        [] v[1] = "powerset" -> Bad(Data(v))
        [] OTHER -> FALSE

(***************************************************************************)
(* A set enumerates the elements it stands for, in order and each once,    *)
(* and says how many they are.  The elements are picked by indices below   *)
(* the bounds, as oneOf picks them, which must use every index.            *)
(***************************************************************************)
EnumerationIsExact ==
  IsSet(x) /\ ~IsErr(Enumerable(x)) =>
    LET elements == enumerate(x)
    IN  /\ Range(elements) = Den(x)
        /\ cardinality(x) = Len(elements)
        /\ \A i \in 2 .. Len(elements) : value_cmp(elements[i - 1], elements[i]) = -1
        /\ \A ix \in Indices(bounds(x)) : cardinality(x) > 0 => pick(x, ix).rest = << >>

(***************************************************************************)
(* Membership and equality are answered without enumerating as the         *)
(* elements would answer.  Inclusion is never granted wrongly, and never   *)
(* refused wrongly unless a part of one of the sets is empty.              *)
(***************************************************************************)
AnswersByStructure ==
  IsSet(x) =>
    /\ ~IsSymbolic(y) => (contains(x, y) <=> y \in Den(x))
    /\ IsSet(y) =>
         /\ value_eq(x, y) <=> Den(x) = Den(y)
         /\ subseteq(x, y) => Den(x) \subseteq Den(y)
         /\ Den(x) \subseteq Den(y) =>
               subseteq(x, y) \/ HasEmptyPart(x) \/ HasEmptyPart(y)

\* Tuples are compared with tuples of their type: nothing else is well-typed.
SameTuples(v, w) ==
  v[1] = "tuple" /\ w[1] = "tuple" =>
    /\ Len(Data(v)) = Len(Data(w))
    /\ \A i \in DOMAIN Data(v) : Data(v)[i][1] = Data(w)[i][1]

Ordered(v, w) == ~IsSymbolic(v) /\ ~IsSymbolic(w) /\ SameTuples(v, w)

\* value_cmp's debug_assert on two values with distinct keys.
KeysAgree(v, w) ==
  v # w /\ OrderKey(v) # OrderKey(w) /\ NoOrderKey \notin {OrderKey(v), OrderKey(w)} =>
    value_cmp(v, w) = value_cmp_deep(TRUE, v, w)

\* A pair whose key has both integers beside one whose key has not.
Straddle(v, w) == v[1] = "tuple" /\ w[1] = "tuple" /\ ExactPair(v) # ExactPair(w)

\* The order keys of two values decide as comparing the values would.
KeysDecideAlike == x \in Samples /\ Ordered(x, y) /\ ~Straddle(x, y) => KeysAgree(x, y)

\* Two values are ordered one way, and alike only if they are one value, and what is less
\* than a lesser one is less.
OrderIsTotal ==
  x \in Samples /\ Ordered(x, y) =>
    /\ value_cmp(x, y) = -value_cmp(y, x)
    /\ value_cmp(x, y) = 0 <=> x = y
    /\ value_cmp(x, y) = -1 =>
         \A z \in Samples : Ordered(y, z) /\ Ordered(x, z) /\ value_cmp(y, z) = -1
                              => value_cmp(x, z) = -1

(***************************************************************************)
(* value.rs:293-298: two distinct keys decide as comparing the values      *)
(* would, except between pairs that straddle.  value.rs:957-962: even so   *)
(* the order is total, so that the sorted list of a set's elements is one  *)
(* list however they were given.                                           *)
(***************************************************************************)
OrderIsSound == KeysDecideAlike /\ OrderIsTotal

=============================================================================
