-------------------------------- MODULE Values --------------------------------
(***************************************************************************)
(* The values of the evaluator: scalars, containers in a canonical form    *)
(* (sorted, no duplicates, so that equal values are the same value), and   *)
(* symbolic sets, which stand for their elements without listing them.     *)
(*                                                                         *)
(* A value is a tuple whose first component names its variant.  Strings    *)
(* and labels are numbers in the order of the strings they stand for.  A   *)
(* result is Ok of a value or Err of an error code.                        *)
(***************************************************************************)
EXTENDS Integers, Sequences, FiniteSets, SequencesExt

Bool(x) == <<"bool", x>>
Int64(n) == <<"int", n>>
Str(n) == <<"str", n>>
Set(s) == <<"set", s>>              \* s: a sorted sequence
Tuple(s) == <<"tuple", s>>
List(s) == <<"list", s>>
Record(s) == <<"record", s>>        \* s: pairs <<name, value>>, by name
Map(s) == <<"map", s>>              \* s: pairs <<key, value>>, by key
Variant(label, v) == <<"variant", <<label, v>>>>
Interval(a, b) == <<"interval", <<a, b>>>>
CrossProduct(s) == <<"cross", s>>
PowerSet(v) == <<"powerset", v>>
MapSet(d, r) == <<"mapset", <<d, r>>>>
InfiniteInt == <<"Int", 0>>
InfiniteNat == <<"Nat", 0>>

Data(v) == v[2]

TRUEV == Bool(TRUE)
FALSEV == Bool(FALSE)

Ok(v) == <<"ok", v>>
Err(code) == <<"err", code>>
IsErr(r) == r[1] = "err"

SymbolicForms == {"interval", "cross", "powerset", "mapset", "Int", "Nat"}

IsSymbolic(v) == v[1] \in SymbolicForms

IsSet(v) == v[1] = "set" \/ IsSymbolic(v)

discriminant_rank ==
  [bool |-> 0, int |-> 1, str |-> 2, set |-> 3, tuple |-> 4, list |-> 5,
   record |-> 6, map |-> 7, variant |-> 8, lambda |-> 9, interval |-> 10,
   cross |-> 11, powerset |-> 12, mapset |-> 13, Int |-> 14, Nat |-> 15]

Rank(v) == discriminant_rank[v[1]]

-----------------------------------------------------------------------------
(***************************************************************************)
(* Order keys.  A key is a byte for the variant and seven for the leading  *)
(* part of the value; here a byte is Byte and the seven are two (Body).    *)
(* Integers beyond IntMin .. IntMax saturate (2^54 in the code), and a     *)
(* pair of integers within PairMin .. PairMax (2^27) has both exactly; any *)
(* other tuple has the beginning of the key of its first element.          *)
(***************************************************************************)
Byte == 16
Body == Byte * Byte
IntMin == -(Body \div 4)
IntMax == Body \div 4 - 1
PairMin == -(Byte \div 2)
PairMax == Byte \div 2 - 1

NoOrderKey == -1

Prefix7(n) == n \div 2       \* two strings may share their first 7 bytes

Clamp(n) == IF n < IntMin THEN IntMin ELSE IF n > IntMax THEN IntMax ELSE n

SmallInt(v) == v[1] = "int" /\ Data(v) \in PairMin .. PairMax

RECURSIVE OrderKey(_)

\* Mutant: the child's last bytes are taken instead of its first.
ChildKeyLow(v, first) ==
  Rank(v) * Body + (IF Data(v) = << >> THEN 0 ELSE OrderKey(first[1]) % Body)

\* The part of a key that a container takes from its first child.
ChildKey(v, first) ==
  Rank(v) * Body + (IF Data(v) = << >> THEN 0 ELSE OrderKey(first[1]) \div Byte)

ExactPair(v) ==
  v[1] = "tuple" /\ Len(Data(v)) = 2 /\ \A i \in 1 .. 2 : SmallInt(Data(v)[i])

OrderKey(v) ==
  CASE v[1] = "bool" -> IF Data(v) THEN Byte ELSE 0
    [] v[1] = "int" -> Rank(v) * Body + (Clamp(Data(v)) - IntMin)
    [] v[1] = "str" -> Rank(v) * Body + Prefix7(Data(v))
    [] ExactPair(v) ->
         Rank(v) * Body + (Data(Data(v)[1]) - PairMin) * Byte + (Data(Data(v)[2]) - PairMin)
    [] v[1] \in {"set", "list", "tuple"} -> ChildKey(v, Data(v))
    [] v[1] = "map" -> ChildKey(v, Data(v)[1])
    [] v[1] = "record" -> Rank(v) * Body
         + (IF Data(v) = << >> THEN 0 ELSE Prefix7(Data(Data(v)[1][1])))
    [] v[1] = "variant" -> Rank(v) * Body + Prefix7(Data(v)[1])
    [] OTHER -> NoOrderKey

(***************************************************************************)
(* The structural order of normalized values: -1, 0 or 1.  With keyed, two *)
(* distinct keys decide without looking at the values (value_cmp); without *)
(* it, the values are compared to the end, which is what the keys stand    *)
(* for.  Hash-consing makes equal values one value.                        *)
(***************************************************************************)
CompareInt(m, n) == IF m < n THEN -1 ELSE IF m > n THEN 1 ELSE 0

RECURSIVE Compare(_, _, _)

\* Mutant: of two lists with a common beginning neither is the smaller one.
CmpBeginnings(keyed, s, t) ==
  LET common == {i \in DOMAIN s \cap DOMAIN t : s[i] # t[i]}
  IN  IF common = {} THEN 0
      ELSE LET i == CHOOSE j \in common : \A k \in common : j <= k
           IN  Compare(keyed, s[i], t[i])

cmp_slices(keyed, s, t) ==
  LET common == {i \in DOMAIN s \cap DOMAIN t : s[i] # t[i]}
  IN  IF common = {} THEN CompareInt(Len(s), Len(t))
      ELSE LET i == CHOOSE j \in common : \A k \in common : j <= k
           IN  Compare(keyed, s[i], t[i])

\* Keys and values alternately, as the entries are compared.
Entries(m) == FlattenSeq(m)

value_cmp_deep(keyed, v, w) ==
  CASE v[1] # w[1] -> CompareInt(Rank(v), Rank(w))
    [] v[1] = "bool" -> IF Data(w) THEN -1 ELSE 1
    [] v[1] \in {"int", "str"} -> CompareInt(Data(v), Data(w))
    [] v[1] \in {"set", "tuple", "list"} -> cmp_slices(keyed, Data(v), Data(w))
    [] v[1] \in {"record", "map"} -> cmp_slices(keyed, Entries(Data(v)), Entries(Data(w)))
    [] v[1] = "variant" ->
         IF Data(v)[1] # Data(w)[1] THEN CompareInt(Data(v)[1], Data(w)[1])
         ELSE Compare(keyed, Data(v)[2], Data(w)[2])

Compare(keyed, v, w) ==
  IF v = w THEN 0
  ELSE LET Decide(kv, kw) == IF keyed /\ kv # kw /\ NoOrderKey \notin {kv, kw}
                             THEN CompareInt(kv, kw)
                             ELSE value_cmp_deep(keyed, v, w)
       IN  Decide(OrderKey(v), OrderKey(w))

value_cmp(v, w) == Compare(TRUE, v, w)

-----------------------------------------------------------------------------
(***************************************************************************)
(* Canonical containers.                                                   *)
(***************************************************************************)
RECURSIVE Sorted(_)

\* sort_values_structural and dedup: the elements of a finite set in order.
Sorted(S) ==
  IF S = {} THEN << >>
  ELSE LET From(least) == <<least>> \o Sorted(S \ {least})
       IN  From(CHOOSE v \in S : \A w \in S : value_cmp(v, w) <= 0)

set_of_normalized(S) == Set(Sorted(S))

\* The last of two entries with one key wins.
map_of_normalized(s) ==
  LET keys == Sorted({s[i][1] : i \in DOMAIN s})
      Last1(k) == CHOOSE i \in DOMAIN s :
                    s[i][1] = k /\ \A j \in DOMAIN s : s[j][1] = k => j <= i
  IN  Map([n \in DOMAIN keys |-> <<keys[n], s[Last1(keys[n])][2]>>])

\* The positions of a key: one, or none.
map_find(m, k) == {i \in DOMAIN Data(m) : Data(m)[i][1] = k}

HasKey(m, k) == map_find(m, k) # {}

map_get(m, k) == Data(m)[CHOOSE i \in map_find(m, k) : TRUE][2]

\* `put', and `set' where the key exists.
map_update(m, k, v) == map_of_normalized(Append(Data(m), <<k, v>>))

=============================================================================
