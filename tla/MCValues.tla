------------------------------- MODULE MCValues -------------------------------
(***************************************************************************)
(* Small values: scalars around the limits of the order keys, containers   *)
(* of every form with a common beginning, and sets of every form.          *)
(***************************************************************************)
EXTENDS ValuesCheck

CONSTANTS t1, t2, s1, s2

MCShardOf(d) == IF d.tag = "a" THEN s1 ELSE s2

MCMapId(m) == 7 + m[3]

Alike == Permutations(Threads)

I(n) == Int64(n)

Pair(m, n) == Tuple(<<I(m), I(n)>>)

Scalars ==
  {FALSEV, TRUEV} \cup {I(n) : n \in {-70, -65, -3, 0, 1, 2, 70, 71}} \cup {Str(n) : n \in 0 .. 2}

Listed == {Set(<< >>), Set(<<I(0)>>), Set(<<I(0), I(1)>>), Set(<<I(1), I(2)>>),
           Set(<<I(0), Str(1)>>), Set(<<Set(<< >>), Set(<<I(1)>>)>>)}

\* A key holds both integers of a pair from -8 to 7.
Pairs == {Pair(0, 1), Pair(1, -8), Pair(1, 7), Pair(1, 8), Pair(2, 7), Pair(2, 8), Pair(-7, 7),
          Pair(-8, 0), Pair(-9, 0), Pair(7, 7), Pair(8, 1), Pair(70, 1), Pair(71, 1), Pair(71, 2)}

Containers ==
  Pairs \cup
  {Tuple(<< >>), Tuple(<<TRUEV, I(1)>>), Tuple(<<TRUEV, I(0)>>),
   List(<<Pair(1, 8)>>), List(<<Pair(2, 0)>>), List(<<Pair(-8, 0), Pair(0, 0)>>),
   Tuple(<<I(1), I(0), I(2)>>), List(<< >>), List(<<I(70)>>), List(<<I(71), I(0)>>),
   List(<<Str(0), I(1)>>), List(<<Str(1)>>),
   Record(<<<<Str(0), I(1)>>>>), Record(<<<<Str(1), I(0)>>>>), Record(<<<<Str(1), I(1)>>>>),
   Map(<< >>), Map(<<<<I(0), I(1)>>>>), Map(<<<<I(0), I(1)>>, <<I(1), I(1)>>>>),
   Map(<<<<I(1), I(0)>>, <<I(2), I(1)>>>>),
   Variant(0, I(5)), Variant(1, I(1)), Variant(1, I(2)), Variant(2, I(0))}

\* `to' from a larger number gives the empty set, `indices' of an empty list the interval.
NoElements == Set(<< >>)
NoIndices == Interval(0, -1)

Intervals == {Interval(0, 1), Interval(0, 2), NoIndices}

Symbolic ==
  Intervals \cup
  {CrossProduct(<<Interval(0, 1), Set(<<I(1), I(2)>>)>>), CrossProduct(<<Interval(0, 2), Interval(0, 2)>>),
   CrossProduct(<<Interval(0, 1), PowerSet(Interval(0, 1))>>), CrossProduct(<<Interval(0, 1), NoElements>>),
   CrossProduct(<<NoIndices, Interval(0, 2)>>),
   CrossProduct(<<Interval(1, 1), Interval(0, 2), Interval(0, 1)>>),
   PowerSet(Interval(0, 2)), PowerSet(Set(<<I(0), I(1)>>)), PowerSet(NoElements), PowerSet(NoIndices),
   PowerSet(CrossProduct(<<Interval(0, 0), Interval(0, 1)>>)), PowerSet(PowerSet(Interval(0, 1))),
   PowerSet(MapSet(Interval(0, 1), Interval(0, 0))),
   MapSet(Interval(0, 1), Interval(0, 1)), MapSet(Set(<<I(0), I(1)>>), Interval(0, 2)),
   MapSet(Interval(1, 2), PowerSet(Interval(0, 1))),
   MapSet(Interval(0, 1), CrossProduct(<<Interval(0, 1), Set(<<I(1), I(2)>>)>>)),
   MapSet(NoElements, Interval(0, 1)), MapSet(NoIndices, Set(<<I(2)>>)),
   MapSet(Interval(0, 1), NoElements), MapSet(Interval(0, 2), NoIndices),
   MapSet(PowerSet(Interval(0, 0)), Set(<<I(1), I(2)>>))}

MCSamples == Scalars \cup Listed \cup Containers \cup Symbolic

\* A product of products, and of sets of maps.
NestedProducts == {CrossProduct(<<CrossProduct(<<Interval(0, 1), Interval(0, 1)>>), Interval(0, 1)>>),
                   CrossProduct(<<MapSet(Interval(0, 1), Interval(0, 1)), Interval(0, 1)>>)}

\* Sets of maps whose values are maps.
NestedMaps == {MapSet(Interval(0, 1), MapSet(Interval(0, 1), Interval(0, 1)))}

(***************************************************************************)
(* The exceptions that the properties make are wrong answers of the code,  *)
(* and are met: the debug_assert of value.rs:980 fails for two of Pairs    *)
(* (value.rs:326), inclusion is refused between sets of Symbolic one of    *)
(* which has an empty part (value.rs:1438), and an index is missing to     *)
(* pick from a product that has a product as a factor (value.rs:1525).     *)
(***************************************************************************)
ASSUME ExceptionsAreMet ==
  /\ \E v, w \in Pairs : Straddle(v, w) /\ ~KeysAgree(v, w)
  /\ \E v, w \in Symbolic : Den(v) \subseteq Den(w) /\ ~subseteq(v, w)
  /\ \A s \in NestedProducts : \E ix \in Indices(bounds(s)) : pick(s, ix).v = Panic

=============================================================================
