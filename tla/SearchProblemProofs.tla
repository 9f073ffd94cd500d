------------------------- MODULE SearchProblemProofs -------------------------
(***************************************************************************)
(* Facts about the layers of a program: the recursive function Layers is   *)
(* well defined, and a property of layers that carries from one layer to   *)
(* the next holds of all of them.                                          *)
(***************************************************************************)
EXTENDS SearchProblem, ProofFacts, FiniteSetTheorems

(***************************************************************************)
(* What SearchAssumption says of one program.                              *)
(***************************************************************************)
LEMMA ModelFacts ==
  ASSUME NEW m \in Models
  PROVE  /\ m.init \in Seq(States)
         /\ m.initError \in BOOLEAN
         /\ m.step \in [States -> Seq(States)]
         /\ m.stepError \in SUBSET States
         /\ m.invs \in [States -> Verdicts]
         /\ WellFormed(m)
BY SearchAssumption DEF ModelType

\* What it says of one configuration.
LEMMA ConfigFacts ==
  ASSUME NEW c \in Configs
  PROVE  /\ c.deadlock \in BOOLEAN
         /\ c.maxSteps \in Int
         /\ c.maxSteps = NoBound \/ c.maxSteps \in Nat
         /\ c.maxStates \in Int
         /\ c.maxStates = NoBound \/ c.maxStates \in Nat
BY SearchAssumption DEF ConfigType, NoBound

\* A list of states holds states.
LEMMA RangeInStates ==
  ASSUME NEW q \in Seq(States)
  PROVE  Range(q) \subseteq States
BY DEF Range

(***************************************************************************)
(* The defining equations of Layers.  A function that satisfies them is    *)
(* given by the walks of each length; hence so does the chosen one.        *)
(***************************************************************************)
LEMMA LayersEquations ==
  ASSUME NEW m \in Models
  PROVE  /\ Layer(m, 0) = Range(m.init)
         /\ \A n \in Nat : Layer(m, n + 1) = Image(m, Layer(m, n))
<1> DEFINE Roots == Range(m.init)
    Next(s) == Range(m.step[s])
    Walks(n) ==
      {w \in [0 .. n -> States] :
         w[0] \in Roots /\ \A i \in 1 .. n : w[i] \in Next(w[i - 1])}
    Ends(n) == {w[n] : w \in Walks(n)}
    Body(f) == [n \in Nat |-> IF n = 0 THEN Range(m.init) ELSE Image(m, f[n - 1])]
    f == [n \in Nat |-> Ends(n)]
<1>0. Roots \subseteq States /\ \A s \in States : Next(s) \subseteq States
  BY ModelFacts, RangeInStates
<1> HIDE DEF Roots, Next
<1>1. Ends(0) = Roots
  <2>1. ASSUME NEW s \in Roots PROVE s \in Ends(0)
    <3>1. [i \in 0 .. 0 |-> s] \in Walks(0)
      BY <1>0
    <3>2. QED
      BY <3>1
  <2>2. QED
    BY <2>1
<1>2. ASSUME NEW n \in Nat PROVE Ends(n + 1) = UNION {Next(s) : s \in Ends(n)}
  <2>1. ASSUME NEW w \in Walks(n + 1) PROVE \E s \in Ends(n) : w[n + 1] \in Next(s)
    <3> DEFINE v == [i \in 0 .. n |-> w[i]]
    <3>1. v \in [0 .. n -> States]
      OBVIOUS
    <3>2. v[0] \in Roots
      OBVIOUS
    <3>3. ASSUME NEW i \in 1 .. n PROVE v[i] \in Next(v[i - 1])
      <4>1. i \in 1 .. n + 1 /\ i \in 0 .. n /\ i - 1 \in 0 .. n
        OBVIOUS
      <4>2. w[i] \in Next(w[i - 1])
        BY <4>1
      <4>3. QED
        BY <4>1, <4>2
    <3>4. v[n] \in Ends(n)
      BY <3>1, <3>2, <3>3
    <3>5. n + 1 \in 1 .. n + 1 /\ (n + 1) - 1 = n /\ v[n] = w[n]
      OBVIOUS
    <3>6. w[n + 1] \in Next(v[n])
      BY <3>5
    <3>7. QED
      BY <3>4, <3>6
  <2>2. ASSUME NEW v \in Walks(n), NEW s \in Next(v[n])
        PROVE  s \in Ends(n + 1)
    <3> DEFINE w == [i \in 0 .. n + 1 |-> IF i = n + 1 THEN s ELSE v[i]]
    <3>0. s \in States
      BY <1>0
    <3>1. w \in [0 .. n + 1 -> States]
      BY <3>0
    <3>2. w[0] \in Roots
      OBVIOUS
    <3>3. ASSUME NEW i \in 1 .. n + 1 PROVE w[i] \in Next(w[i - 1])
      <4>1. CASE i = n + 1
        <5>1. w[i] = s /\ w[i - 1] = v[n]
          BY <4>1
        <5>2. QED
          BY <5>1
      <4>2. CASE i # n + 1
        <5>1. i \in 1 .. n /\ w[i] = v[i] /\ w[i - 1] = v[i - 1]
          BY <4>2
        <5>2. v[i] \in Next(v[i - 1])
          BY <5>1
        <5>3. QED
          BY <5>1, <5>2
      <4>3. QED
        BY <4>1, <4>2
    <3>4. w[n + 1] = s
      OBVIOUS
    <3>5. w \in Walks(n + 1)
      BY <3>1, <3>2, <3>3
    <3> HIDE DEF w, Walks
    <3>6. QED
      BY <3>4, <3>5
  <2>3. ASSUME NEW s \in Ends(n + 1) PROVE \E t \in Ends(n) : s \in Next(t)
    <3>1. PICK w \in Walks(n + 1) : s = w[n + 1]
      OBVIOUS
    <3>2. QED
      BY <3>1, <2>1
  <2>4. ASSUME NEW t \in Ends(n), NEW s \in Next(t) PROVE s \in Ends(n + 1)
    <3>1. PICK v \in Walks(n) : t = v[n]
      OBVIOUS
    <3>2. QED
      BY <3>1, <2>2
  <2> HIDE DEF Ends
  <2>5. QED
    BY <2>3, <2>4
<1>3. f = Body(f)
  <2> HIDE DEF Ends
  <2>1. ASSUME NEW n \in Nat
        PROVE  f[n] = IF n = 0 THEN Range(m.init) ELSE Image(m, f[n - 1])
    <3>1. CASE n = 0
      BY <3>1, <1>1 DEF Roots
    <3>2. CASE n # 0
      <4>1. n - 1 \in Nat /\ (n - 1) + 1 = n
        BY <3>2
      <4>2. Ends(n) = UNION {Next(s) : s \in Ends(n - 1)}
        BY <4>1, <1>2
      <4>3. QED
        BY <3>2, <4>1, <4>2 DEF Image, Next
    <3>3. QED
      BY <3>1, <3>2
  <2>2. QED
    BY <2>1
<1>4. Layers(m) = Body(Layers(m))
  <2>1. Layers(m) = CHOOSE g : g = Body(g)
    BY DEF Layers
  <2>2. \E g : g = Body(g)
    <3> HIDE DEF Body, f
    <3>1. QED
      BY <1>3
  <2> HIDE DEF Body
  <2>3. QED
    BY <2>1, <2>2, Zenon
<1>5. QED
  <2> HIDE DEF f
  <2>1. Layers(m)[0] = Range(m.init)
    BY <1>4
  <2>2. ASSUME NEW n \in Nat PROVE Layers(m)[n + 1] = Image(m, Layers(m)[n])
    <3>1. n + 1 \in Nat /\ n + 1 # 0 /\ (n + 1) - 1 = n
      OBVIOUS
    <3>2. QED
      BY <1>4, <3>1
  <2>3. QED
    BY <2>1, <2>2 DEF Layer

(***************************************************************************)
(* Layers hold states.                                                     *)
(***************************************************************************)
LEMMA LayersInStates ==
  ASSUME NEW m \in Models, NEW n \in Nat
  PROVE  Layer(m, n) \subseteq States
<1> DEFINE Bad == {k \in Nat : ~ (Layer(m, k) \subseteq States)}
<1>1. SUFFICES ASSUME Bad # {} PROVE FALSE
  OBVIOUS
<1>2. PICK k \in Bad : \A j \in Bad : k <= j
  <2>1. Bad \in SUBSET Nat
    OBVIOUS
  <2> HIDE DEF Bad
  <2>2. QED
    BY <1>1, <2>1, LeastNumber
<1>3. k # 0
  BY <1>2, LayersEquations, ModelFacts, RangeInStates
<1>4. k - 1 \in Nat /\ (k - 1) + 1 = k /\ k - 1 \notin Bad
  BY <1>2, <1>3
<1>5. Layer(m, k) = Image(m, Layer(m, k - 1))
  BY <1>4, LayersEquations
<1>6. ASSUME NEW s \in Layer(m, k - 1) PROVE Range(m.step[s]) \subseteq States
  <2>1. m.step[s] \in Seq(States)
    BY <1>4, ModelFacts
  <2>2. QED
    BY <2>1, RangeInStates
<1>7. QED
  BY <1>2, <1>5, <1>6 DEF Image

\* A successor of a state of one layer is in the next.
LEMMA LayersGoOn ==
  ASSUME NEW m \in Models, NEW n \in Nat, NEW s \in Layer(m, n)
  PROVE  Range(m.step[s]) \subseteq Layer(m, n + 1)
BY LayersEquations DEF Image

\* A state of one layer is a successor of one of the layer before.
LEMMA LayersComeFrom ==
  ASSUME NEW m \in Models, NEW n \in Nat, NEW s \in Layer(m, n + 1)
  PROVE  \E t \in Layer(m, n) : s \in Range(m.step[t])
BY LayersEquations DEF Image

(***************************************************************************)
(* The steps up to which the runs judge cover everything that can be       *)
(* reached.                                                                *)
(***************************************************************************)
HorizonSuffices ==
  \A m \in Models : \A n \in Nat :
    \A s \in Layer(m, n) : \E k \in 0 .. Horizon : k <= n /\ s \in Layer(m, k)

(***************************************************************************)
(* They do if there are no more states than that: a state at distance k    *)
(* has a state at each smaller distance before it.                         *)
(***************************************************************************)
LEMMA HorizonOfStates ==
  ASSUME IsFiniteSet(States), Cardinality(States) <= Horizon + 1
  PROVE  HorizonSuffices
<1> SUFFICES ASSUME NEW m \in Models, NEW n \in Nat, NEW s \in Layer(m, n)
             PROVE  \E k \in 0 .. Horizon : k <= n /\ s \in Layer(m, k)
  BY DEF HorizonSuffices
<1> DEFINE At == {k \in Nat : s \in Layer(m, k)}
           IsNew(k, x) == x \in Layer(m, k) /\ \A i \in 0 .. k - 1 : x \notin Layer(m, i)
<1>1. PICK k \in At : \A j \in At : k <= j
  <2>1. At \in SUBSET Nat /\ At # {}
    OBVIOUS
  <2> HIDE DEF At
  <2>2. QED
    BY <2>1, LeastNumber
<1>2. k \in Nat /\ k <= n /\ IsNew(k, s)
  BY <1>1
<1>3. ASSUME NEW j \in Nat, NEW x, IsNew(j + 1, x) PROVE \E y : IsNew(j, y)
  <2>1. PICK y \in Layer(m, j) : x \in Range(m.step[y])
    BY <1>3, LayersComeFrom
  <2>2. ASSUME NEW i \in 0 .. j - 1 PROVE y \notin Layer(m, i)
    <3>1. SUFFICES ASSUME y \in Layer(m, i) PROVE FALSE
      OBVIOUS
    <3>2. i \in Nat /\ i + 1 \in 0 .. (j + 1) - 1
      OBVIOUS
    <3>3. x \in Layer(m, i + 1)
      BY <2>1, <3>1, <3>2, LayersGoOn
    <3>4. QED
      BY <1>3, <3>2, <3>3
  <2>3. QED
    BY <2>1, <2>2
<1> DEFINE Gaps == {d \in Nat : d <= k /\ ~ \E x : IsNew(k - d, x)}
<1>4. Gaps = {}
  <2>1. SUFFICES ASSUME Gaps # {} PROVE FALSE
    OBVIOUS
  <2>2. Gaps \in SUBSET Nat
    OBVIOUS
  <2> HIDE DEF IsNew
  <2>3. PICK d \in Gaps : \A e \in Gaps : d <= e
    <3> HIDE DEF Gaps
    <3>1. QED
      BY <2>1, <2>2, LeastNumber
  <2>4. k - 0 = k
    BY <1>2
  <2>5. d \in Nat /\ d <= k /\ d # 0
    BY <1>2, <2>3, <2>4
  <2>6. d - 1 \in Nat /\ d - 1 <= k /\ ~ (d <= d - 1)
    BY <2>5
  <2>7. d - 1 \notin Gaps
    BY <2>3, <2>6
  <2>8. \E x : IsNew(k - (d - 1), x)
    BY <2>6, <2>7
  <2>9. k - (d - 1) = (k - d) + 1 /\ k - d \in Nat
    BY <1>2, <2>5
  <2>10. \E y : IsNew(k - d, y)
    BY <1>3, <2>8, <2>9
  <2>11. QED
    BY <2>3, <2>10
<1>5. ASSUME NEW j \in 0 .. k PROVE \E x : IsNew(j, x)
  <2>1. k - j \in Nat /\ k - j <= k /\ k - (k - j) = j
    BY <1>2
  <2> HIDE DEF IsNew
  <2>2. QED
    BY <1>4, <2>1
<1> DEFINE f == [j \in 0 .. k |-> CHOOSE x : IsNew(j, x)]
<1>6. ASSUME NEW j \in 0 .. k PROVE IsNew(j, f[j])
  <2> HIDE DEF IsNew
  <2>1. IsNew(j, CHOOSE x : IsNew(j, x))
    BY <1>5
  <2>2. QED
    BY <2>1
<1>7. f \in [0 .. k -> States]
  <2>1. ASSUME NEW j \in 0 .. k PROVE f[j] \in States
    <3>1. f[j] \in Layer(m, j) /\ j \in Nat
      BY <1>6
    <3> HIDE DEF f
    <3>2. QED
      BY <3>1, LayersInStates
  <2>2. QED
    BY <2>1
<1>8. \A i, j \in 0 .. k : f[i] = f[j] => i = j
  <2> HIDE DEF f
  <2>1. ASSUME NEW i \in 0 .. k, NEW j \in 0 .. k, i < j PROVE f[i] # f[j]
    <3>1. i \in 0 .. j - 1
      BY <1>2, <2>1
    <3>2. QED
      BY <1>6, <3>1
  <2>2. QED
    BY <1>2, <2>1
<1>9. f \in Injection(0 .. k, States)
  <2> HIDE DEF f
  <2>1. QED
    BY <1>7, <1>8 DEF Injection, IsInjective
<1>10. k + 1 <= Cardinality(States)
  <2>1. IsFiniteSet(0 .. k) /\ Cardinality(0 .. k) = k + 1
    BY <1>2, FS_Interval
  <2> HIDE DEF f
  <2>2. Cardinality(0 .. k) <= Cardinality(States)
    BY <1>9, FS_Injection
  <2>3. QED
    BY <2>1, <2>2
<1>11. k \in 0 .. Horizon
  BY <1>2, <1>10, SearchAssumption, FS_CardinalityType
<1>12. QED
  BY <1>1, <1>2, <1>11

-----------------------------------------------------------------------------
(***************************************************************************)
(* What a Pass says: every state within the step bound satisfies the       *)
(* invariants and expands, and the two numbers are the program's own, how  *)
(* many states there are and how far away the last ones.                   *)
(***************************************************************************)
ReachableIn(m, c) == UNION {Layer(m, n) : n \in {k \in Nat : InScope(c, k)}}

Nearby(m, n) == UNION {Layer(m, k) : k \in 0 .. n}

PassIsExactOf(m, c, states, maxDepth) ==
  /\ \A n \in Nat : InScope(c, n) => HoldsAt(m, n) /\ ExpandsAt(m, c, n)
  /\ IsFiniteSet(ReachableIn(m, c)) /\ states = Cardinality(ReachableIn(m, c))
  /\ ReachableIn(m, c) = Nearby(m, maxDepth)
  /\ maxDepth = 0 \/ ReachableIn(m, c) # Nearby(m, maxDepth - 1)

\* What lies within fewer steps lies within more.
LEMMA NearbyGrows ==
  ASSUME NEW m, NEW n \in Int, NEW k \in Int, n <= k
  PROVE  Nearby(m, n) \subseteq Nearby(m, k)
<1>1. 0 .. n \subseteq 0 .. k
  OBVIOUS
<1>2. QED
  BY <1>1 DEF Nearby

(***************************************************************************)
(* There is only one such pair of numbers.                                 *)
(***************************************************************************)
LEMMA NumbersAgree ==
  ASSUME NEW m, NEW c, NEW states1, NEW states2, NEW depth1 \in Nat, NEW depth2 \in Nat,
         PassIsExactOf(m, c, states1, depth1), PassIsExactOf(m, c, states2, depth2)
  PROVE  states1 = states2 /\ depth1 = depth2
<1>1. ASSUME NEW d \in Nat, NEW e \in Nat, d < e,
             ReachableIn(m, c) = Nearby(m, d), ReachableIn(m, c) = Nearby(m, e),
             e = 0 \/ ReachableIn(m, c) # Nearby(m, e - 1)
      PROVE  FALSE
  <2>1. d <= e - 1 /\ e - 1 <= e /\ e # 0 /\ e - 1 \in Int
    BY <1>1
  <2>2. Nearby(m, d) \subseteq Nearby(m, e - 1) /\ Nearby(m, e - 1) \subseteq Nearby(m, e)
    <3> DEFINE f == e - 1
    <3>1. f \in Int /\ d <= f /\ f <= e /\ d \in Int /\ e \in Int
      BY <2>1
    <3> HIDE DEF f
    <3>2. Nearby(m, d) \subseteq Nearby(m, f) /\ Nearby(m, f) \subseteq Nearby(m, e)
      BY <3>1, NearbyGrows
    <3>3. QED
      BY <3>2 DEF f
  <2>3. QED
    BY <1>1, <2>1, <2>2
<1>2. ~ (depth1 < depth2) /\ ~ (depth2 < depth1)
  BY <1>1 DEF PassIsExactOf
<1>3. QED
  BY <1>2 DEF PassIsExactOf

(***************************************************************************)
(* The states of a behaviour lie in the layers, one after the other.  By   *)
(* the first that does not.                                                *)
(***************************************************************************)
LEMMA TraceInLayers ==
  ASSUME NEW m \in Models, NEW t \in Seq(States), IsTrace(m, t)
  PROVE  \A n \in 0 .. Len(t) - 1 : t[n + 1] \in Layer(m, n)
<1> DEFINE Bad == {n \in 0 .. Len(t) - 1 : t[n + 1] \notin Layer(m, n)}
<1>0. Len(t) \in Nat
  BY ElementFacts
<1>1. SUFFICES ASSUME Bad # {} PROVE FALSE
  OBVIOUS
<1>2. PICK n \in Bad : \A k \in Bad : n <= k
  <2>1. Bad \in SUBSET Nat
    BY <1>0
  <2> HIDE DEF Bad
  <2>2. QED
    BY <1>1, <2>1, LeastNumber
<1>3. n # 0
  <2>1. t[1] \in Layer(m, 0)
    BY LayersEquations DEF IsTrace
  <2>2. 0 + 1 = 1
    OBVIOUS
  <2>3. QED
    BY <1>2, <2>1, <2>2
<1> DEFINE k == n - 1
<1>4. k \in Nat /\ k + 1 = n /\ k \in 0 .. Len(t) - 1 /\ ~ (n <= k) /\ n \in 1 .. Len(t) - 1
  BY <1>0, <1>2, <1>3
<1>5. t[n] \in Layer(m, k)
  BY <1>2, <1>4
<1>6. t[n + 1] \in Range(m.step[t[n]])
  BY <1>4 DEF IsTrace
<1> HIDE DEF k
<1>7. t[n + 1] \in Layer(m, k + 1)
  BY <1>4, <1>5, <1>6, LayersGoOn
<1>8. QED
  BY <1>2, <1>4, <1>7

(***************************************************************************)
(* What passes has no counterexample.                                      *)
(***************************************************************************)
LEMMA PassExcludesTrace ==
  ASSUME NEW m \in Models, NEW c, NEW states, NEW maxDepth,
         PassIsExactOf(m, c, states, maxDepth),
         NEW t \in Seq(States), IsTrace(m, t), InScope(c, Len(t) - 1),
         NEW kind, Culprit(m, c, kind, Final(t))
  PROVE  FALSE
<1> DEFINE n == Len(t) - 1
<1>1. n \in Nat /\ n \in 0 .. Len(t) - 1 /\ n + 1 = Len(t)
  <2>1. t # << >> /\ Len(t) \in Nat
    BY ElementFacts DEF IsTrace
  <2>2. Len(t) # 0
    BY <2>1, TailFacts
  <2>3. QED
    BY <2>1, <2>2
<1>2. Final(t) \in Layer(m, n)
  <2>1. \A k \in 0 .. Len(t) - 1 : t[k + 1] \in Layer(m, k)
    BY TraceInLayers
  <2>2. t[n + 1] \in Layer(m, n)
    BY <1>1, <2>1
  <2>3. QED
    BY <1>1, <2>2 DEF Final
<1>3. HoldsAt(m, n) /\ ExpandsAt(m, c, n)
  BY <1>1 DEF PassIsExactOf
<1> HIDE DEF n
<1>4. m.invs[Final(t)] = "holds" /\ Final(t) \notin m.stepError /\ (c.deadlock => m.step[Final(t)] # << >>)
  BY <1>2, <1>3 DEF HoldsAt, ExpandsAt
<1>5. QED
  BY <1>4 DEF Culprit

-----------------------------------------------------------------------------
(***************************************************************************)
(* The same program, with its successor lists in another order.  It has    *)
(* the same layers and behaviours, and the same is said of it.             *)
(***************************************************************************)
Rearranged(m1, m2) ==
  /\ m1.initError = m2.initError /\ m1.stepError = m2.stepError /\ m1.invs = m2.invs
  /\ Range(m1.init) = Range(m2.init)
  /\ \A s \in States : Range(m1.step[s]) = Range(m2.step[s])

\* By the first layer that differs.
LEMMA SameLayersRearranged ==
  ASSUME NEW m1 \in Models, NEW m2 \in Models, Rearranged(m1, m2)
  PROVE  \A n \in Nat : Layer(m1, n) = Layer(m2, n)
<1> DEFINE Bad == {n \in Nat : Layer(m1, n) # Layer(m2, n)}
<1>1. SUFFICES ASSUME Bad # {} PROVE FALSE
  OBVIOUS
<1>2. PICK n \in Bad : \A k \in Bad : n <= k
  <2>1. Bad \in SUBSET Nat
    OBVIOUS
  <2> HIDE DEF Bad
  <2>2. QED
    BY <1>1, <2>1, LeastNumber
<1>3. n # 0
  BY <1>2, LayersEquations DEF Rearranged
<1> DEFINE k == n - 1
<1>4. k \in Nat /\ k + 1 = n /\ ~ (n <= k)
  BY <1>2, <1>3
<1>5. Layer(m1, k) = Layer(m2, k)
  BY <1>2, <1>4
<1> HIDE DEF k
<1>6. Layer(m1, k) \subseteq States
  BY <1>4, LayersInStates
<1>7. Image(m1, Layer(m1, k)) = Image(m2, Layer(m2, k))
  BY <1>5, <1>6 DEF Image, Rearranged
<1>8. Layer(m1, k + 1) = Layer(m2, k + 1)
  BY <1>4, <1>7, LayersEquations
<1>9. QED
  BY <1>2, <1>4, <1>8

\* A list is empty if it has no elements.
LEMMA EmptyRange ==
  ASSUME NEW q \in Seq(States)
  PROVE  q = << >> <=> Range(q) = {}
<1>1. CASE q = << >>
  BY <1>1 DEF Range
<1>2. CASE q # << >>
  BY <1>2, TailFacts
<1>3. QED
  BY <1>1, <1>2

\* Nothing that is said of states and layers depends on the order.
LEMMA SameSaidRearranged ==
  ASSUME NEW m1 \in Models, NEW m2 \in Models, Rearranged(m1, m2), NEW c
  PROVE  /\ \A n \in Nat : HoldsAt(m1, n) <=> HoldsAt(m2, n)
         /\ \A n \in Nat : ExpandsAt(m1, c, n) <=> ExpandsAt(m2, c, n)
         /\ \A n \in Int : NothingBefore(m1, c, n) <=> NothingBefore(m2, c, n)
         /\ \A s \in States : \A kind : Culprit(m1, c, kind, s) <=> Culprit(m2, c, kind, s)
<1>0. /\ m1.step \in [States -> Seq(States)] /\ m2.step \in [States -> Seq(States)]
      /\ m1.stepError = m2.stepError /\ m1.invs = m2.invs
      /\ \A s \in States : Range(m1.step[s]) = Range(m2.step[s])
  BY ModelFacts DEF Rearranged
<1>1. \A s \in States : m1.step[s] = << >> <=> m2.step[s] = << >>
  BY <1>0, EmptyRange
<1>2. \A n \in Nat : Layer(m1, n) = Layer(m2, n) /\ Layer(m1, n) \subseteq States
  BY SameLayersRearranged, LayersInStates
<1>3. ASSUME NEW n \in Nat PROVE HoldsAt(m1, n) <=> HoldsAt(m2, n)
  BY <1>0, <1>2 DEF HoldsAt
<1>4. ASSUME NEW n \in Nat PROVE ExpandsAt(m1, c, n) <=> ExpandsAt(m2, c, n)
  BY <1>0, <1>1, <1>2 DEF ExpandsAt
<1>5. ASSUME NEW n \in Int PROVE NothingBefore(m1, c, n) <=> NothingBefore(m2, c, n)
  BY <1>3, <1>4 DEF NothingBefore
<1>6. ASSUME NEW s \in States, NEW kind PROVE Culprit(m1, c, kind, s) <=> Culprit(m2, c, kind, s)
  BY <1>0, <1>1 DEF Culprit
<1>7. QED
  BY <1>3, <1>4, <1>5, <1>6

\* Nor what a Pass says, ...
LEMMA SamePassRearranged ==
  ASSUME NEW m1 \in Models, NEW m2 \in Models, Rearranged(m1, m2), NEW c,
         NEW states, NEW maxDepth \in Nat, PassIsExactOf(m1, c, states, maxDepth)
  PROVE  PassIsExactOf(m2, c, states, maxDepth)
<1>1. \A n \in Nat : Layer(m1, n) = Layer(m2, n)
  BY SameLayersRearranged
<1>2. ReachableIn(m1, c) = ReachableIn(m2, c)
  BY <1>1 DEF ReachableIn
<1>3. ASSUME NEW n \in Int PROVE Nearby(m1, n) = Nearby(m2, n)
  <2>1. 0 .. n \subseteq Nat
    OBVIOUS
  <2>2. QED
    BY <1>1, <2>1 DEF Nearby
<1>4. Nearby(m1, maxDepth) = Nearby(m2, maxDepth) /\ Nearby(m1, maxDepth - 1) = Nearby(m2, maxDepth - 1)
  BY <1>3
<1>5. \A n \in Nat : InScope(c, n) => HoldsAt(m2, n) /\ ExpandsAt(m2, c, n)
  BY SameSaidRearranged DEF PassIsExactOf
<1>6. QED
  BY <1>2, <1>4, <1>5 DEF PassIsExactOf

\* ... nor a counterexample.
LEMMA SameTraceRearranged ==
  ASSUME NEW m1 \in Models, NEW m2 \in Models, Rearranged(m1, m2), NEW c \in Configs,
         NEW t \in Seq(States), IsTrace(m1, t), NEW kind, Justified(m1, c, kind, Final(t), Len(t))
  PROVE  IsTrace(m2, t) /\ Justified(m2, c, kind, Final(t), Len(t))
<1>0. t # << >> /\ Len(t) \in Nat /\ \A i \in 1 .. Len(t) : t[i] \in States
  BY ElementFacts DEF IsTrace
<1>1. Len(t) \in 1 .. Len(t) /\ Final(t) \in States
  <2>1. Len(t) # 0
    BY <1>0, TailFacts
  <2>2. Len(t) \in 1 .. Len(t)
    BY <1>0, <2>1
  <2>3. QED
    BY <1>0, <2>2 DEF Final
<1>2. IsTrace(m2, t)
  <2>1. ASSUME NEW i \in 1 .. Len(t) - 1 PROVE t[i + 1] \in Range(m2.step[t[i]])
    <3>1. i \in 1 .. Len(t)
      BY <1>0
    <3>2. t[i] \in States /\ t[i + 1] \in Range(m1.step[t[i]])
      BY <1>0, <3>1 DEF IsTrace
    <3>3. QED
      BY <3>2 DEF Rearranged
  <2>2. QED
    BY <1>0, <2>1 DEF IsTrace, Rearranged
<1>3. Culprit(m2, c, kind, Final(t))
  BY <1>1, SameSaidRearranged DEF Justified
<1>4. NothingBefore(m2, c, IF kind = "deadlock" THEN Len(t) ELSE Len(t) - 1)
  <2>1. Len(t) \in Int /\ Len(t) - 1 \in Int
    BY <1>0
  <2>2. QED
    BY <2>1, SameSaidRearranged DEF Justified
<1>5. QED
  BY <1>2, <1>3, <1>4 DEF Justified

-----------------------------------------------------------------------------
(***************************************************************************)
(* An outcome that is true of a program, with the numbers of a Pass.       *)
(***************************************************************************)
TracedOf(m, c, o) ==
  \E kind \in {"violation", "deadlock", "error"} : \E t \in Seq(States) :
    /\ o = Counterexample(kind, t)
    /\ IsTrace(m, t)
    /\ Justified(m, c, kind, Final(t), Len(t))

Tells(m, c, o) ==
  \/ o = IncompleteOf(o.states) /\ Reached(c.maxStates, o.states)
  \/ m.initError /\ o = Counterexample("error", << >>)
  \/ /\ ~ m.initError
     /\ \/ /\ o = PassOf(o.states, o.maxDepth) /\ o.maxDepth \in Nat
           /\ PassIsExactOf(m, c, o.states, o.maxDepth)
        \/ TracedOf(m, c, o)

(***************************************************************************)
(* If one of two true outcomes is a Pass, and there is no cap, the other   *)
(* is the same Pass.                                                       *)
(***************************************************************************)
LEMMA PassTellsAll ==
  ASSUME NEW m \in Models, NEW c, c.maxStates = NoBound,
         NEW o1, Tells(m, c, o1), o1.kind = "pass", NEW o2, Tells(m, c, o2)
  PROVE  o1 = o2
<1>1. /\ ~ m.initError
      /\ o1 = PassOf(o1.states, o1.maxDepth) /\ o1.maxDepth \in Nat
      /\ PassIsExactOf(m, c, o1.states, o1.maxDepth)
  BY DEF Tells, TracedOf, IncompleteOf, Counterexample, Outcome
<1>2. ~ TracedOf(m, c, o2)
  BY <1>1, PassExcludesTrace DEF TracedOf, Justified
<1>3. /\ o2 = PassOf(o2.states, o2.maxDepth) /\ o2.maxDepth \in Nat
      /\ PassIsExactOf(m, c, o2.states, o2.maxDepth)
  BY <1>1, <1>2 DEF Tells, Reached
<1>4. o1.states = o2.states /\ o1.maxDepth = o2.maxDepth
  BY <1>1, <1>3, NumbersAgree
<1>5. QED
  BY <1>1, <1>3, <1>4

\* What is true of a program is true of it in another order.
LEMMA TellsRearranged ==
  ASSUME NEW m1 \in Models, NEW m2 \in Models, Rearranged(m1, m2), NEW c \in Configs,
         NEW o, Tells(m1, c, o)
  PROVE  Tells(m2, c, o)
<1>1. m1.initError = m2.initError
  BY DEF Rearranged
<1>2. TracedOf(m1, c, o) => TracedOf(m2, c, o)
  BY SameTraceRearranged DEF TracedOf
<1>3. ASSUME o.maxDepth \in Nat, PassIsExactOf(m1, c, o.states, o.maxDepth)
      PROVE  PassIsExactOf(m2, c, o.states, o.maxDepth)
  BY <1>3, SamePassRearranged
<1>4. QED
  BY <1>1, <1>2, <1>3 DEF Tells

=============================================================================
