----------------------------- MODULE ProofFacts ------------------------------
(***************************************************************************)
(* Facts about numbers and sequences, in the form the proofs use them.     *)
(***************************************************************************)
EXTENDS Lists, Integers, Sequences, FiniteSets, Functions, WellFoundedInduction, TLAPS

(***************************************************************************)
(* A non-empty set of natural numbers has a least element.  Induction      *)
(* in the proofs of this project is by the least counterexample.           *)
(***************************************************************************)
LEMMA LeastNumber ==
  ASSUME NEW T \in SUBSET Nat, T # {}
  PROVE  \E n \in T : \A k \in T : n <= k
<1> DEFINE Less == {pair \in Nat \X Nat : pair[1] < pair[2]}
<1>1. IsWellFoundedOn(Less, Nat)
  BY NatLessThanWellFounded DEF OpToRel
<1> HIDE DEF Less
<1>2. PICK n \in T : \A k \in T : <<k, n>> \notin Less
  BY <1>1, WFMin, Zenon
<1>3. \A k \in T : ~ (k < n)
  BY <1>2 DEF Less
<1>4. QED
  BY <1>3

(***************************************************************************)
(* Sequence facts in the form the steps below use them.                    *)
(***************************************************************************)
LEMMA TailFacts ==
  ASSUME NEW S, NEW q \in Seq(S), q # << >>
  PROVE  /\ Head(q) \in S
         /\ Tail(q) \in Seq(S)
         /\ Len(q) \in Nat \ {0}
         /\ Len(Tail(q)) = Len(q) - 1
         /\ \A k \in 1 .. Len(q) - 1 : Tail(q)[k] = q[k + 1]
         /\ Head(q) = q[1]
         /\ Range(q) = {Head(q)} \cup Range(Tail(q))
         /\ Range(Tail(q)) \subseteq Range(q)
<1>1. /\ Head(q) \in S
      /\ Tail(q) \in Seq(S)
      /\ Len(q) \in Nat \ {0}
      /\ Len(Tail(q)) = Len(q) - 1
      /\ \A k \in 1 .. Len(q) - 1 : Tail(q)[k] = q[k + 1]
      /\ Head(q) = q[1]
  OBVIOUS
<1>2. ASSUME NEW x \in Range(Tail(q)) PROVE x \in Range(q)
  <2>1. PICK k \in 1 .. Len(q) - 1 : x = Tail(q)[k]
    BY <1>1 DEF Range
  <2>2. x = q[k + 1] /\ k + 1 \in 1 .. Len(q)
    BY <2>1, <1>1
  <2>3. QED
    BY <2>2 DEF Range
<1>3. ASSUME NEW x \in Range(q), x # Head(q) PROVE x \in Range(Tail(q))
  <2>1. PICK k \in 1 .. Len(q) : x = q[k]
    BY DEF Range
  <2>2. k # 1
    BY <1>1, <1>3, <2>1
  <2>3. k - 1 \in 1 .. Len(q) - 1 /\ (k - 1) + 1 = k
    BY <1>1, <2>1, <2>2
  <2>4. x = Tail(q)[k - 1] /\ k - 1 \in DOMAIN Tail(q)
    BY <1>1, <2>1, <2>3
  <2>5. QED
    BY <2>4 DEF Range
<1>4. Head(q) \in Range(q)
  BY <1>1 DEF Range
<1>5. QED
  BY <1>1, <1>2, <1>3, <1>4

\* Appending keeps the elements, and adds one at the end.
LEMMA AppendFacts ==
  ASSUME NEW S, NEW q \in Seq(S), NEW x \in S
  PROVE  /\ Append(q, x) \in Seq(S)
         /\ Len(Append(q, x)) = Len(q) + 1
         /\ DOMAIN Append(q, x) = 1 .. Len(q) + 1
         /\ Append(q, x)[Len(q) + 1] = x
         /\ \A k \in 1 .. Len(q) : Append(q, x)[k] = q[k]
OBVIOUS

\* Appending adds the element to the range.
LEMMA RangeOfAppend ==
  ASSUME NEW S, NEW q \in Seq(S), NEW x \in S
  PROVE  Range(Append(q, x)) = Range(q) \cup {x}
<1> DEFINE new == Append(q, x)
<1>1. /\ Len(q) \in Nat /\ DOMAIN q = 1 .. Len(q) /\ DOMAIN new = 1 .. Len(q) + 1
      /\ new[Len(q) + 1] = x
      /\ \A k \in 1 .. Len(q) : new[k] = q[k]
  BY AppendFacts
<1> HIDE DEF new
<1>2. Range(new) = {new[k] : k \in 1 .. Len(q) + 1} /\ Range(q) = {q[k] : k \in 1 .. Len(q)}
  BY <1>1 DEF Range
<1>3. Range(new) = Range(q) \cup {x}
  BY <1>1, <1>2
<1>4. QED
  BY <1>3 DEF new

\* The empty sequence.
LEMMA EmptyFacts ==
  ASSUME NEW S
  PROVE  << >> \in Seq(S) /\ Len(<< >>) = 0
OBVIOUS

\* The elements of a sequence.
LEMMA ElementFacts ==
  ASSUME NEW S, NEW q \in Seq(S)
  PROVE  /\ Len(q) \in Nat
         /\ DOMAIN q = 1 .. Len(q)
         /\ \A k \in 1 .. Len(q) : q[k] \in S
OBVIOUS

\* The prefixes of a sequence.
LEMMA PrefixFacts ==
  ASSUME NEW S, NEW q \in Seq(S), NEW n \in 0 .. Len(q)
  PROVE  /\ SubSeq(q, 1, n) \in Seq(S)
         /\ Len(SubSeq(q, 1, n)) = n
         /\ DOMAIN SubSeq(q, 1, n) = 1 .. n
         /\ \A k \in 1 .. n : SubSeq(q, 1, n)[k] = q[k]
OBVIOUS

(***************************************************************************)
(* Sequences are equal if their lengths and elements are.                  *)
(***************************************************************************)
LEMMA EqualSequences ==
  ASSUME NEW S, NEW q \in Seq(S), NEW r \in Seq(S), Len(q) = Len(r),
         \A k \in 1 .. Len(q) : q[k] = r[k]
  PROVE  q = r
OBVIOUS

\* Replacing an element of a sequence.
LEMMA ExceptFacts ==
  ASSUME NEW S, NEW q \in Seq(S), NEW k \in 1 .. Len(q), NEW x \in S
  PROVE  /\ [q EXCEPT ![k] = x] \in Seq(S)
         /\ Len([q EXCEPT ![k] = x]) = Len(q)
         /\ [q EXCEPT ![k] = x][k] = x
         /\ \A j \in 1 .. Len(q) : j # k => [q EXCEPT ![k] = x][j] = q[j]
OBVIOUS

\* A part of a sequence.
LEMMA PartFacts ==
  ASSUME NEW S, NEW q \in Seq(S), NEW m \in Nat, NEW n \in Nat, m <= n, n <= Len(q)
  PROVE  /\ SubSeq(q, m + 1, n) \in Seq(S)
         /\ Len(SubSeq(q, m + 1, n)) = n - m
         /\ \A k \in 1 .. n - m : SubSeq(q, m + 1, n)[k] = q[k + m]
OBVIOUS

LEMMA SubSeqFacts ==
  ASSUME NEW S, NEW q \in Seq(S), NEW m \in Nat, NEW n \in Nat, m <= n, n <= Len(q)
  PROVE  /\ SubSeq(q, m + 1, n) \in Seq(S)
         /\ Range(SubSeq(q, m + 1, n)) = {q[k] : k \in m + 1 .. n}
<1> DEFINE part == SubSeq(q, m + 1, n)
<1>1. /\ part \in Seq(S)
      /\ Len(part) = n - m
      /\ \A k \in 1 .. n - m : part[k] = q[k + m]
  BY PartFacts
<1> HIDE DEF part
<1>2. Range(part) = {part[k] : k \in 1 .. n - m}
  BY <1>1 DEF Range
<1>3. ASSUME NEW k \in m + 1 .. n PROVE k - m \in 1 .. n - m /\ q[k] = part[k - m]
  BY <1>1
<1>4. ASSUME NEW k \in 1 .. n - m PROVE k + m \in m + 1 .. n /\ part[k] = q[k + m]
  BY <1>1
<1>5. Range(part) = {q[k] : k \in m + 1 .. n}
  <2>1. ASSUME NEW k \in m + 1 .. n PROVE q[k] \in Range(part)
    BY <1>2, <1>3
  <2>2. ASSUME NEW k \in 1 .. n - m PROVE part[k] \in {q[j] : j \in m + 1 .. n}
    BY <1>4
  <2>3. QED
    BY <1>2, <2>1, <2>2
<1>6. QED
  BY <1>1, <1>5 DEF part

\* One sequence after another.
LEMMA ConcatFacts ==
  ASSUME NEW S, NEW q \in Seq(S), NEW r \in Seq(S)
  PROVE  /\ q \o r \in Seq(S)
         /\ Len(q \o r) = Len(q) + Len(r)
         /\ \A k \in 1 .. Len(q) : (q \o r)[k] = q[k]
         /\ \A k \in 1 .. Len(r) : (q \o r)[Len(q) + k] = r[k]
         /\ Range(q \o r) = Range(q) \cup Range(r)
<1> DEFINE both == q \o r
<1>1. /\ both \in Seq(S)
      /\ Len(both) = Len(q) + Len(r)
      /\ \A k \in 1 .. Len(q) : both[k] = q[k]
      /\ \A k \in 1 .. Len(r) : both[Len(q) + k] = r[k]
  OBVIOUS
<1> HIDE DEF both
<1>2. /\ Range(both) = {both[k] : k \in 1 .. Len(both)}
      /\ Range(q) = {q[k] : k \in 1 .. Len(q)}
      /\ Range(r) = {r[k] : k \in 1 .. Len(r)}
  <2>1. /\ DOMAIN both = 1 .. Len(both) /\ DOMAIN q = 1 .. Len(q) /\ DOMAIN r = 1 .. Len(r)
    BY <1>1
  <2>2. QED
    BY <2>1 DEF Range
<1>3. ASSUME NEW k \in 1 .. Len(q) PROVE k \in 1 .. Len(both) /\ q[k] = both[k]
  BY <1>1
<1>4. ASSUME NEW k \in 1 .. Len(r)
      PROVE  Len(q) + k \in 1 .. Len(both) /\ r[k] = both[Len(q) + k]
  BY <1>1
<1>5. ASSUME NEW k \in 1 .. Len(both)
      PROVE  (k \in 1 .. Len(q)) \/ (k - Len(q) \in 1 .. Len(r) /\ both[k] = r[k - Len(q)])
  BY <1>1
<1>6. Range(both) = Range(q) \cup Range(r)
  BY <1>2, <1>3, <1>4, <1>5
<1>7. QED
  BY <1>1, <1>6 DEF both

-----------------------------------------------------------------------------
(***************************************************************************)
(* What Only picks.  Its recursive function exists: it is built up to any  *)
(* length, for there is no least one at which it could not be.             *)
(***************************************************************************)
OnlyUpTo(q, S, n, f) ==
  f = [k \in 0 .. n |-> IF k = 0 THEN << >>
                        ELSE IF q[k] \in S THEN Append(f[k - 1], q[k])
                        ELSE f[k - 1]]

\* Such a function exists for every length.
LEMMA OnlyUpToExists ==
  ASSUME NEW q, NEW S
  PROVE  \A n \in Nat : \E f : OnlyUpTo(q, S, n, f)
<1> DEFINE Stuck == {n \in Nat : ~ \E f : OnlyUpTo(q, S, n, f)}
<1>1. 0 \notin Stuck
  <2> DEFINE f == [k \in 0 .. 0 |-> << >>]
  <2>1. OnlyUpTo(q, S, 0, f)
    BY DEF OnlyUpTo
  <2> HIDE DEF f
  <2>2. QED
    BY <2>1
<1>2. ASSUME NEW n \in Nat, NEW f, OnlyUpTo(q, S, n, f) PROVE n + 1 \notin Stuck
  <2> DEFINE last == IF q[n + 1] \in S THEN Append(f[n], q[n + 1]) ELSE f[n]
             g == [k \in 0 .. n + 1 |-> IF k = n + 1 THEN last ELSE f[k]]
  <2>1. ASSUME NEW k \in 0 .. n + 1
        PROVE  g[k] = IF k = 0 THEN << >>
                      ELSE IF q[k] \in S THEN Append(g[k - 1], q[k])
                      ELSE g[k - 1]
    <3>1. CASE k = n + 1
      <4>1. k - 1 \in 0 .. n + 1 /\ k - 1 # n + 1 /\ k - 1 = n /\ k # 0
        BY <3>1
      <4>2. g[k] = last /\ g[k - 1] = f[n]
        BY <3>1, <4>1
      <4> HIDE DEF g
      <4>3. QED
        BY <3>1, <4>1, <4>2
    <3>2. CASE k # n + 1
      <4>1. k \in 0 .. n /\ g[k] = f[k] /\ (k # 0 => g[k - 1] = f[k - 1])
        BY <3>2
      <4>2. f[k] = IF k = 0 THEN << >>
                   ELSE IF q[k] \in S THEN Append(f[k - 1], q[k])
                   ELSE f[k - 1]
        BY <1>2, <4>1 DEF OnlyUpTo
      <4> HIDE DEF g
      <4>3. QED
        BY <4>1, <4>2
    <3>3. QED
      BY <3>1, <3>2
  <2>2. OnlyUpTo(q, S, n + 1, g)
    BY <2>1 DEF OnlyUpTo
  <2> HIDE DEF g
  <2>3. QED
    BY <2>2
<1>3. Stuck = {}
  <2>1. SUFFICES ASSUME Stuck # {} PROVE FALSE
    OBVIOUS
  <2>2. Stuck \in SUBSET Nat
    OBVIOUS
  <2>3. PICK n \in Stuck : \A k \in Stuck : n <= k
    <3> HIDE DEF Stuck
    <3>1. QED
      BY <2>1, <2>2, LeastNumber
  <2> DEFINE k == n - 1
  <2>4. k \in Nat /\ k \notin Stuck /\ k + 1 = n
    <3> HIDE DEF Stuck
    <3>1. n # 0 /\ n \in Nat
      BY <1>1, <2>2, <2>3
    <3>2. k \in Nat /\ ~ (n <= k) /\ k + 1 = n
      BY <3>1
    <3>3. QED
      BY <2>3, <3>2
  <2> HIDE DEF k
  <2>5. PICK f : OnlyUpTo(q, S, k, f)
    BY <2>4
  <2>6. k + 1 \notin Stuck
    BY <1>2, <2>4, <2>5
  <2>7. QED
    BY <2>3, <2>4, <2>6
<1>4. QED
  BY <1>3

\* What is picked is in the set, in the sequence, and there once.
LEMMA OnlyFacts ==
  ASSUME NEW T, NEW q \in Seq(T), NEW S
  PROVE  /\ Only(q, S) \in Seq(T)
         /\ Range(Only(q, S)) = Range(q) \cap S
         /\ IsInjective(q) => IsInjective(Only(q, S))
<1> DEFINE f == CHOOSE f : OnlyUpTo(q, S, Len(q), f)
<1>0. Len(q) \in Nat /\ DOMAIN q = 1 .. Len(q) /\ \A k \in 1 .. Len(q) : q[k] \in T
  BY ElementFacts
<1>1. OnlyUpTo(q, S, Len(q), f)
  BY <1>0, OnlyUpToExists
<1>2. Only(q, S) = f[Len(q)]
  BY DEF Only, OnlyUpTo
<1> HIDE DEF f
<1>3. /\ f[0] = << >>
      /\ \A n \in 1 .. Len(q) : f[n] = IF q[n] \in S THEN Append(f[n - 1], q[n]) ELSE f[n - 1]
  <2>1. 0 \in 0 .. Len(q) /\ \A n \in 1 .. Len(q) : n \in 0 .. Len(q) /\ n # 0
    BY <1>0
  <2>2. \A n \in 0 .. Len(q) :
          f[n] = IF n = 0 THEN << >>
                 ELSE IF q[n] \in S THEN Append(f[n - 1], q[n])
                 ELSE f[n - 1]
    BY <1>1 DEF OnlyUpTo
  <2>3. QED
    BY <2>1, <2>2
<1> DEFINE Right(n) == /\ f[n] \in Seq(T)
                       /\ Range(f[n]) = {q[k] : k \in 1 .. n} \cap S
                       /\ IsInjective(q) => IsInjective(f[n])
           Wrong == {n \in 0 .. Len(q) : ~ Right(n)}
<1>4. Right(0)
  <2>1. f[0] \in Seq(T) /\ Range(f[0]) = {} /\ IsInjective(f[0])
    BY <1>3, EmptyFacts DEF Range, IsInjective
  <2>2. {q[k] : k \in 1 .. 0} = {}
    OBVIOUS
  <2>3. QED
    BY <2>1, <2>2
<1>5. ASSUME NEW n \in 1 .. Len(q), Right(n - 1) PROVE Right(n)
  <2> DEFINE old == f[n - 1]
  <2>1. 1 .. n = (1 .. n - 1) \cup {n} /\ n \notin 1 .. n - 1 /\ 1 .. n \subseteq 1 .. Len(q)
    BY <1>0
  <2>2. {q[k] : k \in 1 .. n} = {q[k] : k \in 1 .. n - 1} \cup {q[n]}
    BY <2>1
  <2>3. old \in Seq(T) /\ Range(old) = {q[k] : k \in 1 .. n - 1} \cap S
        /\ (IsInjective(q) => IsInjective(old)) /\ q[n] \in T
    BY <1>0, <1>5
  <2>4. f[n] = IF q[n] \in S THEN Append(old, q[n]) ELSE old
    BY <1>3
  <2> HIDE DEF old
  <2>5. CASE q[n] \notin S
    BY <2>2, <2>3, <2>4, <2>5
  <2>6. CASE q[n] \in S
    <3>1. f[n] = Append(old, q[n])
      BY <2>4, <2>6
    <3>2. f[n] \in Seq(T) /\ Range(f[n]) = Range(old) \cup {q[n]}
      BY <2>3, <3>1, AppendFacts, RangeOfAppend
    <3>3. ASSUME IsInjective(q) PROVE IsInjective(f[n])
      <4>1. q[n] \notin Range(old)
        BY <1>0, <2>1, <2>3, <3>3 DEF IsInjective
      <4>2. /\ Len(old) \in Nat /\ DOMAIN old = 1 .. Len(old) /\ DOMAIN f[n] = 1 .. Len(old) + 1
            /\ f[n][Len(old) + 1] = q[n]
            /\ \A k \in 1 .. Len(old) : f[n][k] = old[k]
        BY <2>3, <3>1, AppendFacts, ElementFacts
      <4>3. \A k \in 1 .. Len(old) + 1 : k \in 1 .. Len(old) \/ k = Len(old) + 1
        BY <4>2
      <4>4. \A k \in 1 .. Len(old) : f[n][k] # q[n]
        BY <4>1, <4>2 DEF Range
      <4>5. \A j, k \in 1 .. Len(old) : f[n][j] = f[n][k] => j = k
        BY <2>3, <3>3, <4>2 DEF IsInjective
      <4>6. QED
        BY <4>2, <4>3, <4>4, <4>5 DEF IsInjective
    <3>4. QED
      BY <2>2, <2>3, <2>6, <3>2, <3>3
  <2>7. QED
    BY <2>5, <2>6
<1>6. Wrong = {}
  <2>1. SUFFICES ASSUME Wrong # {} PROVE FALSE
    OBVIOUS
  <2>2. PICK n \in Wrong : \A k \in Wrong : n <= k
    <3>1. Wrong \in SUBSET Nat
      BY <1>0
    <3> HIDE DEF Wrong
    <3>2. QED
      BY <2>1, <3>1, LeastNumber
  <2>3. n # 0 /\ n \in 0 .. Len(q) /\ ~ Right(n)
    BY <1>4, <2>2
  <2> HIDE DEF Right
  <2>4. n \in 1 .. Len(q) /\ n - 1 \in 0 .. Len(q) /\ ~ (n <= n - 1)
    BY <1>0, <2>3
  <2>5. Right(n - 1)
    BY <2>2, <2>4
  <2>6. QED
    BY <1>5, <2>3, <2>4, <2>5
<1>7. Right(Len(q))
  <2>1. Len(q) \in 0 .. Len(q)
    BY <1>0
  <2> HIDE DEF Right
  <2>2. QED
    BY <1>6, <2>1
<1>8. Range(q) = {q[k] : k \in 1 .. Len(q)}
  BY <1>0 DEF Range
<1>9. QED
  BY <1>2, <1>7, <1>8

\* Lists without repetition and without a common element.
LEMMA JoinedOnce ==
  ASSUME NEW T, NEW q \in Seq(T), NEW r \in Seq(T), IsInjective(q), IsInjective(r),
         Range(q) \cap Range(r) = {}
  PROVE  IsInjective(q \o r)
<1> DEFINE both == q \o r
<1>1. /\ Len(q) \in Nat /\ Len(r) \in Nat
      /\ DOMAIN q = 1 .. Len(q) /\ DOMAIN r = 1 .. Len(r)
      /\ both \in Seq(T) /\ Len(both) = Len(q) + Len(r)
      /\ \A k \in 1 .. Len(q) : both[k] = q[k]
      /\ \A k \in 1 .. Len(r) : both[Len(q) + k] = r[k]
  BY ConcatFacts, ElementFacts
<1> HIDE DEF both
<1>2. DOMAIN both = 1 .. Len(q) + Len(r)
  BY <1>1, ElementFacts
<1>3. ASSUME NEW i \in 1 .. Len(q) + Len(r)
      PROVE  \/ i \in 1 .. Len(q) /\ both[i] = q[i]
             \/ i - Len(q) \in 1 .. Len(r) /\ both[i] = r[i - Len(q)]
  <2>1. CASE i \in 1 .. Len(q)
    BY <1>1, <2>1
  <2>2. CASE i \notin 1 .. Len(q)
    <3>1. i - Len(q) \in 1 .. Len(r) /\ Len(q) + (i - Len(q)) = i
      BY <1>1, <2>2
    <3>2. QED
      BY <1>1, <3>1
  <2>3. QED
    BY <2>1, <2>2
<1>4. \A i \in 1 .. Len(q), k \in 1 .. Len(r) : q[i] # r[k]
  BY <1>1 DEF Range
<1>5. \A i, k \in 1 .. Len(q) : q[i] = q[k] => i = k
  BY <1>1 DEF IsInjective
<1>6. \A i, k \in 1 .. Len(r) : r[i] = r[k] => i = k
  BY <1>1 DEF IsInjective
<1>7. ASSUME NEW i \in 1 .. Len(q) + Len(r), NEW k \in 1 .. Len(q) + Len(r), both[i] = both[k]
      PROVE  i = k
  <2>1. CASE i \in 1 .. Len(q) /\ both[i] = q[i]
    BY <1>3, <1>4, <1>5, <1>7, <2>1
  <2>2. CASE i - Len(q) \in 1 .. Len(r) /\ both[i] = r[i - Len(q)]
    <3>1. k - Len(q) \in 1 .. Len(r) /\ both[k] = r[k - Len(q)]
      BY <1>3, <1>4, <1>7, <2>2
    <3>2. i - Len(q) = k - Len(q)
      BY <1>6, <1>7, <2>2, <3>1
    <3>3. QED
      BY <1>1, <3>2
  <2>3. QED
    BY <1>3, <2>1, <2>2
<1>8. IsInjective(both)
  BY <1>2, <1>7 DEF IsInjective
<1>9. QED
  BY <1>8 DEF both

=============================================================================
