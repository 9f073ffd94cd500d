----------------------------- MODULE FpBfsProofs -----------------------------
(***************************************************************************)
(* The second traversal of check_fp repeats the first, whatever the hash   *)
(* function: both discover the same states in the same order, so the trace *)
(* is a behaviour of the program.                                          *)
(* From the order of discovery it follows, in the second part, that the    *)
(* search keeps the promise of SearchPromise when no two states collide,   *)
(* and what a Pass counts in either case; and, in the last, that an answer *)
(* is determined by the program, the configuration and the hash function.  *)
(*                                                                         *)
(* The states themselves are not kept, so the proof supplies them: disc    *)
(* lists the discoveries in order, each with its depth and its place in    *)
(* the list in which it was met, and is determined step by step by the     *)
(* rule that the first traversal obeys.  What is said of disc is said of   *)
(* the program m, the configuration c and the hash function f.             *)
(***************************************************************************)
EXTENDS FpBfs, SearchProblemProofs

Node == [state : States, depth : Nat, pos : Nat]

(***************************************************************************)
(* The list with number q: the initial states, or the successors of        *)
(* discovery q.  It is looked at unless discovery q is at the step bound.  *)
(***************************************************************************)
List(m, disc, q) == IF q = 0 THEN m.init ELSE m.step[disc[q].state]

Looked(c, disc, q) == q = 0 \/ ~ Reached(c.maxSteps, disc[q].depth)

\* The fingerprints of the first n discoveries.
Prints(f, disc, n) == {f[disc[i].state] : i \in 1 .. n}

\* Nothing in list q would be fresh after n discoveries.
Passed(m, c, f, disc, n, q) ==
  Looked(c, disc, q) => \A s \in Range(List(m, disc, q)) : f[s] \in Prints(f, disc, n)

Below(disc, p) == IF p = 0 THEN 0 ELSE disc[p].depth + 1

(***************************************************************************)
(* Discovery j is the first in the lists, taken in order, whose            *)
(* fingerprint is not that of an earlier one.                              *)
(***************************************************************************)
Fits(m, c, f, ps, disc, j) ==
  /\ ps[j] \in 0 .. j - 1
  /\ Looked(c, disc, ps[j])
  /\ disc[j].pos \in 1 .. Len(List(m, disc, ps[j]))
  /\ disc[j].state = List(m, disc, ps[j])[disc[j].pos]
  /\ disc[j].depth = Below(disc, ps[j])
  /\ f[disc[j].state] \notin Prints(f, disc, j - 1)
  /\ \A q \in 0 .. ps[j] - 1 : Passed(m, c, f, disc, j - 1, q)
  /\ \A k \in 1 .. disc[j].pos - 1 : f[List(m, disc, ps[j])[k]] \in Prints(f, disc, j - 1)
  /\ \A q \in 1 .. ps[j] : disc[q].state \notin m.stepError

FirstFit(m, c, f, ps, disc) ==
  /\ ps \in Seq(Nat)
  /\ disc \in Seq(Node)
  /\ Len(disc) = Len(ps)
  /\ \A j \in 1 .. Len(disc) : Fits(m, c, f, ps, disc, j)

(***************************************************************************)
(* A traversal that has made n of the discoveries and popped p of them:    *)
(* the others wait, and of the lists before the current one nothing is     *)
(* fresh.                                                                  *)
(***************************************************************************)
Waits == [state : States, depth : Nat]

Waiting(disc, n, p, front) ==
  /\ p \in 0 .. n
  /\ front \in Seq(Waits)
  /\ Len(front) = n - p
  /\ \A k \in 1 .. n - p : /\ front[k].state = disc[p + k].state
                           /\ front[k].depth = disc[p + k].depth

\* The rest of list p after its first k states.
Rest(m, f, disc, n, p, rest, k) ==
  /\ k \in 0 .. Len(List(m, disc, p))
  /\ rest \in Seq(States)
  /\ Len(rest) = Len(List(m, disc, p)) - k
  /\ \A i \in 1 .. Len(rest) : rest[i] = List(m, disc, p)[k + i]
  /\ \A i \in 1 .. k : f[List(m, disc, p)[i]] \in Prints(f, disc, n)

Traversed(m, c, f, disc, n, p, seen, front) ==
  /\ n \in 0 .. Len(disc)
  /\ seen = Prints(f, disc, n)
  /\ Waiting(disc, n, p, front)
  /\ \A q \in 0 .. p - 1 : Passed(m, c, f, disc, n, q)

Between(m, c, f, disc, n, p, seen, front) ==
  /\ Traversed(m, c, f, disc, n, p, seen, front)
  /\ Passed(m, c, f, disc, n, p)

Scanning(m, c, f, disc, n, p, seen, front, rest) ==
  /\ Traversed(m, c, f, disc, n, p, seen, front)
  /\ Looked(c, disc, p)
  /\ \E k \in Nat : Rest(m, f, disc, n, p, rest, k)

-----------------------------------------------------------------------------
\* The lists are lists of states.
LEMMA ListFacts ==
  ASSUME NEW m \in Models, NEW disc \in Seq(Node), NEW q \in 0 .. Len(disc)
  PROVE  /\ List(m, disc, q) \in Seq(States)
         /\ Len(List(m, disc, q)) \in Nat
         /\ DOMAIN List(m, disc, q) = 1 .. Len(List(m, disc, q))
         /\ q # 0 => disc[q].state \in States /\ disc[q].depth \in Nat /\ disc[q].pos \in Nat
<1>1. q # 0 => disc[q] \in Node
  BY ElementFacts
<1>2. q # 0 => disc[q].state \in States /\ disc[q].depth \in Nat /\ disc[q].pos \in Nat
  BY <1>1 DEF Node
<1>3. m.init \in Seq(States) /\ m.step \in [States -> Seq(States)]
  BY ModelFacts
<1>4. List(m, disc, q) \in Seq(States)
  BY <1>2, <1>3 DEF List
<1>5. QED
  BY <1>2, <1>4, ElementFacts

\* One discovery more.
LEMMA PrintsGrow ==
  ASSUME NEW f, NEW disc, NEW n \in Nat
  PROVE  /\ Prints(f, disc, n + 1) = Prints(f, disc, n) \cup {f[disc[n + 1].state]}
         /\ \A k \in 0 .. n : Prints(f, disc, k) \subseteq Prints(f, disc, n)
<1>1. 1 .. n + 1 = (1 .. n) \cup {n + 1}
  OBVIOUS
<1>2. QED
  BY <1>1 DEF Prints

\* What has been passed stays passed.
LEMMA PassedStays ==
  ASSUME NEW m, NEW c, NEW f, NEW disc, NEW n \in Nat, NEW q, Passed(m, c, f, disc, n, q)
  PROVE  Passed(m, c, f, disc, n + 1, q)
BY PrintsGrow DEF Passed

(***************************************************************************)
(* What is said of the first n discoveries does not depend on later ones.  *)
(***************************************************************************)
LEMMA SamePrefix ==
  ASSUME NEW m, NEW c, NEW f, NEW disc, NEW longer, NEW n \in Nat,
         \A i \in 1 .. n : longer[i] = disc[i]
  PROVE  /\ \A q \in 0 .. n : /\ List(m, longer, q) = List(m, disc, q)
                              /\ Looked(c, longer, q) <=> Looked(c, disc, q)
                              /\ Below(longer, q) = Below(disc, q)
         /\ \A k \in 0 .. n : Prints(f, longer, k) = Prints(f, disc, k)
         /\ \A q, k \in 0 .. n : Passed(m, c, f, longer, k, q) <=> Passed(m, c, f, disc, k, q)
<1>1. \A q \in 0 .. n : /\ List(m, longer, q) = List(m, disc, q)
                        /\ Looked(c, longer, q) <=> Looked(c, disc, q)
                        /\ Below(longer, q) = Below(disc, q)
  BY DEF List, Looked, Below
<1>2. \A k \in 0 .. n : Prints(f, longer, k) = Prints(f, disc, k)
  <2>1. SUFFICES ASSUME NEW k \in 0 .. n PROVE Prints(f, longer, k) = Prints(f, disc, k)
    OBVIOUS
  <2>2. \A i \in 1 .. k : longer[i] = disc[i]
    OBVIOUS
  <2>3. QED
    BY <2>2 DEF Prints
<1>3. QED
  BY <1>1, <1>2 DEF Passed

-----------------------------------------------------------------------------
(***************************************************************************)
(* The steps of a traversal, whichever of the two it is.                   *)
(***************************************************************************)
\* The next state of the list.
LEMMA RestFacts ==
  ASSUME NEW m \in Models, NEW f, NEW disc \in Seq(Node), NEW n, NEW p \in 0 .. Len(disc),
         NEW rest, NEW k, Rest(m, f, disc, n, p, rest, k), rest # << >>
  PROVE  /\ k + 1 \in 1 .. Len(List(m, disc, p))
         /\ Head(rest) = List(m, disc, p)[k + 1]
         /\ Head(rest) \in States
         /\ f[Head(rest)] \in Prints(f, disc, n) => Rest(m, f, disc, n, p, Tail(rest), k + 1)
<1> DEFINE list == List(m, disc, p)
<1>1. Len(list) \in Nat
  BY ListFacts
<1>2. /\ k \in 0 .. Len(list)
      /\ rest \in Seq(States)
      /\ Len(rest) = Len(list) - k
      /\ \A i \in 1 .. Len(rest) : rest[i] = list[k + i]
      /\ \A i \in 1 .. k : f[list[i]] \in Prints(f, disc, n)
  BY DEF Rest
<1>3. /\ Head(rest) \in States /\ Tail(rest) \in Seq(States)
      /\ Len(rest) \in Nat \ {0} /\ Len(Tail(rest)) = Len(rest) - 1
      /\ \A i \in 1 .. Len(rest) - 1 : Tail(rest)[i] = rest[i + 1]
      /\ Head(rest) = rest[1]
  BY <1>2, TailFacts
<1> HIDE DEF list
<1>4. k + 1 \in 1 .. Len(list) /\ Head(rest) = list[k + 1]
  BY <1>1, <1>2, <1>3
<1>5. ASSUME f[Head(rest)] \in Prints(f, disc, n)
      PROVE  /\ k + 1 \in 0 .. Len(list)
             /\ Len(Tail(rest)) = Len(list) - (k + 1)
             /\ \A i \in 1 .. Len(Tail(rest)) : Tail(rest)[i] = list[(k + 1) + i]
             /\ \A i \in 1 .. k + 1 : f[list[i]] \in Prints(f, disc, n)
  <2>1. k + 1 \in 0 .. Len(list) /\ Len(Tail(rest)) = Len(list) - (k + 1)
    BY <1>1, <1>2, <1>3, <1>4
  <2>2. ASSUME NEW i \in 1 .. Len(Tail(rest)) PROVE Tail(rest)[i] = list[(k + 1) + i]
    <3>1. i \in 1 .. Len(rest) - 1 /\ i \in Nat /\ k \in Nat
      BY <1>1, <1>2, <1>3
    <3>2. i + 1 \in 1 .. Len(rest) /\ k + (i + 1) = (k + 1) + i
      BY <1>3, <3>1
    <3>3. QED
      BY <1>2, <1>3, <3>1, <3>2
  <2>3. ASSUME NEW i \in 1 .. k + 1 PROVE f[list[i]] \in Prints(f, disc, n)
    <3>1. i \in 1 .. k \/ i = k + 1
      BY <1>1, <1>2
    <3>2. QED
      BY <1>2, <1>4, <1>5, <3>1
  <2>4. QED
    BY <2>1, <2>2, <2>3
<1>6. QED
  BY <1>3, <1>4, <1>5 DEF Rest, list

\* An old state is skipped.
LEMMA ScanSkips ==
  ASSUME NEW m \in Models, NEW c, NEW f, NEW disc \in Seq(Node), NEW n, NEW p, NEW seen, NEW front,
         NEW rest, Scanning(m, c, f, disc, n, p, seen, front, rest), rest # << >>, f[Head(rest)] \in seen
  PROVE  Scanning(m, c, f, disc, n, p, seen, front, Tail(rest))
<1>1. /\ Traversed(m, c, f, disc, n, p, seen, front) /\ Looked(c, disc, p)
      /\ p \in 0 .. Len(disc) /\ seen = Prints(f, disc, n)
  BY DEF Scanning, Traversed, Waiting
<1>2. PICK k \in Nat : Rest(m, f, disc, n, p, rest, k)
  BY DEF Scanning
<1>3. Rest(m, f, disc, n, p, Tail(rest), k + 1)
  BY <1>1, <1>2, RestFacts
<1>4. QED
  BY <1>1, <1>2, <1>3 DEF Scanning

\* The list is at its end.
LEMMA ScanEnds ==
  ASSUME NEW m \in Models, NEW c, NEW f, NEW disc \in Seq(Node), NEW n, NEW p, NEW seen, NEW front,
         Scanning(m, c, f, disc, n, p, seen, front, << >>)
  PROVE  Between(m, c, f, disc, n, p, seen, front)
<1>1. Traversed(m, c, f, disc, n, p, seen, front) /\ p \in 0 .. Len(disc)
  BY DEF Scanning, Traversed, Waiting
<1>2. PICK k \in Nat : Rest(m, f, disc, n, p, << >>, k)
  BY DEF Scanning
<1>3. DOMAIN List(m, disc, p) = 1 .. Len(List(m, disc, p)) /\ Len(List(m, disc, p)) \in Nat
  BY <1>1, ListFacts
<1>4. Len(List(m, disc, p)) = k /\ \A i \in 1 .. k : f[List(m, disc, p)[i]] \in Prints(f, disc, n)
  BY <1>2, <1>3, EmptyFacts DEF Rest
<1>5. Passed(m, c, f, disc, n, p)
  BY <1>3, <1>4 DEF Passed, Range
<1>6. QED
  BY <1>1, <1>5 DEF Between

(***************************************************************************)
(* The next discovery is popped, and is at the step bound or not.          *)
(***************************************************************************)
PopsNext(m, c, f, disc, n, p, seen, front) ==
  /\ p \in Nat /\ p + 1 \in 1 .. n /\ n \in 0 .. Len(disc)
  /\ Head(front).state = disc[p + 1].state /\ Head(front).depth = disc[p + 1].depth
  /\ Head(front) \in Waits
  /\ Reached(c.maxSteps, Head(front).depth) =>
       Between(m, c, f, disc, n, p + 1, seen, Tail(front))
  /\ ~ Reached(c.maxSteps, Head(front).depth) =>
       Scanning(m, c, f, disc, n, p + 1, seen, Tail(front), m.step[Head(front).state])

\* Popping leads from one deterministic search to the next position of it.
LEMMA PopGoesOn ==
  ASSUME NEW m \in Models, NEW c, NEW f, NEW disc \in Seq(Node), NEW n, NEW p, NEW seen, NEW front,
         Between(m, c, f, disc, n, p, seen, front), front # << >>
  PROVE  PopsNext(m, c, f, disc, n, p, seen, front)
<1>1. /\ n \in 0 .. Len(disc) /\ p \in 0 .. n /\ seen = Prints(f, disc, n)
      /\ front \in Seq(Waits) /\ Len(front) = n - p
      /\ \A k \in 1 .. n - p : front[k].state = disc[p + k].state /\ front[k].depth = disc[p + k].depth
      /\ \A q \in 0 .. p - 1 : Passed(m, c, f, disc, n, q)
      /\ Passed(m, c, f, disc, n, p)
  BY DEF Between, Traversed, Waiting
<1>2. /\ Head(front) \in Waits /\ Tail(front) \in Seq(Waits)
      /\ Len(front) \in Nat \ {0} /\ Len(Tail(front)) = Len(front) - 1
      /\ \A k \in 1 .. Len(front) - 1 : Tail(front)[k] = front[k + 1]
      /\ Head(front) = front[1]
  BY <1>1, TailFacts
<1>3. Len(disc) \in Nat
  BY ElementFacts
<1>4. /\ p \in Nat /\ n \in Nat /\ p + 1 \in 1 .. n /\ 1 \in 1 .. n - p
  BY <1>1, <1>2, <1>3
<1>5. Head(front).state = disc[p + 1].state /\ Head(front).depth = disc[p + 1].depth
  BY <1>1, <1>2, <1>4
<1>6. Waiting(disc, n, p + 1, Tail(front))
  <2>1. ASSUME NEW k \in 1 .. n - (p + 1)
        PROVE  /\ Tail(front)[k].state = disc[(p + 1) + k].state
               /\ Tail(front)[k].depth = disc[(p + 1) + k].depth
    <3>1. k \in 1 .. Len(front) - 1 /\ k + 1 \in 1 .. n - p /\ p + (k + 1) = (p + 1) + k
      BY <1>1, <1>4
    <3>2. QED
      BY <1>1, <1>2, <3>1
  <2>2. QED
    BY <1>1, <1>2, <1>4, <2>1 DEF Waiting
<1>7. Traversed(m, c, f, disc, n, p + 1, seen, Tail(front))
  <2>1. \A q \in 0 .. (p + 1) - 1 : Passed(m, c, f, disc, n, q)
    <3>1. \A q \in 0 .. (p + 1) - 1 : q \in 0 .. p - 1 \/ q = p
      BY <1>4
    <3>2. QED
      BY <1>1, <3>1
  <2>2. QED
    BY <1>1, <1>6, <2>1 DEF Traversed
<1>8. p + 1 # 0 /\ p + 1 \in 0 .. Len(disc)
  BY <1>1, <1>3, <1>4
<1>9. ASSUME Reached(c.maxSteps, Head(front).depth)
      PROVE  Between(m, c, f, disc, n, p + 1, seen, Tail(front))
  BY <1>5, <1>7, <1>8, <1>9 DEF Between, Passed, Looked
<1>10. ASSUME ~ Reached(c.maxSteps, Head(front).depth)
       PROVE  Scanning(m, c, f, disc, n, p + 1, seen, Tail(front), m.step[Head(front).state])
  <2>1. List(m, disc, p + 1) = m.step[Head(front).state]
    BY <1>5, <1>8 DEF List
  <2>2. Rest(m, f, disc, n, p + 1, m.step[Head(front).state], 0)
    <3>1. List(m, disc, p + 1) \in Seq(States) /\ Len(List(m, disc, p + 1)) \in Nat
      BY <1>8, ListFacts
    <3>2. QED
      BY <2>1, <3>1 DEF Rest
  <2>3. Looked(c, disc, p + 1)
    BY <1>5, <1>10 DEF Looked
  <2>4. QED
    BY <1>7, <2>2, <2>3 DEF Scanning
<1>11. QED
  BY <1>1, <1>2, <1>4, <1>5, <1>9, <1>10 DEF PopsNext

(***************************************************************************)
(* The next state of the list is the next discovery.                       *)
(***************************************************************************)
LEMMA ScanDiscovers ==
  ASSUME NEW m \in Models, NEW c, NEW f, NEW disc \in Seq(Node), NEW n, NEW p, NEW seen, NEW front,
         NEW rest, Scanning(m, c, f, disc, n, p, seen, front, rest), rest # << >>,
         n + 1 <= Len(disc), disc[n + 1].state = Head(rest),
         NEW x \in Waits, x.state = Head(rest), x.depth = disc[n + 1].depth
  PROVE  Scanning(m, c, f, disc, n + 1, p, seen \cup {f[Head(rest)]}, Append(front, x), Tail(rest))
<1>0. Len(disc) \in Nat
  BY ElementFacts
<1>1. /\ n \in 0 .. Len(disc) /\ p \in 0 .. n /\ seen = Prints(f, disc, n)
      /\ front \in Seq(Waits) /\ Len(front) = n - p
      /\ \A k \in 1 .. n - p : front[k].state = disc[p + k].state /\ front[k].depth = disc[p + k].depth
      /\ \A q \in 0 .. p - 1 : Passed(m, c, f, disc, n, q)
      /\ Looked(c, disc, p)
  BY DEF Scanning, Traversed, Waiting
<1>2. n \in Nat /\ p \in Nat /\ n + 1 \in 0 .. Len(disc) /\ p \in 0 .. n + 1 /\ p \in 0 .. Len(disc)
  BY <1>0, <1>1
<1>3. Prints(f, disc, n + 1) = seen \cup {f[Head(rest)]}
  BY <1>1, <1>2, PrintsGrow
<1>4. Waiting(disc, n + 1, p, Append(front, x))
  <2>1. /\ Append(front, x) \in Seq(Waits) /\ Len(Append(front, x)) = Len(front) + 1
        /\ Append(front, x)[Len(front) + 1] = x
        /\ \A k \in 1 .. Len(front) : Append(front, x)[k] = front[k]
    <3>1. front \in Seq(Waits)
      BY <1>1
    <3>2. QED
      BY <3>1, AppendFacts
  <2>2. ASSUME NEW k \in 1 .. (n + 1) - p
        PROVE  /\ Append(front, x)[k].state = disc[p + k].state
               /\ Append(front, x)[k].depth = disc[p + k].depth
    <3>1. CASE k \in 1 .. n - p
      BY <1>1, <2>1, <3>1
    <3>2. CASE k = Len(front) + 1
      <4>1. p + k = n + 1
        BY <1>1, <1>2, <3>2
      <4>2. QED
        BY <2>1, <3>2, <4>1
    <3>3. QED
      BY <1>1, <1>2, <3>1, <3>2
  <2>3. Len(Append(front, x)) = (n + 1) - p
    BY <1>1, <1>2, <2>1
  <2>4. QED
    BY <1>2, <2>1, <2>2, <2>3 DEF Waiting
<1>5. \A q \in 0 .. p - 1 : Passed(m, c, f, disc, n + 1, q)
  BY <1>1, <1>2, PassedStays
<1>6. \E k \in Nat : Rest(m, f, disc, n + 1, p, Tail(rest), k)
  <2>1. PICK k \in Nat : Rest(m, f, disc, n, p, rest, k)
    BY DEF Scanning
  <2>2. Prints(f, disc, n) \subseteq Prints(f, disc, n + 1)
    BY <1>1, <1>3
  <2>3. Rest(m, f, disc, n + 1, p, rest, k)
    BY <2>1, <2>2 DEF Rest
  <2>4. f[Head(rest)] \in Prints(f, disc, n + 1)
    BY <1>3
  <2>5. Rest(m, f, disc, n + 1, p, Tail(rest), k + 1)
    BY <1>2, <2>3, <2>4, RestFacts
  <2>6. QED
    BY <2>5
<1>7. QED
  BY <1>1, <1>2, <1>3, <1>4, <1>5, <1>6 DEF Scanning, Traversed

\* A traversal does not depend on what is discovered later.
LEMMA SameScan ==
  ASSUME NEW m \in Models, NEW c, NEW f, NEW disc \in Seq(Node), NEW longer \in Seq(Node),
         NEW n, NEW p, NEW seen, NEW front, NEW rest,
         Scanning(m, c, f, disc, n, p, seen, front, rest),
         Len(disc) <= Len(longer), \A i \in 1 .. Len(disc) : longer[i] = disc[i]
  PROVE  Scanning(m, c, f, longer, n, p, seen, front, rest)
<1>0. Len(disc) \in Nat /\ Len(longer) \in Nat
  BY ElementFacts
<1>1. /\ n \in 0 .. Len(disc) /\ p \in 0 .. n /\ seen = Prints(f, disc, n)
      /\ front \in Seq(Waits) /\ Len(front) = n - p
      /\ \A k \in 1 .. n - p : front[k].state = disc[p + k].state /\ front[k].depth = disc[p + k].depth
      /\ \A q \in 0 .. p - 1 : Passed(m, c, f, disc, n, q)
      /\ Looked(c, disc, p)
  BY DEF Scanning, Traversed, Waiting
<1>2. n \in Nat /\ \A i \in 1 .. n : longer[i] = disc[i]
  BY <1>0, <1>1
<1>3. /\ \A q \in 0 .. n : /\ List(m, longer, q) = List(m, disc, q)
                           /\ Looked(c, longer, q) <=> Looked(c, disc, q)
      /\ \A k \in 0 .. n : Prints(f, longer, k) = Prints(f, disc, k)
      /\ \A q, k \in 0 .. n : Passed(m, c, f, longer, k, q) <=> Passed(m, c, f, disc, k, q)
  BY <1>2, SamePrefix
<1>4. n \in 0 .. n /\ p \in 0 .. n /\ n \in 0 .. Len(longer) /\ \A q \in 0 .. p - 1 : q \in 0 .. n
  BY <1>0, <1>1
<1>5. Waiting(longer, n, p, front)
  <2>1. ASSUME NEW k \in 1 .. n - p PROVE longer[p + k] = disc[p + k]
    <3>1. p + k \in 1 .. n
      BY <1>1, <1>2
    <3>2. QED
      BY <1>2, <3>1
  <2>2. QED
    BY <1>1, <2>1 DEF Waiting
<1>6. \A k \in Nat : Rest(m, f, disc, n, p, rest, k) => Rest(m, f, longer, n, p, rest, k)
  BY <1>3, <1>4 DEF Rest
<1>7. QED
  BY <1>1, <1>3, <1>4, <1>5, <1>6 DEF Scanning, Traversed

-----------------------------------------------------------------------------
(***************************************************************************)
(* The first traversal makes a discovery that fits.                        *)
(***************************************************************************)
LEMMA DiscoveryFits ==
  ASSUME NEW m \in Models, NEW c, NEW f, NEW ps, NEW disc, FirstFit(m, c, f, ps, disc),
         NEW p, NEW seen, NEW front, NEW rest,
         Scanning(m, c, f, disc, Len(disc), p, seen, front, rest), rest # << >>,
         f[Head(rest)] \notin seen, \A q \in 1 .. p : disc[q].state \notin m.stepError
  PROVE  \E x \in Node :
           /\ x.state = Head(rest) /\ x.depth = Below(disc, p)
           /\ FirstFit(m, c, f, Append(ps, p), Append(disc, x))
<1> DEFINE last == Len(disc) + 1
<1>0. /\ disc \in Seq(Node) /\ ps \in Seq(Nat) /\ Len(disc) \in Nat /\ Len(ps) = Len(disc)
      /\ \A j \in 1 .. Len(disc) : Fits(m, c, f, ps, disc, j)
  BY ElementFacts DEF FirstFit
<1>1. /\ p \in 0 .. Len(disc) /\ seen = Prints(f, disc, Len(disc))
      /\ \A q \in 0 .. p - 1 : Passed(m, c, f, disc, Len(disc), q)
      /\ Looked(c, disc, p)
  BY DEF Scanning, Traversed, Waiting
<1>2. PICK k \in Nat : Rest(m, f, disc, Len(disc), p, rest, k)
  BY DEF Scanning
<1>3. /\ k + 1 \in 1 .. Len(List(m, disc, p))
      /\ Head(rest) = List(m, disc, p)[k + 1]
      /\ Head(rest) \in States
      /\ \A i \in 1 .. k : f[List(m, disc, p)[i]] \in Prints(f, disc, Len(disc))
  BY <1>0, <1>1, <1>2, RestFacts DEF Rest
<1>4. Below(disc, p) \in Nat /\ p \in Nat
  BY <1>0, <1>1, ListFacts DEF Below
<1> DEFINE x == [state |-> Head(rest), depth |-> Below(disc, p), pos |-> k + 1]
<1>5. x \in Node /\ x.state = Head(rest) /\ x.depth = Below(disc, p) /\ x.pos = k + 1
  BY <1>3, <1>4 DEF Node
<1> DEFINE disc2 == Append(disc, x)
           ps2 == Append(ps, p)
<1> HIDE DEF x
<1>6. /\ disc2 \in Seq(Node) /\ Len(disc2) = last /\ disc2[last] = x
      /\ \A i \in 1 .. Len(disc) : disc2[i] = disc[i]
  BY <1>0, <1>5, AppendFacts
<1>7. /\ ps2 \in Seq(Nat) /\ Len(ps2) = last /\ ps2[last] = p
      /\ \A i \in 1 .. Len(disc) : ps2[i] = ps[i]
  BY <1>0, <1>4, AppendFacts
<1> HIDE DEF disc2, ps2
<1>8. /\ \A q \in 0 .. Len(disc) : /\ List(m, disc2, q) = List(m, disc, q)
                                   /\ Looked(c, disc2, q) <=> Looked(c, disc, q)
                                   /\ Below(disc2, q) = Below(disc, q)
      /\ \A n \in 0 .. Len(disc) : Prints(f, disc2, n) = Prints(f, disc, n)
      /\ \A q, n \in 0 .. Len(disc) : Passed(m, c, f, disc2, n, q) <=> Passed(m, c, f, disc, n, q)
  <2>1. Len(disc) \in Nat /\ \A i \in 1 .. Len(disc) : disc2[i] = disc[i]
    BY <1>0, <1>6
  <2>2. QED
    BY <2>1, SamePrefix
<1>9. ASSUME NEW j \in 1 .. Len(disc) PROVE Fits(m, c, f, ps2, disc2, j)
  <2>1. Fits(m, c, f, ps, disc, j)
    BY <1>0
  <2>2. ps2[j] = ps[j] /\ disc2[j] = disc[j] /\ ps[j] \in 0 .. j - 1
    BY <1>6, <1>7, <2>1 DEF Fits
  <2>3. /\ j - 1 \in 0 .. Len(disc) /\ ps[j] \in 0 .. Len(disc)
        /\ \A q \in 0 .. ps[j] - 1 : q \in 0 .. Len(disc)
        /\ \A q \in 1 .. ps[j] : q \in 1 .. Len(disc)
    BY <1>0, <2>2
  <2>4. /\ List(m, disc2, ps[j]) = List(m, disc, ps[j])
        /\ Looked(c, disc2, ps[j]) <=> Looked(c, disc, ps[j])
        /\ Below(disc2, ps[j]) = Below(disc, ps[j])
        /\ Prints(f, disc2, j - 1) = Prints(f, disc, j - 1)
        /\ \A q \in 0 .. ps[j] - 1 : Passed(m, c, f, disc2, j - 1, q) <=> Passed(m, c, f, disc, j - 1, q)
        /\ \A q \in 1 .. ps[j] : disc2[q] = disc[q]
    BY <1>6, <1>8, <2>3
  <2>5. QED
    BY <2>1, <2>2, <2>4 DEF Fits
<1>10. Fits(m, c, f, ps2, disc2, last)
  <2>1. /\ last - 1 = Len(disc) /\ Len(disc) \in 0 .. Len(disc)
        /\ \A q \in 0 .. p - 1 : q \in 0 .. Len(disc)
        /\ \A q \in 1 .. p : q \in 1 .. Len(disc)
        /\ (k + 1) - 1 = k
    BY <1>0, <1>1
  <2>2. f[Head(rest)] \notin Prints(f, disc2, last - 1)
    BY <1>1, <1>8, <2>1
  <2>3. \A q \in 0 .. p - 1 : Passed(m, c, f, disc2, last - 1, q)
    BY <1>1, <1>8, <2>1
  <2>4. \A i \in 1 .. k : f[List(m, disc2, p)[i]] \in Prints(f, disc2, last - 1)
    BY <1>1, <1>3, <1>8, <2>1
  <2>5. \A q \in 1 .. p : disc2[q].state \notin m.stepError
    BY <1>6, <2>1
  <2>6. List(m, disc2, p) = List(m, disc, p) /\ Looked(c, disc2, p) /\ Below(disc2, p) = Below(disc, p)
    BY <1>1, <1>8
  <2> HIDE DEF last
  <2>7. QED
    BY <1>1, <1>3, <1>5, <1>6, <1>7, <2>1, <2>2, <2>3, <2>4, <2>5, <2>6 DEF Fits
<1>11. \A j \in 1 .. last : Fits(m, c, f, ps2, disc2, j)
  <2>1. \A j \in 1 .. last : j \in 1 .. Len(disc) \/ j = last
    BY <1>0
  <2>2. QED
    BY <1>9, <1>10, <2>1
<1>12. FirstFit(m, c, f, ps2, disc2)
  BY <1>6, <1>7, <1>11 DEF FirstFit
<1>13. QED
  BY <1>5, <1>12 DEF disc2, ps2

(***************************************************************************)
(* The second traversal makes the same: a state that would be met before   *)
(* discovery n + 1 is not fresh, and that one is when it is met.           *)
(***************************************************************************)
LEMMA DiscoveriesAgree ==
  ASSUME NEW m \in Models, NEW c, NEW f, NEW ps, NEW disc, FirstFit(m, c, f, ps, disc),
         NEW n \in Nat, n < Len(disc), NEW p, NEW seen, NEW front, NEW rest,
         Scanning(m, c, f, disc, n, p, seen, front, rest), rest # << >>, f[Head(rest)] \notin seen
  PROVE  /\ disc[n + 1].state = Head(rest)
         /\ disc[n + 1].depth = Below(disc, p)
         /\ ps[n + 1] = p
<1> DEFINE j == n + 1
           r == ps[j]
<1>0. disc \in Seq(Node) /\ Len(disc) \in Nat /\ j \in 1 .. Len(disc) /\ j - 1 = n
  BY ElementFacts DEF FirstFit
<1>1. Fits(m, c, f, ps, disc, j)
  BY <1>0 DEF FirstFit
<1>2. /\ p \in 0 .. n /\ p \in 0 .. Len(disc) /\ seen = Prints(f, disc, n)
      /\ \A q \in 0 .. p - 1 : Passed(m, c, f, disc, n, q)
      /\ Looked(c, disc, p)
  BY <1>0 DEF Scanning, Traversed, Waiting
<1>3. PICK k \in Nat : Rest(m, f, disc, n, p, rest, k)
  BY DEF Scanning
<1>4. /\ k + 1 \in 1 .. Len(List(m, disc, p))
      /\ Head(rest) = List(m, disc, p)[k + 1]
      /\ \A i \in 1 .. k : f[List(m, disc, p)[i]] \in Prints(f, disc, n)
  BY <1>0, <1>2, <1>3, RestFacts DEF Rest
<1>5. /\ r \in 0 .. n
      /\ Looked(c, disc, r)
      /\ disc[j].pos \in 1 .. Len(List(m, disc, r))
      /\ disc[j].state = List(m, disc, r)[disc[j].pos]
      /\ disc[j].depth = Below(disc, r)
      /\ f[disc[j].state] \notin Prints(f, disc, n)
      /\ \A q \in 0 .. r - 1 : Passed(m, c, f, disc, n, q)
      /\ \A i \in 1 .. disc[j].pos - 1 : f[List(m, disc, r)[i]] \in Prints(f, disc, n)
  BY <1>0, <1>1 DEF Fits
<1>6. \A q \in 0 .. n : DOMAIN List(m, disc, q) = 1 .. Len(List(m, disc, q)) /\ Len(List(m, disc, q)) \in Nat
  BY <1>0, ListFacts
<1> HIDE DEF j, r
<1>7. ~ (p < r)
  <2>1. SUFFICES ASSUME p < r PROVE FALSE
    OBVIOUS
  <2>2. Passed(m, c, f, disc, n, p)
    BY <1>2, <1>5, <2>1
  <2>3. Head(rest) \in Range(List(m, disc, p))
    BY <1>2, <1>4, <1>6 DEF Range
  <2>4. QED
    BY <1>2, <2>2, <2>3 DEF Passed
<1>8. ~ (r < p)
  <2>1. SUFFICES ASSUME r < p PROVE FALSE
    OBVIOUS
  <2>2. Passed(m, c, f, disc, n, r)
    BY <1>2, <1>5, <2>1
  <2>3. disc[j].state \in Range(List(m, disc, r))
    BY <1>5, <1>6 DEF Range
  <2>4. QED
    BY <1>5, <2>2, <2>3 DEF Passed
<1>9. r = p
  BY <1>2, <1>5, <1>7, <1>8
<1>10. disc[j].pos = k + 1
  <2>1. disc[j].pos \in Nat /\ disc[j].pos >= 1
    BY <1>5, <1>6
  <2>2. ~ (disc[j].pos < k + 1)
    <3>1. SUFFICES ASSUME disc[j].pos < k + 1 PROVE FALSE
      OBVIOUS
    <3>2. disc[j].pos \in 1 .. k
      BY <2>1, <3>1
    <3>3. QED
      BY <1>4, <1>5, <1>9, <3>2
  <2>3. ~ (k + 1 < disc[j].pos)
    <3>1. SUFFICES ASSUME k + 1 < disc[j].pos PROVE FALSE
      OBVIOUS
    <3>2. k + 1 \in 1 .. disc[j].pos - 1
      BY <2>1, <3>1
    <3>3. QED
      BY <1>2, <1>4, <1>5, <1>9, <3>2
  <2>4. QED
    BY <2>1, <2>2, <2>3
<1>11. QED
  BY <1>4, <1>5, <1>9, <1>10 DEF j, r

\* Before discovery n + 1 is made, the frontier is not empty, and what is popped expands.
LEMMA TraversalGoesOn ==
  ASSUME NEW m \in Models, NEW c, NEW f, NEW ps, NEW disc, FirstFit(m, c, f, ps, disc),
         NEW n \in Nat, n < Len(disc), NEW p, NEW seen, NEW front,
         Between(m, c, f, disc, n, p, seen, front)
  PROVE  front # << >> /\ disc[p + 1].state \notin m.stepError
<1> DEFINE j == n + 1
           r == ps[j]
<1>0. disc \in Seq(Node) /\ Len(disc) \in Nat /\ j \in 1 .. Len(disc) /\ j - 1 = n
  BY ElementFacts DEF FirstFit
<1>1. Fits(m, c, f, ps, disc, j)
  BY <1>0 DEF FirstFit
<1>2. /\ p \in 0 .. n /\ Len(front) = n - p
      /\ \A q \in 0 .. p - 1 : Passed(m, c, f, disc, n, q)
      /\ Passed(m, c, f, disc, n, p)
  BY <1>0 DEF Between, Traversed, Waiting
<1>3. /\ r \in 0 .. n
      /\ Looked(c, disc, r)
      /\ disc[j].pos \in 1 .. Len(List(m, disc, r))
      /\ disc[j].state = List(m, disc, r)[disc[j].pos]
      /\ f[disc[j].state] \notin Prints(f, disc, n)
      /\ \A q \in 1 .. r : disc[q].state \notin m.stepError
  BY <1>0, <1>1 DEF Fits
<1>4. r \in 0 .. Len(disc)
  BY <1>0, <1>3
<1>5. disc[j].state \in Range(List(m, disc, r))
  BY <1>0, <1>3, <1>4, ListFacts DEF Range
<1> HIDE DEF j, r
<1>6. ~ (r <= p)
  <2>1. SUFFICES ASSUME r <= p PROVE FALSE
    OBVIOUS
  <2>2. Passed(m, c, f, disc, n, r)
    BY <1>2, <1>3, <2>1
  <2>3. QED
    BY <1>3, <1>5, <2>2 DEF Passed
<1>7. p + 1 \in 1 .. r /\ n - p > 0
  BY <1>2, <1>3, <1>6
<1>8. front # << >>
  BY <1>2, <1>7, EmptyFacts
<1>9. QED
  BY <1>3, <1>7, <1>8

-----------------------------------------------------------------------------
(***************************************************************************)
(* The path to the target.                                                 *)
(***************************************************************************)
IsPath(m, c, ps, disc, kind, way) ==
  /\ way \in Seq(Nat) /\ way # << >>
  /\ \A i \in 1 .. Len(way) : way[i] \in 1 .. Len(disc) /\ way[i] <= Final(way)
  /\ \A i \in 1 .. Len(way) - 1 : ps[way[i + 1]] = way[i]
  /\ disc[way[1]].depth + Len(way) = disc[Final(way)].depth + 1
  /\ kind \in {"violation", "deadlock", "error"}
  /\ Culprit(m, c, kind, disc[Final(way)].state)

\* A discovery is within the step bound.
LEMMA FitsInScope ==
  ASSUME NEW m \in Models, NEW c \in Configs, NEW f, NEW ps, NEW disc, FirstFit(m, c, f, ps, disc),
         NEW j \in 1 .. Len(disc)
  PROVE  /\ InScope(c, disc[j].depth) /\ disc[j].depth \in Nat /\ disc[j].state \in States
         /\ ps[j] \in 0 .. j - 1
         /\ ps[j] = 0 => disc[j].depth = 0 /\ disc[j].state \in Range(m.init)
         /\ ps[j] # 0 => /\ disc[ps[j]].depth \in Nat
                         /\ disc[j].depth = disc[ps[j]].depth + 1
                         /\ disc[j].state \in Range(m.step[disc[ps[j]].state])
<1>0. disc \in Seq(Node) /\ Len(disc) \in Nat
  BY ElementFacts DEF FirstFit
<1>1. /\ ps[j] \in 0 .. j - 1
      /\ Looked(c, disc, ps[j])
      /\ disc[j].pos \in 1 .. Len(List(m, disc, ps[j]))
      /\ disc[j].state = List(m, disc, ps[j])[disc[j].pos]
      /\ disc[j].depth = Below(disc, ps[j])
  BY DEF FirstFit, Fits
<1>2. ps[j] \in 0 .. Len(disc) /\ j \in 0 .. Len(disc) /\ j # 0
  BY <1>0, <1>1
<1>3. /\ DOMAIN List(m, disc, ps[j]) = 1 .. Len(List(m, disc, ps[j]))
      /\ disc[j].state \in States /\ disc[j].depth \in Nat
      /\ ps[j] # 0 => disc[ps[j]].depth \in Nat
  BY <1>0, <1>2, ListFacts
<1>4. disc[j].state \in Range(List(m, disc, ps[j]))
  BY <1>1, <1>3 DEF Range
<1>5. InScope(c, disc[j].depth)
  <2>1. CASE ps[j] = 0
    BY <1>1, <2>1, ConfigFacts DEF Below, InScope
  <2>2. CASE ps[j] # 0
    <3> DEFINE d == disc[ps[j]].depth
    <3>1. d \in Nat /\ disc[j].depth = d + 1
      BY <1>1, <1>3, <2>2 DEF Below
    <3>2. ~ Reached(c.maxSteps, d)
      BY <1>1, <2>2 DEF Looked
    <3> HIDE DEF d
    <3>3. InScope(c, d + 1)
      BY <3>1, <3>2, ConfigFacts DEF InScope, Reached
    <3>4. QED
      BY <3>1, <3>3
  <2>3. QED
    BY <2>1, <2>2
<1>6. QED
  BY <1>1, <1>3, <1>4, <1>5 DEF Below, List

\* The path grows at its front.
LEMMA PathGrows ==
  ASSUME NEW m \in Models, NEW c \in Configs, NEW f, NEW ps, NEW disc, FirstFit(m, c, f, ps, disc),
         NEW kind, NEW way, IsPath(m, c, ps, disc, kind, way), ps[Head(way)] # 0
  PROVE  /\ IsPath(m, c, ps, disc, kind, <<ps[Head(way)]>> \o way)
         /\ Final(<<ps[Head(way)]>> \o way) = Final(way)
<1>0. /\ way \in Seq(Nat) /\ way # << >>
      /\ \A i \in 1 .. Len(way) : way[i] \in 1 .. Len(disc) /\ way[i] <= Final(way)
      /\ \A i \in 1 .. Len(way) - 1 : ps[way[i + 1]] = way[i]
      /\ disc[way[1]].depth + Len(way) = disc[Final(way)].depth + 1
      /\ kind \in {"violation", "deadlock", "error"}
      /\ Culprit(m, c, kind, disc[Final(way)].state)
      /\ disc \in Seq(Node) /\ Len(disc) \in Nat
  BY ElementFacts DEF IsPath, FirstFit
<1>1. Len(way) \in Nat \ {0} /\ Head(way) = way[1] /\ 1 \in 1 .. Len(way)
  BY <1>0, TailFacts
<1> DEFINE first == way[1]
           p == ps[first]
           longer == <<p>> \o way
<1>2. /\ first \in 1 .. Len(disc) /\ first <= Final(way)
      /\ p \in 0 .. first - 1 /\ p # 0
      /\ disc[first].depth = disc[p].depth + 1 /\ disc[p].depth \in Nat
  <2>1. first \in 1 .. Len(disc) /\ first <= Final(way) /\ ps[first] # 0
    BY <1>0, <1>1
  <2> HIDE DEF first
  <2>2. QED
    BY <2>1, FitsInScope
<1>3. /\ longer \in Seq(Nat) /\ Len(longer) = Len(way) + 1
      /\ longer[1] = p
      /\ \A i \in 1 .. Len(way) : longer[i + 1] = way[i]
  <2>1. <<p>> \in Seq(Nat) /\ Len(<<p>>) = 1 /\ <<p>>[1] = p /\ 1 \in 1 .. 1
    BY <1>0, <1>2
  <2>2. /\ longer \in Seq(Nat)
        /\ Len(longer) = Len(<<p>>) + Len(way)
        /\ \A k \in 1 .. Len(<<p>>) : longer[k] = <<p>>[k]
        /\ \A k \in 1 .. Len(way) : longer[Len(<<p>>) + k] = way[k]
    BY <1>0, <2>1, ConcatFacts
  <2> HIDE DEF longer
  <2>3. longer[1] = p /\ Len(longer) = Len(way) + 1
    BY <1>1, <2>1, <2>2
  <2>4. ASSUME NEW i \in 1 .. Len(way) PROVE longer[i + 1] = way[i]
    <3>1. longer[1 + i] = way[i] /\ i + 1 = 1 + i
      BY <1>1, <2>1, <2>2
    <3>2. QED
      BY <3>1
  <2>5. QED
    BY <2>2, <2>3, <2>4
<1> HIDE DEF longer
<1>4. longer # << >> /\ Final(longer) = Final(way)
  <2>1. Len(way) \in 1 .. Len(way) /\ Len(longer) # 0
    BY <1>1, <1>3
  <2>2. QED
    BY <1>3, <2>1, EmptyFacts DEF Final
<1>5. ASSUME NEW i \in 1 .. Len(longer)
      PROVE  longer[i] \in 1 .. Len(disc) /\ longer[i] <= Final(longer)
  <2>1. CASE i = 1
    <3>1. Final(way) \in Nat
      BY <1>0, <1>1 DEF Final
    <3>2. longer[i] = p /\ Final(longer) = Final(way)
      BY <1>3, <1>4, <2>1
    <3>3. p \in 1 .. Len(disc) /\ p <= Final(way)
      <4>1. p \in 1 .. first - 1 /\ first \in 1 .. Len(disc) /\ first <= Final(way)
        BY <1>2
      <4> HIDE DEF p, first
      <4>2. QED
        BY <1>0, <3>1, <4>1
    <3>4. QED
      BY <3>2, <3>3
  <2>2. CASE i # 1
    <3>1. i - 1 \in 1 .. Len(way) /\ (i - 1) + 1 = i
      BY <1>1, <1>3, <2>2
    <3>2. longer[i] = way[i - 1]
      BY <1>3, <3>1
    <3>3. QED
      BY <1>0, <1>4, <3>1, <3>2
  <2>3. QED
    BY <2>1, <2>2
<1>6. ASSUME NEW i \in 1 .. Len(longer) - 1 PROVE ps[longer[i + 1]] = longer[i]
  <2>1. i \in 1 .. Len(way) /\ longer[i + 1] = way[i]
    BY <1>1, <1>3
  <2>2. CASE i = 1
    BY <1>3, <2>1, <2>2
  <2>3. CASE i # 1
    <3>1. i - 1 \in 1 .. Len(way) - 1 /\ (i - 1) + 1 = i /\ i - 1 \in 1 .. Len(way)
      BY <1>1, <2>1, <2>3
    <3>2. longer[i] = way[i - 1] /\ ps[way[i]] = way[i - 1]
      BY <1>0, <1>3, <3>1
    <3>3. QED
      BY <2>1, <3>2
  <2>4. QED
    BY <2>2, <2>3
<1>7. disc[longer[1]].depth + Len(longer) = disc[Final(longer)].depth + 1
  <2>1. disc[longer[1]] = disc[p] /\ Len(longer) = Len(way) + 1 /\ Final(longer) = Final(way)
    BY <1>3, <1>4
  <2>2. (disc[p].depth + 1) + Len(way) = disc[Final(way)].depth + 1
    BY <1>0, <1>2
  <2>3. disc[p].depth + (Len(way) + 1) = (disc[p].depth + 1) + Len(way)
    BY <1>1, <1>2
  <2>4. QED
    BY <2>1, <2>2, <2>3
<1>8. IsPath(m, c, ps, disc, kind, longer)
  BY <1>0, <1>3, <1>4, <1>5, <1>6, <1>7 DEF IsPath
<1>9. QED
  BY <1>1, <1>4, <1>8 DEF longer

\* The states of a path that begins at an initial one are a true trace.
LEMMA PathIsTrace ==
  ASSUME NEW m \in Models, NEW c \in Configs, NEW f, NEW ps, NEW disc, FirstFit(m, c, f, ps, disc),
         NEW kind, NEW way, IsPath(m, c, ps, disc, kind, way), ps[way[1]] = 0,
         NEW t, t = [k \in DOMAIN way |-> disc[way[k]].state]
  PROVE  /\ t \in Seq(States)
         /\ IsTrace(m, t)
         /\ InScope(c, Len(t) - 1)
         /\ Culprit(m, c, kind, Final(t))
         /\ Final(t) = disc[Final(way)].state
         /\ Len(t) = disc[Final(way)].depth + 1
<1>0. /\ way \in Seq(Nat) /\ way # << >> /\ Len(way) \in Nat /\ DOMAIN way = 1 .. Len(way)
      /\ \A i \in 1 .. Len(way) : way[i] \in 1 .. Len(disc)
      /\ \A i \in 1 .. Len(way) - 1 : ps[way[i + 1]] = way[i]
      /\ disc[way[1]].depth + Len(way) = disc[Final(way)].depth + 1
      /\ Culprit(m, c, kind, disc[Final(way)].state)
  BY ElementFacts DEF IsPath
<1>1. Len(way) # 0
  BY <1>0, TailFacts
<1>2. /\ 1 \in 1 .. Len(way) /\ Len(way) \in 1 .. Len(way)
      /\ \A i \in 1 .. Len(way) : disc[way[i]].state \in States
      /\ disc[way[1]].depth = 0 /\ disc[way[1]].state \in Range(m.init)
      /\ InScope(c, disc[Final(way)].depth) /\ disc[Final(way)].depth \in Nat
  <2>1. 1 \in 1 .. Len(way) /\ Len(way) \in 1 .. Len(way)
    BY <1>0, <1>1
  <2>2. /\ way[1] \in 1 .. Len(disc) /\ Final(way) \in 1 .. Len(disc)
        /\ \A i \in 1 .. Len(way) : way[i] \in 1 .. Len(disc)
    BY <1>0, <2>1 DEF Final
  <2>3. \A i \in 1 .. Len(way) : disc[way[i]].state \in States
    BY <2>2, FitsInScope
  <2>4. disc[way[1]].depth = 0 /\ disc[way[1]].state \in Range(m.init)
    BY <2>2, FitsInScope
  <2>5. InScope(c, disc[Final(way)].depth) /\ disc[Final(way)].depth \in Nat
    <3>1. PICK last \in 1 .. Len(disc) : last = Final(way)
      BY <2>2
    <3>2. InScope(c, disc[last].depth) /\ disc[last].depth \in Nat
      BY FitsInScope
    <3>3. QED
      BY <3>1, <3>2
  <2>6. QED
    BY <2>1, <2>3, <2>4, <2>5
<1>3. /\ t \in Seq(States) /\ Len(t) = Len(way)
      /\ \A i \in 1 .. Len(way) : t[i] = disc[way[i]].state
  BY <1>0, <1>2
<1>4. ASSUME NEW i \in 1 .. Len(t) - 1 PROVE t[i + 1] \in Range(m.step[t[i]])
  <2>1. i \in 1 .. Len(way) /\ i + 1 \in 1 .. Len(way) /\ i \in 1 .. Len(way) - 1
    BY <1>0, <1>3
  <2>2. ps[way[i + 1]] = way[i] /\ way[i] # 0 /\ way[i + 1] \in 1 .. Len(disc)
    BY <1>0, <2>1
  <2>3. disc[way[i + 1]].state \in Range(m.step[disc[way[i]].state])
    <3>1. PICK j \in 1 .. Len(disc) : j = way[i + 1]
      BY <2>2
    <3>2. ps[j] # 0 => disc[j].state \in Range(m.step[disc[ps[j]].state])
      BY FitsInScope
    <3>3. QED
      BY <2>2, <3>1, <3>2
  <2>4. QED
    BY <1>3, <2>1, <2>3
<1>5. t # << >> /\ t[1] \in Range(m.init)
  BY <1>1, <1>2, <1>3
<1>6. Len(t) - 1 = disc[Final(way)].depth /\ Len(t) = disc[Final(way)].depth + 1
  <2> DEFINE e == disc[Final(way)].depth
  <2>1. 0 + Len(way) = e + 1 /\ e \in Nat /\ Len(t) = Len(way) /\ Len(way) \in Nat
    BY <1>0, <1>2, <1>3
  <2> HIDE DEF e
  <2>2. Len(t) - 1 = e /\ Len(t) = e + 1
    BY <2>1
  <2>3. QED
    BY <2>2 DEF e
<1>7. Final(t) = disc[Final(way)].state
  BY <1>2, <1>3 DEF Final
<1>8. QED
  BY <1>0, <1>2, <1>3, <1>4, <1>5, <1>6, <1>7 DEF IsTrace

\* A traversal begins.
LEMMA ScanBegins ==
  ASSUME NEW m \in Models, NEW c, NEW f, NEW disc \in Seq(Node)
  PROVE  Scanning(m, c, f, disc, 0, 0, {}, << >>, m.init)
<1>1. Len(disc) \in Nat /\ m.init \in Seq(States) /\ Len(m.init) \in Nat
  BY ElementFacts, ModelFacts
<1>2. List(m, disc, 0) = m.init /\ Looked(c, disc, 0) /\ Prints(f, disc, 0) = {}
  BY DEF List, Looked, Prints
<1>3. Waiting(disc, 0, 0, << >>)
  BY EmptyFacts DEF Waiting
<1>4. Rest(m, f, disc, 0, 0, m.init, 0)
  BY <1>1, <1>2 DEF Rest
<1>5. QED
  BY <1>1, <1>2, <1>3, <1>4 DEF Scanning, Traversed

\* A path begins at its end.
LEMMA PathBegins ==
  ASSUME NEW m \in Models, NEW c, NEW ps, NEW disc \in Seq(Node),
         NEW kind \in {"violation", "deadlock", "error"},
         NEW target \in 1 .. Len(disc), Culprit(m, c, kind, disc[target].state)
  PROVE  IsPath(m, c, ps, disc, kind, <<target>>)
<1>1. target \in Nat /\ disc[target].depth \in Nat
  <2>1. Len(disc) \in Nat /\ disc[target] \in Node
    BY ElementFacts
  <2>2. QED
    BY <2>1 DEF Node
<1>2. <<target>> \in Seq(Nat) /\ Len(<<target>>) = 1 /\ <<target>>[1] = target /\ <<target>> # << >>
  BY <1>1
<1>3. Final(<<target>>) = target
  BY <1>2 DEF Final
<1>4. QED
  BY <1>1, <1>2, <1>3 DEF IsPath

-----------------------------------------------------------------------------
(***************************************************************************)
(* The invariant: the state of the search and of the reconstruction, as    *)
(* seen from the list of discoveries.                                      *)
(***************************************************************************)
First == {"init", "expand", "pop"}

Second == {"reinit", "reexpand", "repop"}

Begun(disc) ==
  /\ pc = "start" => parents = << >> /\ fps = {} /\ frontier = << >> /\ popped = 0
  /\ pc \notin {"start", "done"} => ~ model.initError
  /\ pc \in {"init", "reinit"} => popped = 0
  /\ pc \in {"expand", "reexpand"} => popped # 0 /\ depth = disc[popped].depth

FirstPass(disc) ==
  /\ pc \in {"init", "expand"} =>
       Scanning(model, cfg, fp, disc, Len(parents), popped, fps, frontier, todo)
  /\ pc = "pop" => Between(model, cfg, fp, disc, Len(parents), popped, fps, frontier)
  /\ pc \in First => \A q \in 1 .. popped : disc[q].state \notin model.stepError

SecondPass(disc) ==
  /\ pc \in {"reinit", "reexpand"} =>
       Scanning(model, cfg, fp, disc, counter, popped, fps, frontier, todo)
  /\ pc = "repop" => Between(model, cfg, fp, disc, counter, popped, fps, frontier)
  /\ pc \in Second => counter < Final(path)

OnPath(disc) ==
  /\ pc \in {"start"} \cup First => path = << >>
  /\ pc \in {"path"} \cup Second => path # << >>
  /\ path # << >> => IsPath(model, cfg, parents, disc, pending, path)
  /\ path # << >> /\ pc # "path" => parents[path[1]] = 0

Recorded(disc) ==
  /\ pc \in {"start", "path"} \cup First => counter = 0
  /\ counter <= Len(parents)
  /\ DOMAIN found = {i \in Range(path) : i <= counter}
  /\ \A i \in DOMAIN found : found[i] = disc[i].state

Reported == (pc # "done" => outcome = Running) /\ TracesAreReal

Agrees(disc) ==
  /\ FirstFit(model, cfg, fp, parents, disc)
  /\ Begun(disc)
  /\ FirstPass(disc)
  /\ SecondPass(disc)
  /\ OnPath(disc)
  /\ Recorded(disc)

IInv == TypeOK /\ Reported /\ \E disc : Agrees(disc)

\* What holds of the discoveries.
LEMMA AgreesFacts ==
  ASSUME TypeOK, NEW disc, Agrees(disc)
  PROVE  /\ model \in Models /\ cfg \in Configs /\ fp \in [States -> Nat]
         /\ disc \in Seq(Node) /\ Len(disc) \in Nat /\ Len(parents) = Len(disc)
         /\ counter \in Nat /\ popped \in Nat
BY ElementFacts, FingerprintAssumption DEF TypeOK, Agrees, FirstFit

(***************************************************************************)
(* Steps that change what is listed only.                                  *)
(***************************************************************************)
LEMMA SkipAgrees ==
  ASSUME TypeOK, NEW disc, Agrees(disc), Skip
  PROVE  Agrees(disc)'
<1>0. /\ model \in Models /\ disc \in Seq(Node)
      /\ FirstFit(model, cfg, fp, parents, disc) /\ Begun(disc) /\ FirstPass(disc)
      /\ SecondPass(disc) /\ OnPath(disc) /\ Recorded(disc)
  BY AgreesFacts DEF Agrees
<1>1. /\ todo # << >> /\ fp[Head(todo)] \in fps /\ todo' = Tail(todo)
      /\ UNCHANGED <<model, cfg, fp, pc, fps, parents, frontier, popped, depth, pending, path,
                     counter, found>>
  BY DEF Skip, LooksSeen, problem, traceVars
<1>2. FirstFit(model, cfg, fp, parents, disc)'
  BY <1>0, <1>1 DEF FirstFit, Fits
<1>3. Begun(disc)' /\ OnPath(disc)' /\ Recorded(disc)'
  BY <1>0, <1>1 DEF Begun, OnPath, Recorded
<1>4. FirstPass(disc)'
  BY <1>0, <1>1, ScanSkips DEF FirstPass
<1>5. SecondPass(disc)'
  BY <1>0, <1>1, ScanSkips DEF SecondPass
<1>6. QED
  BY <1>2, <1>3, <1>4, <1>5 DEF Agrees

\* InitFails and EnumerateInit.
LEMMA StartAgrees ==
  ASSUME TypeOK, NEW disc, Agrees(disc), InitFails \/ EnumerateInit
  PROVE  Agrees(disc)'
<1>0. /\ model \in Models /\ disc \in Seq(Node) /\ Len(disc) = Len(parents)
      /\ FirstFit(model, cfg, fp, parents, disc) /\ Begun(disc) /\ FirstPass(disc)
      /\ SecondPass(disc) /\ OnPath(disc) /\ Recorded(disc)
  BY AgreesFacts DEF Agrees
<1>1. /\ pc = "start" /\ pc' \in {"init", "done"}
      /\ pc' = "init" => todo' = model.init /\ ~ model.initError
      /\ UNCHANGED <<model, cfg, fp, fps, parents, frontier, popped, depth, pending, path,
                     counter, found>>
  BY DEF InitFails, EnumerateInit, problem, traceVars
<1>2. parents = << >> /\ fps = {} /\ frontier = << >> /\ popped = 0 /\ path = << >> /\ counter = 0
  BY <1>0, <1>1 DEF Begun, OnPath, Recorded
<1>3. FirstFit(model, cfg, fp, parents, disc)'
  BY <1>0, <1>1 DEF FirstFit, Fits
<1>4. Begun(disc)' /\ OnPath(disc)' /\ Recorded(disc)' /\ SecondPass(disc)'
  BY <1>0, <1>1, <1>2 DEF Begun, OnPath, Recorded, SecondPass, First, Second
<1>5. FirstPass(disc)'
  <2>1. Scanning(model, cfg, fp, disc, 0, 0, {}, << >>, model.init)
    BY <1>0, ScanBegins
  <2>2. Len(parents) = 0
    BY <1>2
  <2>3. QED
    BY <1>1, <1>2, <2>1, <2>2 DEF FirstPass, First
<1>6. QED
  BY <1>3, <1>4, <1>5 DEF Agrees

\* At the end of a list the traversals agree still.
LEMMA ListDoneAgrees ==
  ASSUME TypeOK, NEW disc, Agrees(disc), ListDone
  PROVE  Agrees(disc)'
<1>0. /\ model \in Models /\ disc \in Seq(Node)
      /\ FirstFit(model, cfg, fp, parents, disc) /\ Begun(disc) /\ FirstPass(disc)
      /\ SecondPass(disc) /\ OnPath(disc) /\ Recorded(disc)
  BY AgreesFacts DEF Agrees
<1>1. /\ todo = << >>
      /\ \/ pc \in {"init", "expand"} /\ pc' = "pop"
         \/ pc \in {"reinit", "reexpand"} /\ pc' = "repop"
      /\ UNCHANGED <<model, cfg, fp, fps, parents, frontier, popped, depth, pending, path,
                     counter, found>>
  BY DEF ListDone, problem, traceVars
<1>2. FirstFit(model, cfg, fp, parents, disc)'
  BY <1>0, <1>1 DEF FirstFit, Fits
<1>3. Begun(disc)' /\ OnPath(disc)' /\ Recorded(disc)'
  BY <1>0, <1>1 DEF Begun, OnPath, Recorded, First, Second
<1>4. FirstPass(disc)'
  BY <1>0, <1>1, ScanEnds DEF FirstPass, First
<1>5. SecondPass(disc)'
  BY <1>0, <1>1, ScanEnds DEF SecondPass, Second
<1>6. QED
  BY <1>2, <1>3, <1>4, <1>5 DEF Agrees

\* ReportPass, and nothing.
LEMMA RestAgrees ==
  ASSUME TypeOK, NEW disc, Agrees(disc),
         ReportPass \/ UNCHANGED vars
  PROVE  Agrees(disc)'
<1>0. /\ FirstFit(model, cfg, fp, parents, disc) /\ Begun(disc) /\ FirstPass(disc)
      /\ SecondPass(disc) /\ OnPath(disc) /\ Recorded(disc)
  BY DEF Agrees
<1>1. /\ pc' \in {pc, "done"}
      /\ UNCHANGED <<model, cfg, fp, todo, fps, parents, frontier, popped, depth, pending, path,
                     counter, found>>
      /\ pc' = "done" => pc \in {"pop", "done"}
  BY DEF ReportPass, vars, problem, traceVars
<1>2. FirstFit(model, cfg, fp, parents, disc)'
  BY <1>0, <1>1 DEF FirstFit, Fits
<1>3. Begun(disc)' /\ OnPath(disc)' /\ Recorded(disc)'
  BY <1>0, <1>1 DEF Begun, OnPath, Recorded, First, Second
<1>4. FirstPass(disc)' /\ SecondPass(disc)'
  BY <1>0, <1>1 DEF FirstPass, SecondPass, First, Second
<1>5. QED
  BY <1>2, <1>3, <1>4 DEF Agrees

(***************************************************************************)
(* The search pops a state.                                                *)
(***************************************************************************)
LEMMA PopAgrees ==
  ASSUME TypeOK, NEW disc, Agrees(disc), PopForSearch,
         StepFails \/ FindDeadlock \/ StopAtBound \/ Expand
  PROVE  Agrees(disc)'
<1>0. /\ model \in Models /\ disc \in Seq(Node) /\ Len(disc) = Len(parents)
      /\ FirstFit(model, cfg, fp, parents, disc) /\ Begun(disc) /\ FirstPass(disc)
      /\ SecondPass(disc) /\ OnPath(disc) /\ Recorded(disc)
  BY AgreesFacts DEF Agrees
<1>1. /\ pc = "pop" /\ frontier # << >> /\ frontier' = Tail(frontier) /\ popped' = popped + 1
      /\ depth' = Head(frontier).depth
      /\ UNCHANGED <<model, cfg, fp, fps, parents>>
  BY DEF PopForSearch, Pop, problem
<1>2. Between(model, cfg, fp, disc, Len(parents), popped, fps, frontier)
  BY <1>0, <1>1 DEF FirstPass
<1>3. /\ popped \in Nat /\ popped + 1 \in 1 .. Len(parents)
      /\ Head(frontier).state = disc[popped + 1].state /\ Head(frontier).depth = disc[popped + 1].depth
      /\ Reached(cfg.maxSteps, Head(frontier).depth) =>
           Between(model, cfg, fp, disc, Len(parents), popped + 1, fps, Tail(frontier))
      /\ ~ Reached(cfg.maxSteps, Head(frontier).depth) =>
           Scanning(model, cfg, fp, disc, Len(parents), popped + 1, fps, Tail(frontier),
                    model.step[Head(frontier).state])
  <2>1. model \in Models /\ disc \in Seq(Node) /\ frontier # << >>
    BY <1>0, <1>1
  <2>2. PopsNext(model, cfg, fp, disc, Len(parents), popped, fps, frontier)
    BY <1>2, <2>1, PopGoesOn
  <2>3. QED
    BY <2>2 DEF PopsNext
<1>4. FirstFit(model, cfg, fp, parents, disc)'
  BY <1>0, <1>1 DEF FirstFit, Fits
<1>5. path = << >> /\ counter = 0 /\ ~ model.initError
      /\ \A q \in 1 .. popped : disc[q].state \notin model.stepError
  BY <1>0, <1>1 DEF OnPath, Recorded, Begun, FirstPass, First
<1>6. CASE StepFails \/ FindDeadlock
  <2>1. /\ pc' = "path" /\ path' = <<popped + 1>> /\ UNCHANGED <<counter, found>>
        /\ pending' \in {"error", "deadlock"}
        /\ Culprit(model, cfg, pending', disc[popped + 1].state)
    BY <1>3, <1>6 DEF StepFails, FindDeadlock, Reconstruct, Culprit
  <2>2. IsPath(model, cfg, parents, disc, pending', <<popped + 1>>)
    BY <1>0, <1>3, <2>1, PathBegins
  <2>3. DOMAIN found = {} /\ <<popped + 1>> # << >> /\ Range(<<popped + 1>>) = {popped + 1}
    BY <1>0, <1>5 DEF Recorded, Range
  <2>4. Recorded(disc)'
    BY <1>0, <1>1, <1>3, <1>5, <2>1, <2>3 DEF Recorded
  <2>5. OnPath(disc)'
    BY <1>1, <2>1, <2>2, <2>3 DEF OnPath, First, Second
  <2>6. Begun(disc)' /\ FirstPass(disc)' /\ SecondPass(disc)'
    BY <1>1, <1>5, <2>1 DEF Begun, FirstPass, SecondPass, First, Second
  <2>7. QED
    BY <1>4, <2>4, <2>5, <2>6 DEF Agrees
<1>7. CASE StopAtBound \/ Expand
  <2>1. /\ Expandable(Head(frontier).state)
        /\ UNCHANGED <<pending, path, counter, found>>
        /\ \/ Reached(cfg.maxSteps, Head(frontier).depth) /\ pc' = pc
           \/ /\ ~ Reached(cfg.maxSteps, Head(frontier).depth) /\ pc' = "expand"
              /\ todo' = model.step[Head(frontier).state]
    BY <1>7 DEF StopAtBound, Expand, traceVars
  <2>2. \A q \in 1 .. popped' : disc[q].state \notin model.stepError
    <3>1. \A q \in 1 .. popped + 1 : q \in 1 .. popped \/ q = popped + 1
      BY <1>3
    <3>2. QED
      BY <1>1, <1>3, <1>5, <2>1, <3>1 DEF Expandable
  <2>3. OnPath(disc)' /\ Recorded(disc)'
    BY <1>0, <1>1, <1>5, <2>1 DEF OnPath, Recorded, First, Second
  <2>4. Begun(disc)'
    BY <1>1, <1>3, <1>5, <2>1 DEF Begun
  <2>5. FirstPass(disc)'
    BY <1>1, <1>3, <2>1, <2>2 DEF FirstPass, First
  <2>6. SecondPass(disc)'
    BY <1>1, <2>1 DEF SecondPass, Second
  <2>7. QED
    BY <1>4, <2>2, <2>3, <2>4, <2>5, <2>6 DEF Agrees
<1>8. QED
  BY <1>6, <1>7

(***************************************************************************)
(* The search makes a discovery.                                           *)
(***************************************************************************)
IsLonger(longer, disc, s) ==
  /\ Len(longer) = Len(disc) + 1
  /\ \A i \in 1 .. Len(disc) : longer[i] = disc[i]
  /\ longer[Len(disc) + 1].state = s

\* A fresh state is the next discovery.
LEMMA AdmitAgrees ==
  ASSUME TypeOK, NEW disc, Agrees(disc), AdmitInitial \/ AdmitSuccessor
  PROVE  \E longer : Agrees(longer)' /\ IsLonger(longer, disc, Head(todo))
<1>0. /\ model \in Models /\ cfg \in Configs /\ fp \in [States -> Nat]
      /\ disc \in Seq(Node) /\ Len(disc) = Len(parents) /\ Len(disc) \in Nat
      /\ FirstFit(model, cfg, fp, parents, disc) /\ Begun(disc) /\ FirstPass(disc)
      /\ OnPath(disc) /\ Recorded(disc)
  BY AgreesFacts DEF Agrees
<1> DEFINE s == Head(todo)
           p == popped
           index == Len(parents) + 1
<1>1. /\ pc \in {"init", "expand"} /\ todo # << >> /\ fp[s] \notin fps
      /\ fps' = fps \cup {fp[s]}
      /\ parents' = Append(parents, p)
      /\ UNCHANGED <<model, cfg, fp, popped, depth>>
      /\ \/ /\ model.invs[s] # "holds"
            /\ pending' = IF model.invs[s] = "violated" THEN "violation" ELSE "error"
            /\ path' = <<index>> /\ pc' = "path" /\ UNCHANGED <<counter, found>>
         \/ /\ model.invs[s] = "holds"
            /\ frontier' = Append(frontier, [state |-> s, depth |-> Below(disc, p)])
            /\ \/ pc' = "done"
               \/ pc' = pc /\ todo' = Tail(todo)
            /\ UNCHANGED <<pending, path, counter, found>>
  <2>1. CASE AdmitInitial
    <3>1. pc = "init" /\ todo # << >> /\ Admit(s, NoParent, 0) /\ p = 0
      BY <1>0, <2>1 DEF AdmitInitial, Begun
    <3>2. Below(disc, p) = 0
      BY <3>1 DEF Below
    <3>3. QED
      BY <3>1, <3>2 DEF Admit, Reconstruct, LooksSeen, NoParent, problem, traceVars
  <2>2. CASE AdmitSuccessor
    <3>1. pc = "expand" /\ todo # << >> /\ Admit(s, p, depth + 1) /\ p # 0 /\ depth = disc[p].depth
      BY <1>0, <2>2 DEF AdmitSuccessor, Begun
    <3>2. Below(disc, p) = depth + 1
      BY <3>1 DEF Below
    <3>3. QED
      BY <3>1, <3>2 DEF Admit, Reconstruct, LooksSeen, problem, traceVars
  <2>3. QED
    BY <2>1, <2>2
<1>2. /\ Scanning(model, cfg, fp, disc, Len(disc), p, fps, frontier, todo)
      /\ \A q \in 1 .. p : disc[q].state \notin model.stepError
  BY <1>0, <1>1 DEF FirstPass, First
<1>3. PICK x \in Node :
        /\ x.state = s /\ x.depth = Below(disc, p)
        /\ FirstFit(model, cfg, fp, Append(parents, p), Append(disc, x))
  BY <1>0, <1>1, <1>2, DiscoveryFits
<1> DEFINE longer == Append(disc, x)
<1>4. /\ longer \in Seq(Node) /\ Len(longer) = Len(disc) + 1 /\ longer[index] = x
      /\ \A i \in 1 .. Len(disc) : longer[i] = disc[i]
  BY <1>0, AppendFacts
<1> HIDE DEF longer
<1>5. FirstFit(model, cfg, fp, parents, longer)'
  <2>1. FirstFit(model, cfg, fp, parents', longer)
    BY <1>1, <1>3 DEF longer
  <2>2. QED
    BY <1>1, <2>1 DEF FirstFit, Fits
<1>6. /\ path = << >> /\ counter = 0 /\ DOMAIN found = {} /\ ~ model.initError
      /\ p \in 0 .. Len(disc) /\ Len(parents') = Len(disc) + 1
  <2>1. path = << >> /\ counter = 0 /\ ~ model.initError
    BY <1>0, <1>1 DEF OnPath, Recorded, Begun, First
  <2>2. DOMAIN found = {}
    BY <1>0, <2>1 DEF Recorded, Range
  <2>3. p \in 0 .. Len(disc)
    BY <1>2 DEF Scanning, Traversed, Waiting
  <2>4. Len(parents') = Len(longer)
    BY <1>1, <1>3 DEF FirstFit, longer
  <2>5. QED
    BY <1>4, <2>1, <2>2, <2>3, <2>4
<1>7. Begun(longer)'
  <2>1. p # 0 => longer[p] = disc[p]
    BY <1>0, <1>4, <1>6
  <2>2. pc' \in {"path", "done"} \/ pc' = pc
    BY <1>1
  <2>3. QED
    BY <1>0, <1>1, <1>6, <2>1, <2>2 DEF Begun
<1>8. IsLonger(longer, disc, s)
  BY <1>0, <1>3, <1>4 DEF IsLonger
<1>9. CASE model.invs[s] # "holds"
  <2>1. /\ pc' = "path" /\ path' = <<index>> /\ UNCHANGED <<counter, found>>
        /\ pending' = IF model.invs[s] = "violated" THEN "violation" ELSE "error"
    BY <1>1, <1>9
  <2>2. IsPath(model, cfg, parents', longer, pending', <<index>>)
    <3>1. Culprit(model, cfg, pending', longer[index].state)
      <4>1. s \in States
        BY <1>3 DEF Node
      <4>2. model.invs[s] \in {"holds", "violated", "error"}
        BY <1>0, <4>1, ModelFacts DEF Verdicts
      <4>3. QED
        BY <1>3, <1>4, <1>9, <2>1, <4>2 DEF Culprit
    <3>2. index \in 1 .. Len(longer)
      BY <1>0, <1>4
    <3>3. pending' \in {"violation", "deadlock", "error"}
      BY <2>1
    <3>4. QED
      BY <1>0, <1>4, <3>1, <3>2, <3>3, PathBegins
  <2>3. <<index>> # << >> /\ Range(<<index>>) = {index} /\ index \in Nat \ {0}
    BY <1>0 DEF Range
  <2>4. Recorded(longer)'
    BY <1>0, <1>1, <1>6, <2>1, <2>3 DEF Recorded
  <2>5. OnPath(longer)'
    BY <1>1, <2>1, <2>2, <2>3 DEF OnPath, First, Second
  <2>6. FirstPass(longer)' /\ SecondPass(longer)'
    BY <2>1 DEF FirstPass, SecondPass, First, Second
  <2>7. QED
    BY <1>5, <1>7, <1>8, <2>4, <2>5, <2>6 DEF Agrees
<1>10. CASE model.invs[s] = "holds"
  <2> DEFINE e == [state |-> s, depth |-> Below(disc, p)]
  <2>1. /\ frontier' = Append(frontier, e)
        /\ pc' = "done" \/ (pc' = pc /\ todo' = Tail(todo))
        /\ UNCHANGED <<pending, path, counter, found>>
    BY <1>1, <1>10
  <2>2. OnPath(longer)' /\ Recorded(longer)'
    <3>1. Range(path) = {}
      BY <1>6 DEF Range
    <3>2. pc' \in {"init", "expand", "done"}
      BY <1>1, <2>1
    <3>3. QED
      BY <1>0, <1>6, <2>1, <3>1, <3>2 DEF OnPath, Recorded, First, Second
  <2>3. SecondPass(longer)'
    BY <1>1, <2>1 DEF SecondPass, Second
  <2>4. FirstPass(longer)'
    <3>1. CASE pc' = "done"
      BY <3>1 DEF FirstPass, First
    <3>2. CASE pc' = pc /\ todo' = Tail(todo)
      <4>1. Scanning(model, cfg, fp, longer, Len(disc), p, fps, frontier, todo)
        <5>1. Len(disc) <= Len(longer)
          BY <1>0, <1>4
        <5>2. QED
          BY <1>0, <1>2, <1>4, <5>1, SameScan
      <4>2. e \in Waits /\ e.state = s /\ e.depth = longer[index].depth
        BY <1>3, <1>4 DEF Waits, Node
      <4>3. Scanning(model, cfg, fp, longer, Len(disc) + 1, p, fps \cup {fp[s]}, Append(frontier, e), Tail(todo))
        <5>1. Len(disc) + 1 <= Len(longer) /\ longer[Len(disc) + 1].state = Head(todo)
              /\ e.depth = longer[Len(disc) + 1].depth
          BY <1>0, <1>3, <1>4, <4>2
        <5> HIDE DEF e, s
        <5>2. e.state = Head(todo) /\ fp[s] = fp[Head(todo)]
          BY <4>2 DEF s
        <5>3. QED
          BY <1>0, <1>1, <1>4, <4>1, <4>2, <5>1, <5>2, ScanDiscovers
      <4>4. \A q \in 1 .. p : longer[q].state \notin model.stepError
        <5>1. \A q \in 1 .. p : q \in 1 .. Len(disc)
          BY <1>0, <1>6
        <5>2. QED
          BY <1>2, <1>4, <5>1
      <4>5. QED
        BY <1>1, <1>6, <2>1, <3>2, <4>3, <4>4 DEF FirstPass, First
    <3>3. QED
      BY <2>1, <3>1, <3>2
  <2>5. QED
    BY <1>5, <1>7, <1>8, <2>2, <2>3, <2>4 DEF Agrees
<1>11. QED
  BY <1>9, <1>10
-----------------------------------------------------------------------------
(***************************************************************************)
(* The way back to an initial state.                                       *)
(***************************************************************************)
\* The places on a path are numbers of discoveries.
LEMMA OnPathFacts ==
  ASSUME NEW m, NEW c, NEW ps, NEW disc \in Seq(Node), NEW kind, NEW way,
         IsPath(m, c, ps, disc, kind, way)
  PROVE  /\ Range(way) \subseteq 1 .. Len(disc)
         /\ Head(way) = way[1] /\ way[1] \in Range(way)
         /\ Final(way) \in Range(way)
         /\ \A i \in Range(way) : i <= Final(way)
         /\ \A i \in Range(way) : ps[i] # 0 /\ ps[way[1]] = 0 => ps[i] \in Range(way)
<1>1. /\ way \in Seq(Nat) /\ way # << >>
      /\ \A i \in 1 .. Len(way) : way[i] \in 1 .. Len(disc) /\ way[i] <= Final(way)
      /\ \A i \in 1 .. Len(way) - 1 : ps[way[i + 1]] = way[i]
  BY DEF IsPath
<1>2. /\ Len(way) \in Nat \ {0} /\ DOMAIN way = 1 .. Len(way) /\ Head(way) = way[1]
      /\ 1 \in 1 .. Len(way) /\ Len(way) \in 1 .. Len(way)
  BY <1>1, TailFacts, ElementFacts
<1>3. ASSUME NEW k \in 1 .. Len(way), ps[way[k]] # 0, ps[way[1]] = 0
      PROVE  ps[way[k]] \in Range(way)
  <2>1. k # 1
    BY <1>3
  <2>2. k - 1 \in 1 .. Len(way) - 1 /\ k - 1 \in 1 .. Len(way) /\ (k - 1) + 1 = k
    BY <1>2, <2>1
  <2>3. ps[way[k]] = way[k - 1]
    BY <1>1, <2>2
  <2>4. QED
    BY <1>2, <2>2, <2>3 DEF Range
<1>4. \A i \in Range(way) : \E k \in 1 .. Len(way) : i = way[k]
  BY <1>2 DEF Range
<1>5. way[1] \in Range(way) /\ Final(way) \in Range(way)
  BY <1>2 DEF Range, Final
<1>6. QED
  BY <1>1, <1>2, <1>3, <1>4, <1>5

\* The parent of a path's first index comes before it.
LEMMA WalkAgrees ==
  ASSUME TypeOK, NEW disc, Agrees(disc), WalkParents
  PROVE  Agrees(disc)'
<1>0. /\ model \in Models /\ cfg \in Configs /\ disc \in Seq(Node) /\ Len(disc) = Len(parents)
      /\ FirstFit(model, cfg, fp, parents, disc) /\ Begun(disc) /\ FirstPass(disc)
      /\ SecondPass(disc) /\ OnPath(disc) /\ Recorded(disc)
  BY AgreesFacts DEF Agrees
<1>1. /\ pc = "path" /\ parents[Head(path)] # 0
      /\ path' = <<parents[Head(path)]>> \o path
      /\ UNCHANGED <<model, cfg, fp, pc, todo, fps, parents, frontier, popped, depth, pending,
                     counter, found>>
  BY DEF WalkParents, problem, NoParent
<1>2. path # << >> /\ IsPath(model, cfg, parents, disc, pending, path) /\ counter = 0
  BY <1>0, <1>1 DEF OnPath, Recorded
<1>3. IsPath(model, cfg, parents, disc, pending, path')
  BY <1>0, <1>1, <1>2, PathGrows
<1>4. FirstFit(model, cfg, fp, parents, disc)'
  BY <1>0, <1>1 DEF FirstFit, Fits
<1>5. Begun(disc)' /\ FirstPass(disc)' /\ SecondPass(disc)'
  BY <1>0, <1>1 DEF Begun, FirstPass, SecondPass, First, Second
<1>6. path' # << >>
  BY <1>3 DEF IsPath
<1>7. OnPath(disc)'
  BY <1>1, <1>3, <1>6 DEF OnPath, First, Second
<1>8. Recorded(disc)'
  <2>1. {i \in Range(path) : i <= 0} = {} /\ {i \in Range(path') : i <= 0} = {}
    <3>1. Range(path) \subseteq 1 .. Len(disc) /\ Range(path') \subseteq 1 .. Len(disc)
      BY <1>0, <1>2, <1>3, OnPathFacts
    <3>2. QED
      BY <3>1
  <2>2. QED
    BY <1>0, <1>1, <1>2, <2>1 DEF Recorded
<1>9. QED
  BY <1>4, <1>5, <1>7, <1>8 DEF Agrees

(***************************************************************************)
(* The second traversal begins.                                            *)
(***************************************************************************)
LEMMA StartAgainAgrees ==
  ASSUME TypeOK, NEW disc, Agrees(disc), StartAgain
  PROVE  Agrees(disc)' /\ UNCHANGED outcome /\ pc' # "done"
<1>0. /\ model \in Models /\ disc \in Seq(Node) /\ Len(disc) \in Nat
      /\ FirstFit(model, cfg, fp, parents, disc) /\ Begun(disc)
      /\ OnPath(disc) /\ Recorded(disc)
  BY AgreesFacts DEF Agrees
<1>1. /\ pc = "path" /\ parents[Head(path)] = 0 /\ fps' = {} /\ frontier' = << >>
      /\ popped' = 0 /\ pc' = "reinit" /\ todo' = model.init
      /\ UNCHANGED <<model, cfg, fp, parents, pending, path, counter, found, outcome>>
  BY <1>0 DEF StartAgain, Begun, problem, traceVars, NoParent
<1>2. path # << >> /\ IsPath(model, cfg, parents, disc, pending, path) /\ counter = 0
  BY <1>0, <1>1 DEF OnPath, Recorded
<1>3. Head(path) = path[1] /\ counter < Final(path)
  <2>1. Head(path) = path[1] /\ Final(path) \in 1 .. Len(disc)
    BY <1>0, <1>2, OnPathFacts
  <2>2. QED
    BY <1>0, <1>2, <2>1
<1>4. Scanning(model, cfg, fp, disc, 0, 0, {}, << >>, model.init)
  BY <1>0, ScanBegins
<1>5. FirstFit(model, cfg, fp, parents, disc)'
  BY <1>0, <1>1 DEF FirstFit, Fits
<1>6. Begun(disc)' /\ FirstPass(disc)'
  BY <1>0, <1>1 DEF Begun, FirstPass, First
<1>7. OnPath(disc)' /\ Recorded(disc)'
  BY <1>0, <1>1, <1>2, <1>3 DEF OnPath, Recorded, First, Second
<1>8. SecondPass(disc)'
  BY <1>1, <1>2, <1>3, <1>4 DEF SecondPass, Second
<1>9. QED
  BY <1>1, <1>5, <1>6, <1>7, <1>8 DEF Agrees

(***************************************************************************)
(* The second traversal makes a discovery: it is the next of the first, so *)
(* its state is kept under the right number, and when all states of the    *)
(* path are there they are the trace.                                      *)
(***************************************************************************)
LEMMA RediscoverAgrees ==
  ASSUME TypeOK, NEW disc, Agrees(disc), RediscoverInitial \/ RediscoverSuccessor
  PROVE  /\ Agrees(disc)'
         /\ \/ pc' = pc /\ UNCHANGED outcome
            \/ /\ pc' = "done" /\ TracesAreReal' /\ outcome' \in OutcomeType
               /\ outcome' = Counterexample(pending, [k \in DOMAIN path |-> disc[path[k]].state])
               /\ parents[path[1]] = 0 /\ path # << >>
<1>0. /\ model \in Models /\ cfg \in Configs /\ disc \in Seq(Node)
      /\ Len(disc) \in Nat /\ Len(disc) = Len(parents) /\ counter \in Nat
      /\ FirstFit(model, cfg, fp, parents, disc) /\ Begun(disc)
      /\ SecondPass(disc) /\ OnPath(disc) /\ Recorded(disc)
  BY AgreesFacts DEF Agrees
<1> DEFINE s == Head(todo)
           p == popped
           index == counter + 1
           e == [state |-> s, depth |-> Below(disc, p)]
           all == DOMAIN found' = Range(path)
<1>1. /\ pc \in {"reinit", "reexpand"} /\ todo # << >> /\ fp[s] \notin fps
      /\ fps' = fps \cup {fp[s]} /\ counter' = index
      /\ found' = IF index \in Range(path)
                  THEN [i \in DOMAIN found \cup {index} |-> IF i = index THEN s ELSE found[i]]
                  ELSE found
      /\ all =>
           /\ outcome' = Counterexample(pending, [k \in DOMAIN path |-> found'[path[k]]])
           /\ pc' = "done"
      /\ ~ all => frontier' = Append(frontier, e) /\ todo' = Tail(todo) /\ UNCHANGED <<pc, outcome>>
      /\ UNCHANGED <<model, cfg, fp, parents, popped, depth, pending, path>>
  <2>1. CASE RediscoverInitial
    <3>1. pc = "reinit" /\ todo # << >> /\ Rediscover(s, 0) /\ p = 0
      BY <1>0, <2>1 DEF RediscoverInitial, Begun
    <3>2. Below(disc, p) = 0
      BY <3>1 DEF Below
    <3>3. QED
      BY <3>1, <3>2 DEF Rediscover, LooksSeen, problem
  <2>2. CASE RediscoverSuccessor
    <3>1. pc = "reexpand" /\ todo # << >> /\ Rediscover(s, depth + 1) /\ p # 0 /\ depth = disc[p].depth
      BY <1>0, <2>2 DEF RediscoverSuccessor, Begun
    <3>2. Below(disc, p) = depth + 1
      BY <3>1 DEF Below
    <3>3. QED
      BY <3>1, <3>2 DEF Rediscover, LooksSeen, problem
  <2>3. QED
    BY <2>1, <2>2
<1>2. /\ Scanning(model, cfg, fp, disc, counter, p, fps, frontier, todo)
      /\ path # << >> /\ IsPath(model, cfg, parents, disc, pending, path)
      /\ parents[path[1]] = 0 /\ counter < Final(path)
  BY <1>0, <1>1 DEF SecondPass, OnPath, Second
<1>3. /\ Range(path) \subseteq 1 .. Len(disc) /\ Final(path) \in Range(path)
      /\ \A i \in Range(path) : i <= Final(path)
  BY <1>0, <1>2, OnPathFacts
<1>4. counter < Len(disc) /\ index <= Len(disc) /\ index <= Final(path) /\ Final(path) \in Nat
  BY <1>0, <1>2, <1>3
<1>5. disc[index].state = s /\ disc[index].depth = Below(disc, p) /\ disc[index].depth \in Nat /\ s \in States
  <2>1. disc[index].state = s /\ disc[index].depth = Below(disc, p)
    BY <1>0, <1>1, <1>2, <1>4, DiscoveriesAgree
  <2>2. index \in 1 .. Len(disc)
    BY <1>0, <1>4
  <2>3. QED
    BY <1>0, <2>1, <2>2, FitsInScope
<1>6. Recorded(disc)'
  <2>1. DOMAIN found = {i \in Range(path) : i <= counter}
        /\ \A i \in DOMAIN found : found[i] = disc[i].state
    BY <1>0 DEF Recorded
  <2>2. \A i \in Range(path) : i <= index <=> i <= counter \/ i = index
    BY <1>0, <1>3
  <2>3. DOMAIN found' = {i \in Range(path) : i <= index}
    BY <1>1, <2>1, <2>2
  <2>4. \A i \in DOMAIN found' : found'[i] = disc[i].state
    BY <1>1, <1>5, <2>1
  <2>5. pc' \in {"reinit", "reexpand", "done"}
    BY <1>1
  <2>6. QED
    BY <1>0, <1>1, <1>4, <2>3, <2>4, <2>5 DEF Recorded, First
<1>7. FirstFit(model, cfg, fp, parents, disc)'
  BY <1>0, <1>1 DEF FirstFit, Fits
<1>8. Begun(disc)' /\ OnPath(disc)' /\ FirstPass(disc)'
  <2>1. pc' = pc \/ pc' = "done"
    BY <1>1
  <2>2. QED
    BY <1>0, <1>1, <1>2, <2>1 DEF Begun, OnPath, FirstPass, First, Second
<1>9. CASE all
  <2> DEFINE t == [k \in DOMAIN path |-> disc[path[k]].state]
  <2>1. [k \in DOMAIN path |-> found'[path[k]]] = t
    <3>1. \A k \in DOMAIN path : path[k] \in Range(path)
      BY DEF Range
    <3>2. \A k \in DOMAIN path : found'[path[k]] = disc[path[k]].state
      BY <1>1, <1>6, <1>9, <3>1 DEF Recorded
    <3>3. QED
      BY <3>2
  <2>2. outcome' = Counterexample(pending, t) /\ pc' = "done"
    BY <1>1, <1>9, <2>1
  <2>3. /\ t \in Seq(States) /\ IsTrace(model, t) /\ InScope(cfg, Len(t) - 1)
        /\ Culprit(model, cfg, pending, Final(t))
    BY <1>0, <1>2, PathIsTrace
  <2>4. pending \in {"violation", "deadlock", "error"}
    BY <1>2 DEF IsPath
  <2> HIDE DEF t
  <2>5. outcome'.kind = pending /\ outcome'.trace = t /\ outcome' \in OutcomeType
    BY <2>2, <2>3, <2>4 DEF Counterexample, Outcome, OutcomeType
  <2>6. TracesAreReal'
    BY <1>1, <2>3, <2>5 DEF TracesAreReal
  <2>7. SecondPass(disc)'
    BY <2>2 DEF SecondPass, Second
  <2>8. QED
    BY <1>2, <1>6, <1>7, <1>8, <2>2, <2>5, <2>6, <2>7 DEF Agrees, t
<1>10. CASE ~ all
  <2>1. frontier' = Append(frontier, e) /\ todo' = Tail(todo) /\ UNCHANGED <<pc, outcome>>
    BY <1>1, <1>10
  <2>2. index < Final(path)
    <3>1. SUFFICES ASSUME index = Final(path) PROVE FALSE
      BY <1>0, <1>4
    <3>2. {i \in Range(path) : i <= index} = Range(path)
      BY <1>3, <3>1
    <3>3. QED
      BY <1>1, <1>6, <1>10, <3>2 DEF Recorded
  <2>3. e \in Waits /\ e.state = s /\ e.depth = disc[index].depth
    BY <1>5 DEF Waits
  <2>4. Scanning(model, cfg, fp, disc, index, p, fps \cup {fp[s]}, Append(frontier, e), Tail(todo))
    <3> HIDE DEF e
    <3>1. QED
      BY <1>0, <1>1, <1>2, <1>4, <1>5, <2>3, ScanDiscovers
  <2>5. SecondPass(disc)'
    BY <1>1, <2>1, <2>2, <2>4 DEF SecondPass, Second
  <2>6. QED
    BY <1>6, <1>7, <1>8, <2>1, <2>5 DEF Agrees
<1>11. QED
  BY <1>9, <1>10

(***************************************************************************)
(* The second traversal pops a state; while the target is ahead there is   *)
(* one, and it can be expanded.                                            *)
(***************************************************************************)
LEMMA PopAgainAgrees ==
  ASSUME TypeOK, NEW disc, Agrees(disc), PopAgain
  PROVE  Agrees(disc)' /\ UNCHANGED outcome /\ pc' # "done"
<1>0. /\ model \in Models /\ disc \in Seq(Node) /\ Len(disc) = Len(parents)
      /\ Len(disc) \in Nat /\ counter \in Nat
      /\ FirstFit(model, cfg, fp, parents, disc) /\ Begun(disc)
      /\ SecondPass(disc) /\ OnPath(disc) /\ Recorded(disc)
  BY AgreesFacts DEF Agrees
<1>1. pc = "repop" /\ UNCHANGED <<model, cfg, fp, fps, parents, pending, path, counter, found>>
  BY DEF PopAgain, problem, traceVars
<1>2. /\ Between(model, cfg, fp, disc, counter, popped, fps, frontier)
      /\ counter < Final(path)
      /\ path # << >> /\ IsPath(model, cfg, parents, disc, pending, path)
      /\ parents[path[1]] = 0 /\ ~ model.initError
  BY <1>0, <1>1 DEF SecondPass, OnPath, Begun, Second
<1>3. counter < Len(disc)
  <2>1. Final(path) \in 1 .. Len(disc)
    BY <1>0, <1>2, OnPathFacts
  <2>2. QED
    BY <1>0, <1>2, <2>1
<1>4. frontier # << >> /\ disc[popped + 1].state \notin model.stepError
  BY <1>0, <1>2, <1>3, TraversalGoesOn
<1>5. /\ popped \in Nat
      /\ Head(frontier).state = disc[popped + 1].state /\ Head(frontier).depth = disc[popped + 1].depth
      /\ Reached(cfg.maxSteps, Head(frontier).depth) =>
           Between(model, cfg, fp, disc, counter, popped + 1, fps, Tail(frontier))
      /\ ~ Reached(cfg.maxSteps, Head(frontier).depth) =>
           Scanning(model, cfg, fp, disc, counter, popped + 1, fps, Tail(frontier),
                    model.step[Head(frontier).state])
  <2>1. model \in Models /\ disc \in Seq(Node) /\ frontier # << >>
    BY <1>0, <1>4
  <2>2. PopsNext(model, cfg, fp, disc, counter, popped, fps, frontier)
    BY <1>2, <2>1, PopGoesOn
  <2>3. QED
    BY <2>2 DEF PopsNext
<1>6. /\ frontier' = Tail(frontier) /\ popped' = popped + 1 /\ depth' = Head(frontier).depth
      /\ UNCHANGED outcome
      /\ \/ Reached(cfg.maxSteps, Head(frontier).depth) /\ pc' = "repop"
         \/ /\ ~ Reached(cfg.maxSteps, Head(frontier).depth) /\ pc' = "reexpand"
            /\ todo' = model.step[Head(frontier).state]
  BY <1>1, <1>4, <1>5 DEF PopAgain, Pop
<1>7. FirstFit(model, cfg, fp, parents, disc)'
  BY <1>0, <1>1 DEF FirstFit, Fits
<1>8. Begun(disc)'
  BY <1>1, <1>2, <1>5, <1>6 DEF Begun
<1>9. OnPath(disc)' /\ Recorded(disc)' /\ FirstPass(disc)'
  BY <1>0, <1>1, <1>2, <1>6 DEF OnPath, Recorded, FirstPass, First, Second
<1>10. SecondPass(disc)'
  BY <1>1, <1>2, <1>5, <1>6 DEF SecondPass, Second
<1>11. QED
  BY <1>6, <1>7, <1>8, <1>9, <1>10 DEF Agrees

-----------------------------------------------------------------------------
(***************************************************************************)
(* Every step keeps the invariant.                                         *)
(***************************************************************************)
\* The types of what the two Admits and the two Pops write.
LEMMA AdmitTypes ==
  ASSUME TypeOK, AdmitInitial \/ AdmitSuccessor
  PROVE  TypeOK' /\ (pc' # "done" => UNCHANGED outcome) /\ (TracesAreReal => TracesAreReal')
<1> DEFINE s == Head(todo)
           index == Len(parents) + 1
<1>0. /\ fp \in [States -> Nat] /\ model \in ModelType
  BY FingerprintAssumption, SearchAssumption DEF TypeOK
<1>1. PICK p \in Nat, d \in Nat : todo # << >> /\ pc \in {"init", "expand"} /\ Admit(s, p, d)
  BY DEF TypeOK, AdmitInitial, AdmitSuccessor, NoParent
<1>2. s \in States /\ Tail(todo) \in Seq(States)
  BY <1>1, TailFacts DEF TypeOK
<1>3. index \in Nat /\ Append(parents, p) \in Seq(Nat) /\ <<index>> \in Seq(Nat)
  BY AppendFacts, ElementFacts DEF TypeOK
<1>4. [state |-> s, depth |-> d] \in [state : States, depth : Nat]
  BY <1>2
<1>5. Append(frontier, [state |-> s, depth |-> d]) \in Seq([state : States, depth : Nat])
  BY <1>4, AppendFacts DEF TypeOK
<1>6. /\ fps' = fps \cup {fp[s]} /\ parents' = Append(parents, p)
      /\ UNCHANGED <<model, cfg, fp, popped, depth, maxDepth, counter, found>>
      /\ frontier' = frontier \/ frontier' = Append(frontier, [state |-> s, depth |-> d])
      /\ todo' = todo \/ todo' = Tail(todo)
      /\ \/ pc' = "path" /\ path' = <<index>> /\ pending' \in {"violation", "error"} /\ UNCHANGED outcome
         \/ /\ UNCHANGED <<path, pending>>
            /\ \/ pc' = pc /\ UNCHANGED outcome
               \/ pc' = "done" /\ outcome' = IncompleteOf(index)
  BY <1>1 DEF Admit, Reconstruct, problem, traceVars
<1>7. fps' \in SUBSET Nat
  BY <1>0, <1>2, <1>6 DEF TypeOK
<1>8. outcome' \in OutcomeType
  <2>1. CASE UNCHANGED outcome
    BY <2>1 DEF TypeOK
  <2>2. CASE outcome' = IncompleteOf(index)
    BY <1>3, <2>2, EmptyFacts DEF IncompleteOf, Outcome, OutcomeType
  <2>3. QED
    BY <1>6, <2>1, <2>2
<1>9. TypeOK'
  <2> HIDE DEF s, index
  <2>1. /\ parents' \in Seq(Nat) /\ todo' \in Seq(States)
        /\ frontier' \in Seq([state : States, depth : Nat])
    BY <1>2, <1>3, <1>5, <1>6 DEF TypeOK
  <2>2. pc' \in {"init", "expand", "path", "done"}
    BY <1>1, <1>6
  <2>3. path' \in Seq(Nat) /\ pending' \in {"none", "violation", "deadlock", "error"}
    BY <1>3, <1>6 DEF TypeOK
  <2>4. QED
    BY <1>6, <1>7, <1>8, <2>1, <2>2, <2>3 DEF TypeOK
<1>10. TracesAreReal => TracesAreReal'
  <2>1. CASE UNCHANGED outcome
    BY <1>6, <2>1 DEF TracesAreReal
  <2>2. CASE outcome' = IncompleteOf(index)
    BY <2>2 DEF TracesAreReal, IncompleteOf, Outcome
  <2>3. QED
    BY <1>6, <2>1, <2>2
<1>11. QED
  BY <1>6, <1>9, <1>10

\* Popping keeps the types.
LEMMA PopTypes ==
  ASSUME TypeOK, Pop
  PROVE  /\ frontier' \in Seq([state : States, depth : Nat])
         /\ popped' \in Nat /\ depth' \in Nat
         /\ Head(frontier).depth \in Nat
         /\ Head(frontier).state \in States
         /\ model.step[Head(frontier).state] \in Seq(States)
<1>1. frontier # << >> /\ frontier' = Tail(frontier) /\ popped' = popped + 1 /\ depth' = Head(frontier).depth
  BY DEF Pop
<1>2. Head(frontier) \in [state : States, depth : Nat] /\ frontier' \in Seq([state : States, depth : Nat])
  BY <1>1, TailFacts DEF TypeOK
<1>3. model.step \in [States -> Seq(States)]
  BY ModelFacts DEF TypeOK
<1>4. Head(frontier).depth \in Nat /\ Head(frontier).state \in States
  BY <1>2
<1>5. popped' \in Nat
  BY <1>1 DEF TypeOK
<1>6. QED
  BY <1>1, <1>2, <1>3, <1>4, <1>5

\* The search's steps on a popped state.
LEMMA PopForSearchTypes ==
  ASSUME TypeOK, PopForSearch, StepFails \/ FindDeadlock \/ StopAtBound \/ Expand
  PROVE  TypeOK' /\ UNCHANGED <<model, cfg, outcome>> /\ pc # "done" /\ pc' # "done"
<1>1. /\ frontier' \in Seq([state : States, depth : Nat])
      /\ popped' \in Nat /\ depth' \in Nat
      /\ Head(frontier).depth \in Nat
      /\ model.step[Head(frontier).state] \in Seq(States)
  BY PopTypes DEF PopForSearch
<1>2. /\ pc = "pop" /\ maxDepth' = Max2(maxDepth, Head(frontier).depth)
      /\ UNCHANGED <<model, cfg, fp, fps, parents, outcome>>
  BY DEF PopForSearch, problem
<1>3. maxDepth' \in Nat
  BY <1>1, <1>2 DEF TypeOK, Max2
<1>4. /\ pc' \in {"path", "pop", "expand"} /\ todo' \in Seq(States)
      /\ UNCHANGED <<counter, found>>
      /\ \/ path' = <<popped + 1>> /\ pending' \in {"error", "deadlock"}
         \/ UNCHANGED <<path, pending>>
  BY <1>1, <1>2 DEF StepFails, FindDeadlock, StopAtBound, Expand, Reconstruct, traceVars, TypeOK
<1>5. <<popped + 1>> \in Seq(Nat)
  BY DEF TypeOK
<1>6. path' \in Seq(Nat) /\ pending' \in {"none", "violation", "deadlock", "error"}
  BY <1>4, <1>5 DEF TypeOK
<1>7. TypeOK'
  BY <1>1, <1>2, <1>3, <1>4, <1>6 DEF TypeOK
<1>8. QED
  BY <1>2, <1>4, <1>7

\* The steps that change little.
LEMMA ListTypes ==
  ASSUME TypeOK, Skip \/ ListDone \/ EnumerateInit \/ UNCHANGED vars
  PROVE  TypeOK' /\ UNCHANGED <<model, cfg, outcome>> /\ (pc' = "done" <=> pc = "done")
<1>1. model.init \in Seq(States)
  BY ModelFacts DEF TypeOK
<1>2. todo # << >> => Tail(todo) \in Seq(States)
  BY TailFacts DEF TypeOK
<1>3. /\ UNCHANGED <<model, cfg, fp, fps, parents, frontier, popped, depth, maxDepth, pending, path,
                     counter, found, outcome>>
      /\ todo' \in Seq(States)
      /\ pc' = pc \/ (pc # "done" /\ pc' \in {"pop", "repop", "init"})
  BY <1>1, <1>2 DEF Skip, ListDone, EnumerateInit, vars, problem, traceVars, TypeOK
<1>4. TypeOK'
  BY <1>3 DEF TypeOK
<1>5. QED
  BY <1>3, <1>4

\* The steps that end the search.
LEMMA EndTypes ==
  ASSUME TypeOK, InitFails \/ ReportPass
  PROVE  TypeOK' /\ pc' = "done" /\ TracesAreReal'
<1>1. /\ UNCHANGED <<model, cfg, fp, todo, fps, parents, frontier, popped, depth, maxDepth, pending,
                     path, counter, found>>
      /\ pc' = "done"
      /\ \/ model.initError /\ outcome' = Counterexample("error", << >>)
         \/ outcome' = PassOf(Len(parents), maxDepth)
  BY DEF InitFails, ReportPass, problem, traceVars
<1>2. Len(parents) \in Nat
  BY ElementFacts DEF TypeOK
<1>3. outcome' \in OutcomeType
  <2>1. maxDepth \in Nat /\ << >> \in Seq(States)
    BY EmptyFacts DEF TypeOK
  <2>2. CASE outcome' = Counterexample("error", << >>)
    BY <2>1, <2>2 DEF Counterexample, Outcome, OutcomeType
  <2>3. CASE outcome' = PassOf(Len(parents), maxDepth)
    BY <1>2, <2>1, <2>3 DEF PassOf, Outcome, OutcomeType
  <2>4. QED
    BY <1>1, <2>2, <2>3
<1>4. TypeOK'
  BY <1>1, <1>3 DEF TypeOK
<1>5. TracesAreReal'
  <2>1. outcome'.kind = "pass" \/ (outcome'.kind = "error" /\ model.initError)
    BY <1>1 DEF Counterexample, PassOf, Outcome
  <2>2. QED
    BY <1>1, <2>1 DEF TracesAreReal
<1>6. QED
  BY <1>1, <1>4, <1>5

\* The steps of the reconstruction.
LEMMA AgainTypes ==
  ASSUME TypeOK, NEW disc, Agrees(disc), WalkParents \/ StartAgain \/ PopAgain
  PROVE  TypeOK' /\ UNCHANGED <<model, cfg, outcome>> /\ pc # "done" /\ pc' # "done"
<1>1. CASE WalkParents
  <2>1. path' \in Seq(Nat)
    <3>1. Agrees(disc)'
      BY <1>1, WalkAgrees
    <3>2. OnPath(disc)' /\ pc' = "path"
      BY <1>1, <3>1 DEF Agrees, WalkParents
    <3>3. QED
      BY <3>2 DEF OnPath, IsPath
  <2>2. QED
    BY <1>1, <2>1 DEF WalkParents, TypeOK, problem
<1>2. CASE StartAgain
  <2>1. UNCHANGED outcome /\ pc' # "done"
    BY <1>2, StartAgainAgrees
  <2>2. model.init \in Seq(States) /\ << >> \in Seq([state : States, depth : Nat])
    BY ModelFacts, EmptyFacts DEF TypeOK
  <2>3. QED
    BY <1>2, <2>1, <2>2 DEF StartAgain, Panic, TypeOK, problem, traceVars
<1>3. CASE PopAgain
  <2>1. UNCHANGED outcome /\ pc' # "done"
    BY <1>3, PopAgainAgrees
  <2>2. /\ Pop /\ UNCHANGED <<model, cfg, fp, fps, parents, maxDepth, pending, path, counter, found>>
        /\ \/ pc' = pc /\ todo' = todo
           \/ pc' = "reexpand" /\ todo' = model.step[Head(frontier).state]
    BY <1>3, <2>1 DEF PopAgain, Panic, problem, traceVars
  <2>3. /\ frontier' \in Seq([state : States, depth : Nat])
        /\ popped' \in Nat /\ depth' \in Nat
        /\ model.step[Head(frontier).state] \in Seq(States)
    BY <2>2, PopTypes
  <2>4. todo' \in Seq(States) /\ pc' \in {"repop", "reexpand"}
    BY <1>3, <2>2, <2>3 DEF PopAgain, TypeOK
  <2>5. TypeOK'
    <3>1. UNCHANGED <<model, cfg, fp, fps, parents, maxDepth, pending, path, counter, found, outcome>>
      BY <2>1, <2>2
    <3>2. QED
      BY <2>3, <2>4, <3>1 DEF TypeOK
  <2>6. QED
    BY <1>3, <2>1, <2>2, <2>5 DEF PopAgain
<1>4. pc # "done"
  BY DEF WalkParents, StartAgain, PopAgain
<1>5. QED
  BY <1>1, <1>2, <1>3, <1>4

\* Rediscovering keeps the types.
LEMMA RediscoverTypes ==
  ASSUME TypeOK, RediscoverInitial \/ RediscoverSuccessor, outcome' \in OutcomeType
  PROVE  TypeOK' /\ UNCHANGED <<model, cfg>>
<1> DEFINE s == Head(todo)
<1>0. fp \in [States -> Nat]
  BY FingerprintAssumption DEF TypeOK
<1>1. PICK d \in Nat : todo # << >> /\ Rediscover(s, d)
  BY DEF TypeOK, RediscoverInitial, RediscoverSuccessor
<1>2. s \in States /\ Tail(todo) \in Seq(States)
  BY <1>1, TailFacts DEF TypeOK
<1>3. Append(frontier, [state |-> s, depth |-> d]) \in Seq([state : States, depth : Nat])
  <2>1. [state |-> s, depth |-> d] \in [state : States, depth : Nat]
    BY <1>2
  <2>2. QED
    BY <2>1, AppendFacts DEF TypeOK
<1> HIDE DEF s
<1>4. /\ fps' = fps \cup {fp[s]} /\ counter' = counter + 1
      /\ found' = IF counter + 1 \in Range(path)
                  THEN [i \in DOMAIN found \cup {counter + 1} |-> IF i = counter + 1 THEN s ELSE found[i]]
                  ELSE found
      /\ frontier' = frontier \/ frontier' = Append(frontier, [state |-> s, depth |-> d])
      /\ todo' = todo \/ todo' = Tail(todo)
      /\ pc' \in {pc, "done"}
      /\ UNCHANGED <<model, cfg, fp, parents, popped, depth, maxDepth, path, pending>>
  BY <1>1 DEF Rediscover, problem
<1>5. DOMAIN found' \subseteq Nat /\ \A i \in DOMAIN found' : found'[i] \in States
  <2>1. counter + 1 \in Nat /\ DOMAIN found \subseteq Nat /\ \A i \in DOMAIN found : found[i] \in States
    BY DEF TypeOK
  <2>2. CASE counter + 1 \in Range(path)
    BY <1>2, <1>4, <2>1, <2>2
  <2>3. CASE counter + 1 \notin Range(path)
    BY <1>4, <2>1, <2>3
  <2>4. QED
    BY <2>2, <2>3
<1>6. fps' \in SUBSET Nat
  BY <1>0, <1>2, <1>4 DEF TypeOK
<1>7. /\ todo' \in Seq(States) /\ counter' \in Nat
      /\ frontier' \in Seq([state : States, depth : Nat])
      /\ pc' \in {"reinit", "reexpand", "done"}
  <2>1. pc \in {"reinit", "reexpand"}
    BY DEF RediscoverInitial, RediscoverSuccessor
  <2>2. pc' \in {"reinit", "reexpand", "done"}
    BY <1>4, <2>1
  <2>3. todo \in Seq(States) /\ counter \in Nat
    BY DEF TypeOK
  <2>4. todo' \in Seq(States)
    BY <1>2, <1>4, <2>3
  <2>5. counter' \in Nat
    BY <1>4, <2>3
  <2>6. frontier' \in Seq([state : States, depth : Nat])
    BY <1>3, <1>4 DEF TypeOK
  <2>7. QED
    BY <2>2, <2>4, <2>5, <2>6
<1>8. QED
  BY <1>4, <1>5, <1>6, <1>7 DEF TypeOK

\* Before the search nothing is discovered.
LEMMA IInvInit == Init => IInv
<1> SUFFICES ASSUME Init PROVE IInv
  OBVIOUS
<1>1. /\ pc = "start" /\ todo = << >> /\ fps = {} /\ parents = << >> /\ frontier = << >>
      /\ popped = 0 /\ depth = 0 /\ maxDepth = 0 /\ pending = "none" /\ path = << >>
      /\ counter = 0 /\ found = << >> /\ outcome = Running
      /\ model \in Models /\ cfg \in Configs /\ fp \in Fingerprints
  BY DEF Init
<1>2. outcome \in OutcomeType /\ outcome.kind = "running"
  BY <1>1, EmptyFacts DEF Running, Outcome, OutcomeType
<1>3. DOMAIN found = {} /\ Range(path) = {}
  BY <1>1 DEF Range
<1>4. TypeOK
  <2>1. /\ << >> \in Seq(States) /\ << >> \in Seq(Nat)
        /\ << >> \in Seq([state : States, depth : Nat])
    BY EmptyFacts
  <2>2. QED
    BY <1>1, <1>2, <1>3, <2>1 DEF TypeOK
<1>5. Reported
  BY <1>1, <1>2 DEF Reported, TracesAreReal
<1>6. Agrees(<< >>)
  <2>1. FirstFit(model, cfg, fp, parents, << >>)
    BY <1>1, EmptyFacts DEF FirstFit
  <2>2. Len(parents) = 0
    BY <1>1
  <2>3. QED
    BY <1>1, <1>3, <2>1, <2>2 DEF Agrees, Begun, FirstPass, SecondPass, OnPath, Recorded, First, Second
<1>7. QED
  BY <1>4, <1>5, <1>6 DEF IInv

\* Nothing is reported by a step that leaves outcome alone.
LEMMA StillReported ==
  ASSUME Reported, UNCHANGED <<model, cfg, outcome>>, pc' = "done" <=> pc = "done"
  PROVE  Reported'
BY DEF Reported, TracesAreReal

\* Every step keeps the traversals in agreement.
LEMMA IInvStep == IInv /\ [Next]_vars => IInv'
<1> SUFFICES ASSUME IInv, [Next]_vars PROVE IInv'
  OBVIOUS
<1>0. TypeOK /\ Reported
  BY DEF IInv
<1>1. PICK disc : Agrees(disc)
  BY DEF IInv
<1>2. CASE InitFails \/ EnumerateInit
  <2>1. Agrees(disc)'
    BY <1>0, <1>1, <1>2, StartAgrees
  <2>2. TypeOK' /\ Reported'
    BY <1>0, <1>2, EndTypes, ListTypes, StillReported DEF Reported
  <2>3. QED
    BY <2>1, <2>2 DEF IInv
<1>3. CASE Skip
  <2>1. Agrees(disc)'
    BY <1>0, <1>1, <1>3, SkipAgrees
  <2>2. TypeOK' /\ Reported'
    BY <1>0, <1>3, ListTypes, StillReported
  <2>3. QED
    BY <2>1, <2>2 DEF IInv
<1>4. CASE AdmitInitial \/ AdmitSuccessor
  <2>1. \E longer : Agrees(longer)'
    BY <1>0, <1>1, <1>4, AdmitAgrees
  <2>2. pc # "done"
    BY <1>4 DEF AdmitInitial, AdmitSuccessor
  <2>3. TypeOK' /\ Reported'
    BY <1>0, <1>4, <2>2, AdmitTypes DEF Reported
  <2>4. QED
    BY <2>1, <2>3 DEF IInv
<1>5. CASE ListDone
  <2>1. Agrees(disc)'
    BY <1>0, <1>1, <1>5, ListDoneAgrees
  <2>2. TypeOK' /\ Reported'
    BY <1>0, <1>5, ListTypes, StillReported
  <2>3. QED
    BY <2>1, <2>2 DEF IInv
<1>6. CASE StepFails \/ FindDeadlock \/ StopAtBound \/ Expand
  <2>1. PopForSearch
    BY <1>6 DEF StepFails, FindDeadlock, StopAtBound, Expand
  <2>2. Agrees(disc)'
    BY <1>0, <1>1, <1>6, <2>1, PopAgrees
  <2>3. TypeOK' /\ Reported'
    BY <1>0, <1>6, <2>1, PopForSearchTypes, StillReported
  <2>4. QED
    BY <2>2, <2>3 DEF IInv
<1>7. CASE ReportPass
  <2>1. Agrees(disc)'
    BY <1>0, <1>1, <1>7, RestAgrees
  <2>2. TypeOK' /\ Reported'
    BY <1>0, <1>7, EndTypes DEF Reported
  <2>3. QED
    BY <2>1, <2>2 DEF IInv
<1>8. CASE WalkParents \/ StartAgain \/ PopAgain
  <2>1. Agrees(disc)'
    BY <1>0, <1>1, <1>8, WalkAgrees, StartAgainAgrees, PopAgainAgrees
  <2>2. TypeOK' /\ UNCHANGED <<model, cfg, outcome>> /\ pc # "done" /\ pc' # "done"
    BY <1>0, <1>1, <1>8, AgainTypes
  <2>3. Reported'
    BY <1>0, <2>2, StillReported
  <2>4. QED
    BY <2>1, <2>2, <2>3 DEF IInv
<1>9. CASE RediscoverInitial \/ RediscoverSuccessor
  <2>1. /\ Agrees(disc)'
        /\ \/ pc' = pc /\ UNCHANGED outcome
           \/ pc' = "done" /\ TracesAreReal' /\ outcome' \in OutcomeType
    BY <1>0, <1>1, <1>9, RediscoverAgrees
  <2>2. outcome' \in OutcomeType
    BY <1>0, <2>1 DEF TypeOK
  <2>3. TypeOK' /\ UNCHANGED <<model, cfg>>
    BY <1>0, <1>9, <2>2, RediscoverTypes
  <2>4. pc # "done"
    BY <1>9 DEF RediscoverInitial, RediscoverSuccessor
  <2>5. Reported'
    BY <1>0, <2>1, <2>3, <2>4, StillReported DEF Reported
  <2>6. QED
    BY <2>1, <2>3, <2>5 DEF IInv
<1>10. CASE UNCHANGED vars
  <2>1. Agrees(disc)'
    BY <1>0, <1>1, <1>10, RestAgrees
  <2>2. TypeOK' /\ Reported'
    BY <1>0, <1>10, ListTypes, StillReported
  <2>3. QED
    BY <2>1, <2>2 DEF IInv
<1>11. QED
  BY <1>2, <1>3, <1>4, <1>5, <1>6, <1>7, <1>8, <1>9, <1>10 DEF Next, Returned

(***************************************************************************)
(* The list of discoveries always exists.                                  *)
(***************************************************************************)
THEOREM Invariance == Spec => []IInv
<1>1. Init => IInv
  BY IInvInit
<1>2. IInv /\ [Next]_vars => IInv'
  BY IInvStep
<1>3. QED
  BY <1>1, <1>2, PTL DEF Spec

(***************************************************************************)
(* Every variable has its type; in particular reconstruct neither runs out *)
(* of states to pop nor meets one that fails to expand, so it never        *)
(* panics.                                                                 *)
(***************************************************************************)
THEOREM TypeCorrectness == Spec => []TypeOK
<1>1. IInv => TypeOK
  BY DEF IInv
<1>2. QED
  BY <1>1, Invariance, PTL

(***************************************************************************)
(* The second traversal meets the discoveries of the first under the same  *)
(* numbers, whatever collides, and never more than the first made.         *)
(***************************************************************************)
THEOREM TraversalsAgreeAlways == Spec => []TraversalsAgree
<1>1. ASSUME IInv PROVE TraversalsAgree
  <2>1. PICK disc : Agrees(disc)
    BY <1>1 DEF IInv
  <2>2. /\ model \in Models /\ cfg \in Configs /\ disc \in Seq(Node) /\ Len(disc) = Len(parents)
        /\ FirstFit(model, cfg, fp, parents, disc) /\ OnPath(disc) /\ Recorded(disc)
    BY <1>1, <2>1, AgreesFacts DEF IInv, Agrees
  <2>3. /\ counter <= Len(parents)
        /\ DOMAIN found = {i \in Range(path) : i <= counter}
        /\ \A i \in DOMAIN found : found[i] = disc[i].state
    BY <2>2 DEF Recorded
  <2>4. ASSUME NEW i \in DOMAIN found, parents[i] # NoParent
        PROVE  found[i] \in Range(model.step[found[parents[i]]])
    <3>1. i \in Range(path) /\ path # << >>
      BY <2>3, <2>4 DEF Range
    <3>2. /\ IsPath(model, cfg, parents, disc, pending, path)
          /\ pc # "path" => parents[path[1]] = 0
      BY <2>2, <3>1 DEF OnPath
    <3>3. i \in 1 .. Len(disc) /\ i \in Nat \ {0}
      <4>1. Range(path) \subseteq 1 .. Len(disc) /\ Len(disc) \in Nat
        BY <2>2, <3>2, OnPathFacts, ElementFacts
      <4>2. QED
        BY <3>1, <4>1
    <3>4. pc # "path"
      BY <2>2, <2>3, <3>3 DEF Recorded
    <3>5. parents[i] \in Range(path)
      BY <2>2, <2>4, <3>1, <3>2, <3>4, OnPathFacts DEF NoParent
    <3>6. /\ parents[i] \in 0 .. i - 1
          /\ disc[i].state \in Range(model.step[disc[parents[i]].state])
      BY <2>2, <2>4, <3>3, FitsInScope DEF NoParent
    <3>7. parents[i] \in DOMAIN found
      <4>1. i <= counter /\ counter \in Nat
        BY <1>1, <2>3 DEF IInv, TypeOK
      <4>2. parents[i] <= counter
        BY <3>3, <3>6, <4>1
      <4>3. QED
        BY <2>3, <3>5, <4>2
    <3>8. QED
      BY <2>3, <3>6, <3>7
  <2>5. QED
    BY <2>3, <2>4 DEF TraversalsAgree
<1>2. QED
  BY <1>1, Invariance, PTL

(***************************************************************************)
(* A reported counterexample is a behaviour of the program within the step *)
(* bound that ends in a state to blame, whatever the hash function.        *)
(***************************************************************************)
THEOREM TracesAreRealAlways == Spec => []TracesAreReal
<1>1. IInv => TracesAreReal
  BY DEF IInv, Reported
<1>2. QED
  BY <1>1, Invariance, PTL

-----------------------------------------------------------------------------
(***************************************************************************)
(* The discoveries are those of a breadth-first search: they are listed by *)
(* depth, and each is of the layer of its depth.                           *)
(***************************************************************************)
LEMMA ParentsGrow ==
  ASSUME NEW m \in Models, NEW c, NEW f, NEW ps, NEW disc, FirstFit(m, c, f, ps, disc),
         NEW i \in 1 .. Len(disc), NEW j \in 1 .. Len(disc), i <= j
  PROVE  ps[i] <= ps[j]
<1>0. /\ disc \in Seq(Node) /\ Len(disc) \in Nat
      /\ Fits(m, c, f, ps, disc, i) /\ Fits(m, c, f, ps, disc, j)
  BY ElementFacts DEF FirstFit
<1>1. ps[i] \in 0 .. i - 1 /\ ps[j] \in 0 .. j - 1
  BY <1>0 DEF Fits
<1>2. SUFFICES ASSUME ps[j] < ps[i] PROVE FALSE
  BY <1>0, <1>1
<1>3. Passed(m, c, f, disc, i - 1, ps[j])
  <2>1. ps[j] \in 0 .. ps[i] - 1
    BY <1>0, <1>1, <1>2
  <2>2. QED
    BY <1>0, <2>1 DEF Fits
<1>4. disc[j].state \in Range(List(m, disc, ps[j])) /\ Looked(c, disc, ps[j])
  <2>1. ps[j] \in 0 .. Len(disc)
    BY <1>0, <1>1
  <2>2. DOMAIN List(m, disc, ps[j]) = 1 .. Len(List(m, disc, ps[j]))
    BY <1>0, <2>1, ListFacts
  <2>3. QED
    BY <1>0, <2>2 DEF Fits, Range
<1>5. Prints(f, disc, i - 1) \subseteq Prints(f, disc, j - 1)
  <2>1. i - 1 \in 0 .. j - 1 /\ j - 1 \in Nat
    BY <1>0
  <2>2. QED
    BY <2>1, PrintsGrow
<1>6. QED
  BY <1>0, <1>3, <1>4, <1>5 DEF Passed, Fits

\* By the least discovery that comes after a deeper one.
LEMMA DepthsGrow ==
  ASSUME NEW m \in Models, NEW c \in Configs, NEW f, NEW ps, NEW disc, FirstFit(m, c, f, ps, disc)
  PROVE  \A i, j \in 1 .. Len(disc) : i <= j => disc[i].depth <= disc[j].depth
<1> DEFINE Deeper(j) == \E i \in 1 .. Len(disc) : i <= j /\ ~ (disc[i].depth <= disc[j].depth)
           Bad == {j \in 1 .. Len(disc) : Deeper(j)}
<1>0. Len(disc) \in Nat
  BY ElementFacts DEF FirstFit
<1>1. SUFFICES ASSUME Bad # {} PROVE FALSE
  OBVIOUS
<1>2. PICK j \in Bad : \A k \in Bad : j <= k
  <2>1. Bad \in SUBSET Nat
    BY <1>0
  <2> HIDE DEF Bad
  <2>2. QED
    BY <1>1, <2>1, LeastNumber
<1>3. PICK i \in 1 .. Len(disc) : i <= j /\ ~ (disc[i].depth <= disc[j].depth)
  BY <1>2
<1>4. /\ ps[i] \in 0 .. i - 1 /\ ps[j] \in 0 .. j - 1
      /\ disc[i].depth \in Nat /\ disc[j].depth \in Nat
      /\ ps[i] = 0 => disc[i].depth = 0
      /\ ps[i] # 0 => disc[i].depth = disc[ps[i]].depth + 1 /\ disc[ps[i]].depth \in Nat
      /\ ps[j] = 0 => disc[j].depth = 0
      /\ ps[j] # 0 => disc[j].depth = disc[ps[j]].depth + 1 /\ disc[ps[j]].depth \in Nat
  <2>1. j \in 1 .. Len(disc)
    BY <1>2
  <2>2. /\ ps[i] \in 0 .. i - 1 /\ disc[i].depth \in Nat
        /\ ps[i] = 0 => disc[i].depth = 0
        /\ ps[i] # 0 => disc[i].depth = disc[ps[i]].depth + 1 /\ disc[ps[i]].depth \in Nat
    BY FitsInScope
  <2>3. /\ ps[j] \in 0 .. j - 1 /\ disc[j].depth \in Nat
        /\ ps[j] = 0 => disc[j].depth = 0
        /\ ps[j] # 0 => disc[j].depth = disc[ps[j]].depth + 1 /\ disc[ps[j]].depth \in Nat
    BY <2>1, FitsInScope
  <2>4. QED
    BY <2>2, <2>3
<1>5. ps[i] <= ps[j]
  BY <1>2, <1>3, ParentsGrow
<1>6. ps[i] # 0
  BY <1>3, <1>4
<1>7. ps[j] # 0 /\ ps[i] \in 1 .. Len(disc) /\ ps[j] \in 1 .. Len(disc) /\ ps[j] < j
  <2>1. ps[i] \in 0 .. i - 1 /\ ps[j] \in 0 .. j - 1 /\ i \in 1 .. Len(disc) /\ j \in 1 .. Len(disc)
    BY <1>2, <1>4
  <2>2. QED
    BY <1>0, <1>5, <1>6, <2>1
<1>8. ps[j] \notin Bad
  BY <1>0, <1>2, <1>7
<1>9. disc[ps[i]].depth <= disc[ps[j]].depth
  BY <1>5, <1>7, <1>8
<1>10. /\ disc[i].depth = disc[ps[i]].depth + 1 /\ disc[ps[i]].depth \in Nat
       /\ disc[j].depth = disc[ps[j]].depth + 1 /\ disc[ps[j]].depth \in Nat
  BY <1>4, <1>6, <1>7
<1>11. disc[i].depth <= disc[j].depth
  <2> DEFINE a == disc[ps[i]].depth
             b == disc[ps[j]].depth
             x == disc[i].depth
             y == disc[j].depth
  <2>1. x = a + 1 /\ y = b + 1 /\ a \in Nat /\ b \in Nat /\ a <= b
    BY <1>9, <1>10
  <2> HIDE DEF a, b, x, y
  <2>2. x <= y
    BY <2>1
  <2>3. QED
    BY <2>2 DEF x, y
<1>12. QED
  BY <1>3, <1>11

\* What is discovered at a depth is in the layer of that depth.
LEMMA DiscoveredInLayer ==
  ASSUME NEW m \in Models, NEW c \in Configs, NEW f, NEW ps, NEW disc, FirstFit(m, c, f, ps, disc)
  PROVE  \A j \in 1 .. Len(disc) : disc[j].state \in Layer(m, disc[j].depth)
<1> DEFINE Bad == {j \in 1 .. Len(disc) : disc[j].state \notin Layer(m, disc[j].depth)}
<1>0. Len(disc) \in Nat
  BY ElementFacts DEF FirstFit
<1>1. SUFFICES ASSUME Bad # {} PROVE FALSE
  OBVIOUS
<1>2. PICK j \in Bad : \A k \in Bad : j <= k
  <2>1. Bad \in SUBSET Nat
    BY <1>0
  <2> HIDE DEF Bad
  <2>2. QED
    BY <1>1, <2>1, LeastNumber
<1>3. /\ ps[j] \in 0 .. j - 1
      /\ ps[j] = 0 => disc[j].depth = 0 /\ disc[j].state \in Range(m.init)
      /\ ps[j] # 0 => /\ disc[ps[j]].depth \in Nat
                      /\ disc[j].depth = disc[ps[j]].depth + 1
                      /\ disc[j].state \in Range(m.step[disc[ps[j]].state])
  <2>1. j \in 1 .. Len(disc)
    BY <1>2
  <2>2. QED
    BY <2>1, FitsInScope
<1>4. CASE ps[j] = 0
  BY <1>2, <1>3, <1>4, LayersEquations
<1>5. CASE ps[j] # 0
  <2>1. ps[j] \in 1 .. Len(disc) /\ ps[j] < j /\ ps[j] \notin Bad
    BY <1>0, <1>2, <1>3, <1>5
  <2>2. disc[ps[j]].state \in Layer(m, disc[ps[j]].depth) /\ disc[ps[j]].depth \in Nat
    BY <1>3, <1>5, <2>1
  <2>3. disc[j].state \in Layer(m, disc[ps[j]].depth + 1)
    BY <1>3, <1>5, <2>2, LayersGoOn
  <2>4. QED
    BY <1>2, <1>3, <1>5, <2>3
<1>6. QED
  BY <1>4, <1>5

(***************************************************************************)
(* When nothing in a list is fresh any more, each of its states has the    *)
(* fingerprint of a discovery that is no deeper.                           *)
(***************************************************************************)
LEMMA FoundSoon ==
  ASSUME NEW m \in Models, NEW c \in Configs, NEW f, NEW ps, NEW disc, FirstFit(m, c, f, ps, disc),
         NEW q \in 0 .. Len(disc), Looked(c, disc, q), Passed(m, c, f, disc, Len(disc), q),
         NEW s \in Range(List(m, disc, q))
  PROVE  \E i \in 1 .. Len(disc) : f[disc[i].state] = f[s] /\ disc[i].depth <= Below(disc, q)
<1>0. disc \in Seq(Node) /\ Len(disc) \in Nat
  BY ElementFacts DEF FirstFit
<1>1. PICK i \in 1 .. Len(disc) : f[disc[i].state] = f[s]
  BY DEF Passed, Prints
<1>2. Fits(m, c, f, ps, disc, i) /\ ps[i] \in 0 .. i - 1
  BY DEF FirstFit, Fits
<1>3. ps[i] <= q
  <2>1. SUFFICES ASSUME q < ps[i] PROVE FALSE
    BY <1>0, <1>2
  <2>2. q \in 0 .. ps[i] - 1
    BY <1>0, <1>2, <2>1
  <2>3. Passed(m, c, f, disc, i - 1, q)
    BY <1>2, <2>2 DEF Fits
  <2>4. f[s] \in Prints(f, disc, i - 1)
    BY <2>3 DEF Passed
  <2>5. QED
    BY <1>1, <1>2, <2>4 DEF Fits
<1>4. /\ disc[i].depth \in Nat
      /\ ps[i] = 0 => disc[i].depth = 0
      /\ ps[i] # 0 => disc[i].depth = disc[ps[i]].depth + 1 /\ disc[ps[i]].depth \in Nat
  BY FitsInScope
<1>5. CASE ps[i] = 0
  <2>1. Below(disc, q) \in Nat
    BY <1>0, ListFacts DEF Below
  <2>2. QED
    BY <1>1, <1>4, <1>5, <2>1
<1>6. CASE ps[i] # 0
  <2>1. ps[i] \in 1 .. Len(disc) /\ q \in 1 .. Len(disc) /\ q # 0
    BY <1>0, <1>2, <1>3, <1>6
  <2>2. disc[ps[i]].depth <= disc[q].depth /\ disc[q].depth \in Nat
    BY <1>3, <2>1, DepthsGrow, FitsInScope
  <2>3. Below(disc, q) = disc[q].depth + 1
    BY <2>1 DEF Below
  <2>4. PICK a \in Nat : a = disc[ps[i]].depth
    BY <1>4, <1>6
  <2>5. PICK b \in Nat : b = disc[q].depth
    BY <2>2
  <2>6. disc[i].depth = a + 1 /\ Below(disc, q) = b + 1 /\ a <= b
    BY <1>4, <1>6, <2>2, <2>3, <2>4, <2>5
  <2>7. QED
    BY <1>1, <2>6
<1>7. QED
  BY <1>5, <1>6

-----------------------------------------------------------------------------
(***************************************************************************)
(* The fingerprints of the states in W are all different, and W holds all  *)
(* states within the step bound.                                           *)
(***************************************************************************)
Apart(m, c, f, W) ==
  /\ \A s, t \in W : f[s] = f[t] => s = t
  /\ \A k \in Nat : InScope(c, k) => Layer(m, k) \subseteq W

\* State s was discovered within k steps.
Found(disc, s, k) == \E i \in 1 .. Len(disc) : disc[i].state = s /\ disc[i].depth <= k

(***************************************************************************)
(* Without collisions nothing is omitted: when the lists before list p are *)
(* passed, and every discovery less deep than d is before p, the layers up *)
(* to d are discovered.  By the least layer of which this fails.           *)
(***************************************************************************)
LEMMA LayersFound ==
  ASSUME NEW m \in Models, NEW c \in Configs, NEW f, NEW ps, NEW disc, FirstFit(m, c, f, ps, disc),
         NEW W, Apart(m, c, f, W),
         NEW p \in 1 .. Len(disc) + 1, \A q \in 0 .. p - 1 : Passed(m, c, f, disc, Len(disc), q),
         NEW d \in Nat, InScope(c, d), \A q \in 1 .. Len(disc) : disc[q].depth < d => q < p
  PROVE  \A k \in 0 .. d : \A s \in Layer(m, k) : Found(disc, s, k)
<1> DEFINE Missed == {k \in 0 .. d : ~ \A s \in Layer(m, k) : Found(disc, s, k)}
<1>0. disc \in Seq(Node) /\ Len(disc) \in Nat
  BY ElementFacts DEF FirstFit
<1>1. SUFFICES ASSUME Missed # {} PROVE FALSE
  OBVIOUS
<1>2. PICK k \in Missed : \A j \in Missed : k <= j
  <2>1. Missed \in SUBSET Nat
    OBVIOUS
  <2> HIDE DEF Missed
  <2>2. QED
    BY <1>1, <2>1, LeastNumber
<1>3. PICK s \in Layer(m, k) : ~ Found(disc, s, k)
  BY <1>2
<1>4. \A j \in 0 .. d : InScope(c, j)
  BY ConfigFacts DEF InScope
<1>5. ASSUME NEW q \in 0 .. p - 1, Looked(c, disc, q), s \in Range(List(m, disc, q)),
             Below(disc, q) <= k
      PROVE  FALSE
  <2>1. q \in 0 .. Len(disc) /\ Passed(m, c, f, disc, Len(disc), q)
    BY <1>0
  <2>2. PICK i \in 1 .. Len(disc) : f[disc[i].state] = f[s] /\ disc[i].depth <= Below(disc, q)
    BY <1>5, <2>1, FoundSoon
  <2>3. /\ disc[i].state \in Layer(m, disc[i].depth)
        /\ disc[i].depth \in Nat /\ InScope(c, disc[i].depth)
    BY DiscoveredInLayer, FitsInScope
  <2>4. k \in Nat /\ InScope(c, k) /\ Below(disc, q) \in Nat
    BY <1>0, <1>2, <1>4, <2>1, ListFacts DEF Below
  <2>5. disc[i].state = s
    BY <1>3, <2>2, <2>3, <2>4 DEF Apart
  <2>6. disc[i].depth <= k
    BY <1>5, <2>2, <2>3, <2>4
  <2>7. QED
    BY <1>3, <2>5, <2>6 DEF Found
<1>6. CASE k = 0
  <2>1. s \in Range(m.init)
    BY <1>3, <1>6, LayersEquations
  <2>2. 0 \in 0 .. p - 1 /\ Looked(c, disc, 0) /\ List(m, disc, 0) = m.init /\ Below(disc, 0) = 0
    BY <1>0 DEF Looked, List, Below
  <2>3. QED
    BY <1>5, <1>6, <2>1, <2>2
<1>7. CASE k # 0
  <2> DEFINE j == k - 1
  <2>1. j \in Nat /\ j + 1 = k /\ j \in 0 .. d /\ j < d /\ j \notin Missed
    BY <1>2, <1>7
  <2>2. PICK t \in Layer(m, j) : s \in Range(m.step[t])
    <3>1. j \in Nat /\ s \in Layer(m, j + 1)
      BY <1>3, <2>1
    <3> HIDE DEF j
    <3>2. QED
      BY <3>1, LayersComeFrom
  <2>3. PICK q \in 1 .. Len(disc) : disc[q].state = t /\ disc[q].depth <= j
    BY <2>1, <2>2 DEF Found
  <2>4. disc[q].depth \in Nat
    BY FitsInScope
  <2> HIDE DEF j
  <2>5. disc[q].depth < d /\ q < p /\ q # 0
    BY <1>0, <2>1, <2>3, <2>4
  <2>6. q \in 0 .. p - 1 /\ List(m, disc, q) = m.step[t] /\ Below(disc, q) = disc[q].depth + 1
    BY <1>0, <2>3, <2>5 DEF List, Below
  <2>7. Looked(c, disc, q)
    BY <2>4, <2>5, ConfigFacts DEF Looked, Reached, InScope
  <2>8. Below(disc, q) <= k
    BY <2>1, <2>3, <2>4, <2>6
  <2>9. QED
    BY <1>5, <2>2, <2>6, <2>7, <2>8
<1>8. QED
  BY <1>6, <1>7

(***************************************************************************)
(* What is to be said of the target of a reconstruction: it was admitted   *)
(* last, and what was admitted before holds and what was popped expands;   *)
(* or it was popped, and so on.                                            *)
(***************************************************************************)
Expands(m, c, s) == s \notin m.stepError /\ (c.deadlock => m.step[s] # << >>)

CaughtLast(m, c, ps, disc, kind, target) ==
  /\ target = Len(disc)
  /\ m.invs[disc[target].state] # "holds"
  /\ kind = IF m.invs[disc[target].state] = "violated" THEN "violation" ELSE "error"
  /\ \A q \in 1 .. target - 1 : m.invs[disc[q].state] = "holds"
  /\ \A q \in 1 .. ps[target] : Expands(m, c, disc[q].state)

CaughtPopped(m, c, f, disc, kind, target) ==
  /\ ~ Expands(m, c, disc[target].state)
  /\ kind = IF disc[target].state \in m.stepError THEN "error" ELSE "deadlock"
  /\ \A q \in 1 .. Len(disc) : m.invs[disc[q].state] = "holds"
  /\ \A q \in 1 .. target - 1 : Expands(m, c, disc[q].state)
  /\ \A q \in 0 .. target - 1 : Passed(m, c, f, disc, Len(disc), q)

Caught(m, c, f, ps, disc, kind, target) ==
  /\ target \in 1 .. Len(disc)
  /\ CaughtLast(m, c, ps, disc, kind, target) \/ CaughtPopped(m, c, f, disc, kind, target)

\* Nothing is to blame that is nearer than a state admitted last.
LEMMA LastIsNearest ==
  ASSUME NEW m \in Models, NEW c \in Configs, NEW f, NEW ps, NEW disc, FirstFit(m, c, f, ps, disc),
         NEW W, Apart(m, c, f, W), NEW kind, NEW target \in 1 .. Len(disc),
         CaughtLast(m, c, ps, disc, kind, target)
  PROVE  NothingBefore(m, c, disc[target].depth)
<1> DEFINE d == disc[target].depth
           p == ps[target]
<1>0. disc \in Seq(Node) /\ Len(disc) \in Nat /\ Fits(m, c, f, ps, disc, target)
  BY ElementFacts DEF FirstFit
<1>1. /\ d \in Nat /\ InScope(c, d) /\ p \in 0 .. target - 1
      /\ p = 0 => d = 0
      /\ p # 0 => d = disc[p].depth + 1 /\ disc[p].depth \in Nat
  BY FitsInScope
<1>2. CASE p = 0
  BY <1>1, <1>2 DEF NothingBefore
<1>3. CASE p # 0
  <2> DEFINE e == disc[p].depth
  <2>1. d = e + 1 /\ e \in Nat
    BY <1>1, <1>3
  <2>2. p \in 1 .. Len(disc) /\ p \in 1 .. Len(disc) + 1
    BY <1>0, <1>1, <1>3
  <2>3. InScope(c, e)
    BY <2>2, FitsInScope
  <2>4. ASSUME NEW q \in 1 .. Len(disc), disc[q].depth < e PROVE q < p
    <3>1. ~ (p <= q)
      <4>1. p <= q => e <= disc[q].depth
        BY <2>2, DepthsGrow
      <4>2. disc[q].depth \in Nat
        BY FitsInScope
      <4> HIDE DEF e
      <4>3. QED
        BY <2>1, <2>4, <4>1, <4>2
    <3>2. QED
      BY <1>0, <2>2, <3>1
  <2>5. ASSUME NEW q \in 0 .. p - 1 PROVE Passed(m, c, f, disc, Len(disc), q)
    <3>1. Passed(m, c, f, disc, target - 1, q)
      BY <1>0 DEF Fits
    <3>2. target - 1 \in Nat /\ (target - 1) + 1 = Len(disc)
      BY <1>0 DEF CaughtLast
    <3>3. Passed(m, c, f, disc, (target - 1) + 1, q)
      BY <3>1, <3>2, PassedStays
    <3>4. QED
      BY <3>2, <3>3
  <2> HIDE DEF d, e, p
  <2>6. \A k \in 0 .. e : \A s \in Layer(m, k) : Found(disc, s, k)
    BY <2>1, <2>2, <2>3, <2>4, <2>5, LayersFound
  <2>7. ASSUME NEW k \in 0 .. d - 1 PROVE HoldsAt(m, k)
    <3>1. SUFFICES ASSUME NEW s \in Layer(m, k) PROVE m.invs[s] = "holds"
      BY DEF HoldsAt
    <3>2. k \in 0 .. e
      BY <2>1
    <3>3. PICK i \in 1 .. Len(disc) : disc[i].state = s /\ disc[i].depth <= k
      BY <2>6, <3>2 DEF Found
    <3>4. i # target
      <4>1. disc[target].depth = d /\ ~ (d <= k)
        BY <1>1, <2>1 DEF d
      <4>2. QED
        BY <3>3, <4>1
    <3>5. i \in 1 .. target - 1
      BY <1>0, <3>4 DEF CaughtLast
    <3>6. QED
      BY <3>3, <3>5 DEF CaughtLast
  <2>8. ASSUME NEW k \in 0 .. d - 2 PROVE ExpandsAt(m, c, k)
    <3>1. SUFFICES ASSUME NEW s \in Layer(m, k) PROVE Expands(m, c, s)
      BY DEF ExpandsAt, Expands
    <3>2. k \in 0 .. e /\ k < e
      BY <2>1
    <3>3. PICK i \in 1 .. Len(disc) : disc[i].state = s /\ disc[i].depth <= k
      BY <2>6, <3>2 DEF Found
    <3>4. disc[i].depth \in Nat
      BY FitsInScope
    <3>5. i < p
      BY <2>1, <2>4, <3>2, <3>3, <3>4
    <3>6. i \in 1 .. p
      BY <1>0, <2>2, <3>5
    <3>7. QED
      BY <3>3, <3>6 DEF CaughtLast, p
  <2>9. QED
    BY <2>7, <2>8 DEF NothingBefore, d
<1>4. QED
  BY <1>2, <1>3

\* Nor than a state that was popped, or at its distance but for its expansion.
LEMMA PoppedIsNearest ==
  ASSUME NEW m \in Models, NEW c \in Configs, NEW f, NEW ps, NEW disc, FirstFit(m, c, f, ps, disc),
         NEW W, Apart(m, c, f, W), NEW kind, NEW target \in 1 .. Len(disc),
         CaughtPopped(m, c, f, disc, kind, target)
  PROVE  NothingBefore(m, c, disc[target].depth) /\ NothingBefore(m, c, disc[target].depth + 1)
<1> DEFINE d == disc[target].depth
<1>0. disc \in Seq(Node) /\ Len(disc) \in Nat
  BY ElementFacts DEF FirstFit
<1>1. d \in Nat /\ InScope(c, d) /\ target \in 1 .. Len(disc) + 1
  BY <1>0, FitsInScope
<1>2. ASSUME NEW q \in 1 .. Len(disc), disc[q].depth < d PROVE q < target
  <2>1. target <= q => d <= disc[q].depth
    BY DepthsGrow
  <2>2. disc[q].depth \in Nat
    BY FitsInScope
  <2> HIDE DEF d
  <2>3. QED
    BY <1>0, <1>1, <1>2, <2>1, <2>2
<1> HIDE DEF d
<1>3. \A k \in 0 .. d : \A s \in Layer(m, k) : Found(disc, s, k)
  <2>1. \A q \in 0 .. target - 1 : Passed(m, c, f, disc, Len(disc), q)
    BY DEF CaughtPopped
  <2>2. QED
    BY <1>1, <1>2, <2>1, LayersFound
<1>4. ASSUME NEW k \in 0 .. d PROVE HoldsAt(m, k)
  BY <1>3 DEF Found, HoldsAt, CaughtPopped
<1>5. ASSUME NEW k \in 0 .. d - 1 PROVE ExpandsAt(m, c, k)
  <2>1. SUFFICES ASSUME NEW s \in Layer(m, k) PROVE Expands(m, c, s)
    BY DEF ExpandsAt, Expands
  <2>2. k \in 0 .. d /\ k < d
    BY <1>1
  <2>3. PICK i \in 1 .. Len(disc) : disc[i].state = s /\ disc[i].depth <= k
    BY <1>3, <2>2 DEF Found
  <2>4. disc[i].depth \in Nat
    BY FitsInScope
  <2>5. i < target
    BY <1>1, <1>2, <2>2, <2>3, <2>4
  <2>6. i \in 1 .. target - 1
    BY <1>0, <2>5
  <2>7. QED
    BY <2>3, <2>6 DEF CaughtPopped
<1>6. NothingBefore(m, c, d) /\ NothingBefore(m, c, d + 1)
  <2>1. /\ \A k \in 0 .. d - 1 : k \in 0 .. d
        /\ \A k \in 0 .. d - 2 : k \in 0 .. d - 1
        /\ \A k \in 0 .. (d + 1) - 1 : k \in 0 .. d
        /\ \A k \in 0 .. (d + 1) - 2 : k \in 0 .. d - 1
    BY <1>1
  <2>2. QED
    BY <1>4, <1>5, <2>1 DEF NothingBefore
<1>7. QED
  BY <1>6 DEF d

\* Whatever is caught is the nearest of its kind.
LEMMA CaughtIsJustified ==
  ASSUME NEW m \in Models, NEW c \in Configs, NEW f, NEW ps, NEW disc, FirstFit(m, c, f, ps, disc),
         NEW W, Apart(m, c, f, W), NEW kind, NEW target, Caught(m, c, f, ps, disc, kind, target),
         Culprit(m, c, kind, disc[target].state)
  PROVE  Justified(m, c, kind, disc[target].state, disc[target].depth + 1)
<1>1. target \in 1 .. Len(disc)
  BY DEF Caught
<1>2. InScope(c, disc[target].depth) /\ disc[target].depth \in Nat
  BY <1>1, FitsInScope
<1>3. (disc[target].depth + 1) - 1 = disc[target].depth
  BY <1>2
<1>4. NothingBefore(m, c, IF kind = "deadlock" THEN disc[target].depth + 1 ELSE disc[target].depth)
  <2>1. CASE CaughtLast(m, c, ps, disc, kind, target)
    <3>1. kind # "deadlock"
      BY <2>1 DEF CaughtLast
    <3>2. QED
      BY <1>1, <2>1, <3>1, LastIsNearest
  <2>2. CASE CaughtPopped(m, c, f, disc, kind, target)
    BY <1>1, <2>2, PoppedIsNearest
  <2>3. QED
    BY <2>1, <2>2 DEF Caught
<1>5. QED
  BY <1>2, <1>3, <1>4 DEF Justified

(***************************************************************************)
(* The search is over and has found nothing: every layer is discovered.    *)
(***************************************************************************)
LEMMA AllFound ==
  ASSUME NEW m \in Models, NEW c \in Configs, NEW f, NEW ps, NEW disc, FirstFit(m, c, f, ps, disc),
         NEW W, Apart(m, c, f, W), NEW p, NEW seen,
         Between(m, c, f, disc, Len(disc), p, seen, << >>),
         NEW k \in Nat, InScope(c, k), NEW s \in Layer(m, k)
  PROVE  p = Len(disc) /\ Found(disc, s, k)
<1>0. disc \in Seq(Node) /\ Len(disc) \in Nat
  BY ElementFacts DEF FirstFit
<1>1. /\ p \in 0 .. Len(disc) /\ 0 = Len(disc) - p
      /\ \A q \in 0 .. p - 1 : Passed(m, c, f, disc, Len(disc), q)
      /\ Passed(m, c, f, disc, Len(disc), p)
  BY EmptyFacts DEF Between, Traversed, Waiting
<1>2. p = Len(disc) /\ p + 1 \in 1 .. Len(disc) + 1 /\ (p + 1) - 1 = p
  BY <1>0, <1>1
<1>3. \A q \in 0 .. (p + 1) - 1 : Passed(m, c, f, disc, Len(disc), q)
  <2>1. \A q \in 0 .. p : q \in 0 .. p - 1 \/ q = p
    BY <1>0, <1>1
  <2>2. QED
    BY <1>1, <1>2, <2>1
<1>4. \A q \in 1 .. Len(disc) : disc[q].depth < k => q < p + 1
  BY <1>0, <1>2
<1>5. \A j \in 0 .. k : \A t \in Layer(m, j) : Found(disc, t, j)
  BY <1>2, <1>3, <1>4, LayersFound
<1>6. k \in 0 .. k
  OBVIOUS
<1>7. QED
  BY <1>2, <1>5, <1>6

(***************************************************************************)
(* The search has found nothing to report so far, or has found it first.   *)
(***************************************************************************)
Deepest(disc, p) == IF p = 0 THEN 0 ELSE disc[p].depth

Judged(disc) ==
  /\ pc \in {"start"} \cup First =>
       /\ \A q \in 1 .. Len(disc) : model.invs[disc[q].state] = "holds"
       /\ \A q \in 1 .. popped : Expands(model, cfg, disc[q].state)
       /\ maxDepth = Deepest(disc, popped)
  /\ path # << >> => Caught(model, cfg, fp, parents, disc, pending, Final(path))

JInv == \E disc : Agrees(disc) /\ Judged(disc)

\* Admitting a state judges it.
LEMMA AdmitJudged ==
  ASSUME TypeOK, NEW disc, Agrees(disc), Judged(disc), AdmitInitial \/ AdmitSuccessor
  PROVE  JInv'
<1> DEFINE s == Head(todo)
           p == popped
           index == Len(parents) + 1
<1>1. PICK longer : Agrees(longer)' /\ IsLonger(longer, disc, s)
  BY AdmitAgrees
<1>2. /\ Len(disc) = Len(parents) /\ Len(disc) \in Nat /\ parents \in Seq(Nat)
      /\ pc \in First /\ path = << >> /\ p \in 0 .. Len(disc)
  <2>1. pc \in {"init", "expand"}
    BY DEF AdmitInitial, AdmitSuccessor
  <2>2. p \in 0 .. Len(disc)
    <3>1. Len(disc) = Len(parents) /\ FirstPass(disc)
      BY AgreesFacts DEF Agrees
    <3>2. QED
      BY <2>1, <3>1 DEF FirstPass, Scanning, Traversed, Waiting
  <2>3. path = << >>
    BY <2>1 DEF Agrees, OnPath, First
  <2>4. QED
    BY <2>1, <2>2, <2>3, AgreesFacts DEF First, TypeOK
<1>3. /\ \A q \in 1 .. Len(disc) : model.invs[disc[q].state] = "holds"
      /\ \A q \in 1 .. p : Expands(model, cfg, disc[q].state)
      /\ maxDepth = Deepest(disc, p)
  BY <1>2 DEF Judged
<1>4. /\ UNCHANGED <<model, cfg, popped, maxDepth>> /\ parents' = Append(parents, p)
      /\ \/ /\ pc' = "path" /\ path' = <<index>> /\ model.invs[s] # "holds"
            /\ pending' = IF model.invs[s] = "violated" THEN "violation" ELSE "error"
         \/ /\ model.invs[s] = "holds" /\ UNCHANGED path
  <2>1. CASE AdmitInitial
    BY <2>1 DEF AdmitInitial, Admit, Reconstruct, problem, traceVars, Agrees, Begun, NoParent
  <2>2. CASE AdmitSuccessor
    BY <2>2 DEF AdmitSuccessor, Admit, Reconstruct, problem, traceVars
  <2>3. QED
    BY <2>1, <2>2
<1>5. /\ Len(longer) = index /\ longer[index].state = s
      /\ \A q \in 1 .. index - 1 : model.invs[longer[q].state] = "holds"
      /\ \A q \in 1 .. p : Expands(model, cfg, longer[q].state)
      /\ maxDepth = Deepest(longer, p)
  <2>1. /\ index - 1 = Len(disc) /\ \A q \in 1 .. p : q \in 1 .. Len(disc)
        /\ p # 0 => p \in 1 .. Len(disc)
    BY <1>2
  <2>2. QED
    BY <1>1, <1>2, <1>3, <2>1 DEF IsLonger, Deepest
<1>6. parents'[index] = p
  <2>1. p \in Nat
    BY <1>2
  <2>2. QED
    BY <1>2, <1>4, <2>1, AppendFacts
<1>7. index \in 1 .. Len(longer)
  BY <1>2, <1>5
<1>8. CASE /\ pc' = "path" /\ path' = <<index>> /\ model.invs[s] # "holds"
           /\ pending' = IF model.invs[s] = "violated" THEN "violation" ELSE "error"
  <2>1. Final(path') = index
    BY <1>8 DEF Final
  <2>2. CaughtLast(model, cfg, parents', longer, pending', index)
    <3> HIDE DEF index, p, s
    <3>1. QED
      BY <1>5, <1>6, <1>8 DEF CaughtLast
  <2>3. Judged(longer)'
    BY <1>4, <1>7, <1>8, <2>1, <2>2 DEF Judged, Caught, CaughtLast, First
  <2>4. QED
    BY <1>1, <2>3 DEF JInv
<1>9. CASE model.invs[s] = "holds" /\ UNCHANGED path
  <2>1. \A q \in 1 .. Len(longer) : model.invs[longer[q].state] = "holds"
    <3>1. \A q \in 1 .. index : q \in 1 .. index - 1 \/ q = index
      BY <1>2
    <3>2. QED
      BY <1>5, <1>9, <3>1
  <2>2. Judged(longer)'
    BY <1>2, <1>4, <1>5, <1>9, <2>1 DEF Judged, Deepest
  <2>3. QED
    BY <1>1, <2>2 DEF JInv
<1>10. QED
  BY <1>4, <1>8, <1>9

\* Popping a state judges its expansion.
LEMMA PopJudged ==
  ASSUME TypeOK, NEW disc, Agrees(disc), Judged(disc), PopForSearch,
         StepFails \/ FindDeadlock \/ StopAtBound \/ Expand
  PROVE  Judged(disc)'
<1>1. /\ model \in Models /\ cfg \in Configs /\ disc \in Seq(Node)
      /\ Len(disc) = Len(parents) /\ Len(disc) \in Nat
      /\ FirstFit(model, cfg, fp, parents, disc) /\ FirstPass(disc) /\ OnPath(disc)
  BY AgreesFacts DEF Agrees
<1>2. /\ pc = "pop" /\ frontier # << >> /\ popped' = popped + 1
      /\ maxDepth' = Max2(maxDepth, Head(frontier).depth)
      /\ UNCHANGED <<model, cfg, fp, parents>>
  BY DEF PopForSearch, Pop, problem
<1>3. /\ Between(model, cfg, fp, disc, Len(disc), popped, fps, frontier)
      /\ path = << >>
  BY <1>1, <1>2 DEF FirstPass, OnPath, First
<1>4. /\ \A q \in 1 .. Len(disc) : model.invs[disc[q].state] = "holds"
      /\ \A q \in 1 .. popped : Expands(model, cfg, disc[q].state)
      /\ maxDepth = Deepest(disc, popped)
  BY <1>2 DEF Judged, First
<1>5. /\ popped \in Nat /\ popped + 1 \in 1 .. Len(disc)
      /\ Head(frontier).state = disc[popped + 1].state
      /\ Head(frontier).depth = disc[popped + 1].depth
  <2>1. PopsNext(model, cfg, fp, disc, Len(disc), popped, fps, frontier)
    <3>1. model \in Models /\ disc \in Seq(Node) /\ frontier # << >>
      BY <1>1, <1>2
    <3>2. QED
      BY <1>3, <3>1, PopGoesOn
  <2>2. QED
    BY <2>1 DEF PopsNext
<1>6. CASE StepFails \/ FindDeadlock
  <2>1. pc' = "path" /\ path' = <<popped + 1>>
    BY <1>6 DEF StepFails, FindDeadlock, Reconstruct
  <2>2. Final(path') = popped + 1
    BY <2>1 DEF Final
  <2>5. /\ ~ Expands(model, cfg, disc[popped + 1].state)
        /\ pending' = IF disc[popped + 1].state \in model.stepError THEN "error" ELSE "deadlock"
    BY <1>5, <1>6 DEF StepFails, FindDeadlock, Reconstruct, Expands
  <2>3. CaughtPopped(model, cfg, fp, disc, pending', popped + 1)
    <3>1. (popped + 1) - 1 = popped /\ \A q \in 0 .. popped : q \in 0 .. popped - 1 \/ q = popped
      BY <1>5
    <3>2. /\ \A q \in 0 .. popped - 1 : Passed(model, cfg, fp, disc, Len(disc), q)
          /\ Passed(model, cfg, fp, disc, Len(disc), popped)
      BY <1>3 DEF Between, Traversed
    <3>3. QED
      BY <1>4, <2>5, <3>1, <3>2 DEF CaughtPopped
  <2>4. QED
    BY <1>2, <1>5, <2>1, <2>2, <2>3 DEF Judged, Caught, CaughtPopped, First
<1>7. CASE StopAtBound \/ Expand
  <2>1. Expandable(Head(frontier).state) /\ UNCHANGED path
    BY <1>7 DEF StopAtBound, Expand, traceVars
  <2>2. Expands(model, cfg, disc[popped + 1].state)
    BY <1>5, <2>1 DEF Expandable, Expands
  <2>3. \A q \in 1 .. popped + 1 : q \in 1 .. popped \/ q = popped + 1
    BY <1>5
  <2>4. maxDepth' = Deepest(disc, popped + 1)
    <3> DEFINE next == disc[popped + 1].depth
    <3>1. maxDepth <= next /\ next \in Nat /\ maxDepth \in Nat
      <4>1. next \in Nat /\ maxDepth \in Nat
        BY <1>1, <1>5, FitsInScope DEF TypeOK
      <4>2. CASE popped = 0
        <5> HIDE DEF next
        <5>1. QED
          BY <1>4, <4>1, <4>2 DEF Deepest
      <4>3. CASE popped # 0
        <5>1. popped \in 1 .. Len(disc) /\ popped <= popped + 1
          BY <1>1, <1>5, <4>3
        <5>2. disc[popped].depth <= next
          BY <1>1, <1>5, <5>1, DepthsGrow
        <5>3. QED
          BY <1>4, <4>1, <4>3, <5>2 DEF Deepest
      <4>4. QED
        BY <4>2, <4>3
    <3>2. maxDepth' = Max2(maxDepth, next) /\ popped + 1 # 0
      BY <1>2, <1>5
    <3> HIDE DEF next
    <3>3. maxDepth' = next
      BY <3>1, <3>2 DEF Max2
    <3>4. QED
      BY <3>2, <3>3 DEF next, Deepest
  <2>5. QED
    BY <1>2, <1>3, <1>4, <2>1, <2>2, <2>3, <2>4 DEF Judged, Deepest
<1>8. QED
  BY <1>6, <1>7

\* The path is walked for what was caught.
LEMMA WalkJudged ==
  ASSUME TypeOK, NEW disc, Agrees(disc), Judged(disc), WalkParents
  PROVE  Judged(disc)'
<1>1. /\ model \in Models /\ cfg \in Configs /\ FirstFit(model, cfg, fp, parents, disc)
      /\ OnPath(disc)
  BY AgreesFacts DEF Agrees
<1>2. /\ pc = "path" /\ parents[Head(path)] # 0 /\ path' = <<parents[Head(path)]>> \o path
      /\ UNCHANGED <<model, cfg, fp, pc, parents, pending>>
  BY DEF WalkParents, problem, NoParent
<1>3. path # << >> /\ IsPath(model, cfg, parents, disc, pending, path)
  BY <1>1, <1>2 DEF OnPath
<1>4. Final(path') = Final(path)
  BY <1>1, <1>2, <1>3, PathGrows
<1>5. QED
  BY <1>2, <1>3, <1>4 DEF Judged, Caught, CaughtLast, CaughtPopped, First

\* The other steps change nothing of what is judged.
LEMMA StillJudged ==
  ASSUME TypeOK, NEW disc, Agrees(disc), Judged(disc),
         \/ InitFails \/ EnumerateInit \/ Skip \/ ListDone \/ ReportPass \/ StartAgain
         \/ RediscoverInitial \/ RediscoverSuccessor \/ PopAgain \/ UNCHANGED vars
  PROVE  Judged(disc)'
<1>1. /\ UNCHANGED <<model, cfg, fp, parents, pending, path>>
      /\ pc' \in {"start"} \cup First => pc \in {"start"} \cup First /\ UNCHANGED <<popped, maxDepth>>
  <2>1. CASE StartAgain \/ PopAgain
    BY <2>1 DEF StartAgain, PopAgain, Pop, Panic, First, problem, traceVars
  <2>2. CASE RediscoverInitial \/ RediscoverSuccessor
    BY <2>2 DEF RediscoverInitial, RediscoverSuccessor, Rediscover, First, problem
  <2>3. CASE InitFails \/ EnumerateInit \/ Skip \/ ListDone \/ ReportPass \/ UNCHANGED vars
    BY <2>3 DEF InitFails, EnumerateInit, Skip, ListDone, ReportPass, vars, First, problem, traceVars
  <2>4. QED
    BY <2>1, <2>2, <2>3
<1>2. QED
  BY <1>1 DEF Judged, Caught, CaughtLast, CaughtPopped, Deepest

\* Before the search nothing is judged.
LEMMA JInvInit == Init => JInv
<1> SUFFICES ASSUME Init PROVE JInv
  OBVIOUS
<1>1. /\ pc = "start" /\ fps = {} /\ parents = << >> /\ frontier = << >> /\ popped = 0
      /\ path = << >> /\ counter = 0 /\ found = << >> /\ maxDepth = 0
  BY DEF Init
<1>2. FirstFit(model, cfg, fp, parents, << >>)
  BY <1>1, EmptyFacts DEF FirstFit
<1>3. Len(parents) = 0 /\ DOMAIN found = {} /\ Range(path) = {} /\ Len(<< >>) = 0
  BY <1>1 DEF Range
<1>4. Agrees(<< >>)
  BY <1>1, <1>2, <1>3 DEF Agrees, Begun, FirstPass, SecondPass, OnPath, Recorded, First, Second
<1>5. Judged(<< >>)
  BY <1>1, <1>3 DEF Judged, Deepest
<1>6. QED
  BY <1>4, <1>5 DEF JInv

\* Every step keeps the judgement true.
LEMMA JInvStep == IInv /\ JInv /\ [Next]_vars => JInv'
<1> SUFFICES ASSUME IInv, JInv, [Next]_vars PROVE JInv'
  OBVIOUS
<1>0. TypeOK
  BY DEF IInv
<1>1. PICK disc : Agrees(disc) /\ Judged(disc)
  BY DEF JInv
<1>2. CASE AdmitInitial \/ AdmitSuccessor
  BY <1>0, <1>1, <1>2, AdmitJudged
<1>3. CASE StepFails \/ FindDeadlock \/ StopAtBound \/ Expand
  <2>1. PopForSearch
    BY <1>3 DEF StepFails, FindDeadlock, StopAtBound, Expand
  <2>2. QED
    BY <1>0, <1>1, <1>3, <2>1, PopAgrees, PopJudged DEF JInv
<1>4. CASE WalkParents
  BY <1>0, <1>1, <1>4, WalkAgrees, WalkJudged DEF JInv
<1>5. CASE \/ InitFails \/ EnumerateInit \/ Skip \/ ListDone \/ ReportPass \/ StartAgain
           \/ RediscoverInitial \/ RediscoverSuccessor \/ PopAgain \/ UNCHANGED vars
  <2>1. Judged(disc)'
    BY <1>0, <1>1, <1>5, StillJudged
  <2>2. Agrees(disc)'
    BY <1>0, <1>1, <1>5, StartAgrees, SkipAgrees, ListDoneAgrees, RestAgrees, StartAgainAgrees,
       RediscoverAgrees, PopAgainAgrees
  <2>3. QED
    BY <2>1, <2>2 DEF JInv
<1>6. QED
  BY <1>2, <1>3, <1>4, <1>5 DEF Next, Returned

(***************************************************************************)
(* What is discovered so far holds nothing to report, but for what is      *)
(* being reconstructed; and that is a nearest one.                         *)
(***************************************************************************)
THEOREM Judgement == Spec => []JInv
<1>1. Init => JInv
  BY JInvInit
<1>2. IInv /\ JInv /\ [Next]_vars => JInv'
  BY JInvStep
<1>3. QED
  BY <1>1, <1>2, Invariance, PTL DEF Spec

-----------------------------------------------------------------------------
(***************************************************************************)
(* What is reported without collisions.  The promise is about the same     *)
(* program: the instance's operators are the ones of SearchProblem.        *)
(***************************************************************************)
LEMMA SameLayers ==
  ASSUME NEW m, NEW n
  PROVE  Promise!Layer(m, n) = Layer(m, n)
<1>1. Promise!Layers(m) = Layers(m)
  BY DEF Promise!Layers, Layers, Promise!Image, Image, Promise!Range, Range
<1>2. QED
  BY <1>1 DEF Promise!Layer, Layer

\* A Pass is judged by Promise as by this module.
LEMMA SamePass ==
  ASSUME NEW m, NEW c, NEW n
  PROVE  /\ Promise!InScope(c, n) <=> InScope(c, n)
         /\ Promise!HoldsAt(m, n) <=> HoldsAt(m, n)
         /\ Promise!ExpandsAt(m, c, n) <=> ExpandsAt(m, c, n)
BY SameLayers DEF Promise!InScope, InScope, Promise!NoBound, NoBound,
   Promise!HoldsAt, HoldsAt, Promise!ExpandsAt, ExpandsAt

\* So is a counterexample.
LEMMA SameCounterexample ==
  ASSUME NEW m, NEW c, NEW kind, NEW s, NEW n, NEW t
  PROVE  /\ IsTrace(m, t) => Promise!IsTrace(m, t)
         /\ Promise!Final(t) = Final(t)
         /\ Justified(m, c, kind, s, n) => Promise!Justified(m, c, kind, s, n)
<1>1. IsTrace(m, t) => Promise!IsTrace(m, t)
  BY DEF IsTrace, Promise!IsTrace, Promise!Range, Range
<1>2. Promise!Final(t) = Final(t)
  BY DEF Final, Promise!Final
<1>3. Culprit(m, c, kind, s) => Promise!Culprit(m, c, kind, s)
  BY DEF Culprit, Promise!Culprit
<1>4. \A k : NothingBefore(m, c, k) => Promise!NothingBefore(m, c, k)
  BY SamePass DEF NothingBefore, Promise!NothingBefore
<1>5. Justified(m, c, kind, s, n) => Promise!Justified(m, c, kind, s, n)
  BY <1>3, <1>4, SamePass DEF Justified, Promise!Justified
<1>6. QED
  BY <1>1, <1>2, <1>5

\* A hash function without collisions tells all states apart.
LEMMA InjectiveApart ==
  ASSUME NEW m \in Models, NEW c, NEW f \in [States -> Nat], IsInjective(f)
  PROVE  Apart(m, c, f, States)
<1>1. \A s, t \in States : f[s] = f[t] => s = t
  BY DEF IsInjective
<1>2. QED
  BY <1>1, LayersInStates DEF Apart

(***************************************************************************)
(* A Pass is reported when every discovery has been popped.                *)
(***************************************************************************)
LEMMA PassFinds ==
  ASSUME TypeOK, JInv, ReportPass
  PROVE  \E disc :
           /\ FirstFit(model, cfg, fp, parents, disc) /\ ~ model.initError
           /\ \A q \in 1 .. Len(disc) : /\ model.invs[disc[q].state] = "holds"
                                        /\ Expands(model, cfg, disc[q].state)
           /\ maxDepth = Deepest(disc, Len(disc))
           /\ \A q \in 0 .. Len(disc) : Passed(model, cfg, fp, disc, Len(disc), q)
           /\ \A W : Apart(model, cfg, fp, W) =>
                \A k \in Nat : InScope(cfg, k) => \A s \in Layer(model, k) : Found(disc, s, k)
<1>1. PICK disc : Agrees(disc) /\ Judged(disc)
  BY DEF JInv
<1>2. /\ model \in Models /\ cfg \in Configs /\ Len(disc) = Len(parents) /\ Len(disc) \in Nat
      /\ FirstFit(model, cfg, fp, parents, disc) /\ FirstPass(disc) /\ Begun(disc)
  BY <1>1, AgreesFacts DEF Agrees
<1>3. pc = "pop" /\ frontier = << >>
  BY DEF ReportPass
<1>4. Between(model, cfg, fp, disc, Len(disc), popped, fps, << >>) /\ ~ model.initError
  BY <1>2, <1>3 DEF FirstPass, Begun
<1>5. popped = Len(disc)
  BY <1>2, <1>4, EmptyFacts DEF Between, Traversed, Waiting
<1>6. /\ \A q \in 1 .. Len(disc) : /\ model.invs[disc[q].state] = "holds"
                                   /\ Expands(model, cfg, disc[q].state)
      /\ maxDepth = Deepest(disc, Len(disc))
  BY <1>1, <1>3, <1>5 DEF Judged, First
<1>7. ASSUME NEW W, Apart(model, cfg, fp, W), NEW k \in Nat, InScope(cfg, k),
             NEW s \in Layer(model, k)
      PROVE  Found(disc, s, k)
  BY <1>2, <1>4, <1>7, AllFound
<1>8. \A q \in 0 .. Len(disc) : Passed(model, cfg, fp, disc, Len(disc), q)
  <2>1. \A q \in 0 .. popped : q \in 0 .. popped - 1 \/ q = popped
    BY <1>2, <1>5
  <2>2. /\ \A q \in 0 .. popped - 1 : Passed(model, cfg, fp, disc, Len(disc), q)
        /\ Passed(model, cfg, fp, disc, Len(disc), popped)
    BY <1>4 DEF Between, Traversed
  <2>3. QED
    BY <1>5, <2>1, <2>2
<1>9. QED
  BY <1>2, <1>4, <1>6, <1>7, <1>8

\* A Pass is true.
LEMMA PassReported ==
  ASSUME TypeOK, JInv, ReportPass, IsInjective(fp)
  PROVE  Promise!PassIsTrue(model, cfg)
<1>0. model \in Models /\ cfg \in Configs /\ fp \in [States -> Nat]
  BY FingerprintAssumption DEF TypeOK
<1>1. PICK disc :
        /\ FirstFit(model, cfg, fp, parents, disc) /\ ~ model.initError
        /\ \A q \in 1 .. Len(disc) : /\ model.invs[disc[q].state] = "holds"
                                     /\ Expands(model, cfg, disc[q].state)
        /\ \A W : Apart(model, cfg, fp, W) =>
             \A k \in Nat : InScope(cfg, k) => \A s \in Layer(model, k) : Found(disc, s, k)
  BY PassFinds
<1>2. Apart(model, cfg, fp, States)
  BY <1>0, InjectiveApart
<1>3. ASSUME NEW n \in 0 .. Horizon, InScope(cfg, n)
      PROVE  HoldsAt(model, n) /\ ExpandsAt(model, cfg, n)
  <2>1. \A s \in Layer(model, n) : Found(disc, s, n)
    <3>1. n \in Nat
      BY SearchAssumption
    <3>2. QED
      BY <1>1, <1>2, <1>3, <3>1
  <2>2. QED
    BY <1>1, <2>1 DEF Found, HoldsAt, ExpandsAt, Expands
<1>4. QED
  BY <1>1, <1>3, SamePass DEF Promise!PassIsTrue

\* The trace is reported when the target is rediscovered.
LEMMA TraceReported ==
  ASSUME TypeOK, JInv, RediscoverInitial \/ RediscoverSuccessor, outcome' # outcome, IsInjective(fp)
  PROVE  /\ outcome'.kind \in {"violation", "deadlock", "error"}
         /\ Promise!CounterexampleIsTrue(model, cfg, outcome'.kind, outcome'.trace)
<1>1. PICK disc : Agrees(disc) /\ Judged(disc)
  BY DEF JInv
<1>2. /\ model \in Models /\ cfg \in Configs /\ fp \in [States -> Nat]
      /\ FirstFit(model, cfg, fp, parents, disc) /\ OnPath(disc)
  BY <1>1, AgreesFacts DEF Agrees
<1> DEFINE t == [k \in DOMAIN path |-> disc[path[k]].state]
           target == Final(path)
<1>3. outcome' = Counterexample(pending, t) /\ parents[path[1]] = 0 /\ path # << >>
  BY <1>1, RediscoverAgrees
<1>4. IsPath(model, cfg, parents, disc, pending, path)
  BY <1>2, <1>3 DEF OnPath
<1>5. /\ IsTrace(model, t) /\ Culprit(model, cfg, pending, Final(t))
      /\ Final(t) = disc[target].state /\ Len(t) = disc[target].depth + 1
  BY <1>2, <1>3, <1>4, PathIsTrace
<1>6. pending \in {"violation", "deadlock", "error"}
  BY <1>4 DEF IsPath
<1>7. Caught(model, cfg, fp, parents, disc, pending, target)
  BY <1>1, <1>3 DEF Judged
<1>8. Apart(model, cfg, fp, States)
  BY <1>2, InjectiveApart
<1> HIDE DEF t, target
<1>9. Justified(model, cfg, pending, Final(t), Len(t))
  <2>1. Culprit(model, cfg, pending, disc[target].state)
    BY <1>5
  <2>2. Justified(model, cfg, pending, disc[target].state, disc[target].depth + 1)
    BY <1>2, <1>7, <1>8, <2>1, CaughtIsJustified
  <2>3. QED
    BY <1>5, <2>2
<1>10. outcome'.kind = pending /\ outcome'.trace = t
  BY <1>3 DEF Counterexample, Outcome
<1>11. QED
  BY <1>5, <1>6, <1>9, <1>10, SameCounterexample DEF Promise!CounterexampleIsTrue

\* The kind of a trace.
LEMMA TraceKind ==
  ASSUME TypeOK, JInv, RediscoverInitial \/ RediscoverSuccessor, outcome' # outcome
  PROVE  outcome'.kind \in {"violation", "deadlock", "error"}
<1>1. PICK disc : Agrees(disc) /\ Judged(disc)
  BY DEF JInv
<1>2. outcome'.kind = pending /\ path # << >>
  BY <1>1, RediscoverAgrees DEF Counterexample, Outcome
<1>3. IsPath(model, cfg, parents, disc, pending, path)
  BY <1>1, <1>2 DEF Agrees, OnPath
<1>4. QED
  BY <1>2, <1>3 DEF IsPath

\* The Incomplete report of Admit is true.
LEMMA AdmitReported ==
  ASSUME AdmitInitial \/ AdmitSuccessor, outcome' # outcome
  PROVE  \E n : outcome' = IncompleteOf(n) /\ Reached(cfg.maxStates, n)
BY DEF AdmitInitial, AdmitSuccessor, Admit

\* The program, the configuration and the hash function stay what they are.
LEMMA SameProblem ==
  ASSUME [Next]_vars
  PROVE  UNCHANGED <<model, cfg, fp>>
BY DEF Next, vars, InitFails, EnumerateInit, Skip, AdmitInitial, AdmitSuccessor, Admit, ListDone,
   PopForSearch, StepFails, FindDeadlock, StopAtBound, Expand, ReportPass, WalkParents, StartAgain,
   RediscoverInitial, RediscoverSuccessor, Rediscover, PopAgain, Returned, problem

\* The steps that report something.
LEMMA Reporting ==
  ASSUME IInv, [Next]_vars, outcome' # outcome
  PROVE  /\ InitFails \/ AdmitInitial \/ AdmitSuccessor \/ ReportPass
            \/ RediscoverInitial \/ RediscoverSuccessor
         /\ outcome = Running
<1>1. TypeOK /\ Reported
  BY DEF IInv
<1>2. PICK disc : Agrees(disc)
  BY DEF IInv
<1>3. ~ (StartAgain \/ PopAgain)
  BY <1>1, <1>2, StartAgainAgrees, PopAgainAgrees
<1>4. \/ InitFails \/ AdmitInitial \/ AdmitSuccessor \/ ReportPass
      \/ RediscoverInitial \/ RediscoverSuccessor
  BY <1>3 DEF Next, vars, EnumerateInit, Skip, ListDone, PopForSearch, StepFails, FindDeadlock,
     StopAtBound, Expand, WalkParents, Returned
<1>5. pc # "done"
  BY <1>4 DEF InitFails, AdmitInitial, AdmitSuccessor, ReportPass, RediscoverInitial, RediscoverSuccessor
<1>6. QED
  BY <1>1, <1>4, <1>5 DEF Reported

(***************************************************************************)
(* Every step of the search is a step of the promise or leaves it alone.   *)
(***************************************************************************)
LEMMA PromiseStep ==
  ASSUME IInv, JInv, [Next]_vars
  PROVE  [Promise!Report]_(Promise!promiseVars)
<1>1. UNCHANGED <<model, cfg, fp>>
  BY SameProblem
<1>2. SUFFICES ASSUME IsInjective(fp), outcome' # outcome PROVE Promise!Report
  BY <1>1 DEF Promise!promiseVars
<1>3. /\ InitFails \/ AdmitInitial \/ AdmitSuccessor \/ ReportPass
         \/ RediscoverInitial \/ RediscoverSuccessor
      /\ outcome.kind = "running" /\ TypeOK
  BY <1>2, Reporting DEF Running, Outcome, IInv
<1>4. outcome'.kind # "running" /\ Promise!Truthful(model, cfg, outcome')
  <2>1. CASE InitFails
    BY <2>1 DEF InitFails, Counterexample, Outcome, Promise!Truthful,
       Promise!CounterexampleIsTrue
  <2>2. CASE AdmitInitial \/ AdmitSuccessor
    <3>1. PICK n : outcome' = IncompleteOf(n) /\ Reached(cfg.maxStates, n)
      BY <1>2, <2>2, AdmitReported
    <3>2. QED
      BY <3>1 DEF IncompleteOf, Outcome, Promise!Truthful, Reached, Promise!Reached,
         NoBound, Promise!NoBound
  <2>3. CASE ReportPass
    <3>1. outcome'.kind = "pass"
      BY <2>3 DEF ReportPass, PassOf, Outcome
    <3>2. QED
      BY <1>2, <1>3, <2>3, <3>1, PassReported DEF Promise!Truthful
  <2>4. CASE RediscoverInitial \/ RediscoverSuccessor
    <3>1. /\ outcome'.kind \in {"violation", "deadlock", "error"}
          /\ Promise!CounterexampleIsTrue(model, cfg, outcome'.kind, outcome'.trace)
      BY <1>2, <1>3, <2>4, TraceReported
    <3>2. QED
      BY <3>1 DEF Promise!Truthful
  <2>5. QED
    BY <1>3, <2>1, <2>2, <2>3, <2>4
<1>5. QED
  BY <1>1, <1>2, <1>3, <1>4 DEF Promise!Report

(***************************************************************************)
(* check_fp implements the promise of a safety search as long as no two    *)
(* states have the same fingerprint: its Pass omits no state within the    *)
(* bounds, its counterexamples are behaviours and shortest ones.           *)
(***************************************************************************)
THEOREM Refinement == Spec => KeepsPromise
<1>1. Init => Promise!Init
  BY DEF Init, Promise!Init, Running, Outcome, Promise!Running, Promise!Outcome
<1>2. IInv /\ JInv /\ [Next]_vars => [Promise!Report]_(Promise!promiseVars)
  BY PromiseStep
<1>3. QED
  BY <1>1, <1>2, Invariance, Judgement, PTL DEF Spec, KeepsPromise, Promise!Spec

-----------------------------------------------------------------------------
\* The numbers up to n.
LEMMA IntervalFacts ==
  ASSUME NEW n \in Nat
  PROVE  IsFiniteSet(1 .. n) /\ Cardinality(1 .. n) = n
<1>1. 1 \in Int /\ n \in Int /\ (IF 1 > n THEN 0 ELSE n - 1 + 1) = n
  OBVIOUS
<1>2. IsFiniteSet(1 .. n) /\ Cardinality(1 .. n) = IF 1 > n THEN 0 ELSE n - 1 + 1
  BY <1>1, FS_Interval
<1>3. QED
  BY <1>1, <1>2

(***************************************************************************)
(* The numbers of a Pass.  The discoveries have different fingerprints.    *)
(***************************************************************************)
LEMMA PrintsCount ==
  ASSUME NEW m, NEW c, NEW f, NEW ps, NEW disc, FirstFit(m, c, f, ps, disc)
  PROVE  /\ IsFiniteSet(Prints(f, disc, Len(disc)))
         /\ Cardinality(Prints(f, disc, Len(disc))) = Len(disc)
         /\ \A i, j \in 1 .. Len(disc) : f[disc[i].state] = f[disc[j].state] => i = j
<1> DEFINE n == Len(disc)
           images == Prints(f, disc, n)
           g == [i \in 1 .. n |-> f[disc[i].state]]
<1>0. n \in Nat
  BY ElementFacts DEF FirstFit
<1>1. ASSUME NEW i \in 1 .. n, NEW j \in 1 .. n, i < j PROVE f[disc[i].state] # f[disc[j].state]
  <2>1. f[disc[j].state] \notin Prints(f, disc, j - 1)
    BY DEF FirstFit, Fits
  <2>2. i \in 1 .. j - 1
    BY <1>1
  <2>3. QED
    BY <2>1, <2>2 DEF Prints
<1>2. \A i, j \in 1 .. n : f[disc[i].state] = f[disc[j].state] => i = j
  <2>1. \A i, j \in 1 .. n : i < j \/ j < i \/ i = j
    BY <1>0
  <2>2. QED
    BY <1>1, <2>1
<1>3. g \in Injection(1 .. n, images) /\ g \in Surjection(1 .. n, images)
  BY <1>2 DEF Prints, Injection, Surjection, IsInjective
<1>4. IsFiniteSet(1 .. n) /\ Cardinality(1 .. n) = n
  <2> HIDE DEF n
  <2>1. QED
    BY <1>0, IntervalFacts
<1> HIDE DEF g, images, n
<1>5. IsFiniteSet(images) /\ Cardinality(images) = n
  BY <1>3, <1>4, FS_Surjection
<1>6. QED
  BY <1>2, <1>5 DEF images, n

\* What is counted when a Pass is reported.
LEMMA PassCounts ==
  ASSUME HorizonSuffices, IsFiniteSet(States), TypeOK, JInv, ReportPass
  PROVE  LET images == {fp[s] : s \in Within}
         IN  /\ Len(parents) <= Cardinality(images)
             /\ Cardinality(images) = Cardinality(Within) => Len(parents) = Cardinality(Within)
<1>0. model \in Models /\ cfg \in Configs /\ fp \in [States -> Nat]
  BY FingerprintAssumption DEF TypeOK
<1>1. PICK disc :
        /\ FirstFit(model, cfg, fp, parents, disc)
        /\ \A W : Apart(model, cfg, fp, W) =>
             \A k \in Nat : InScope(cfg, k) => \A s \in Layer(model, k) : Found(disc, s, k)
  BY PassFinds
<1>2. Len(parents) = Len(disc)
  BY <1>1 DEF FirstFit
<1> DEFINE images == {fp[s] : s \in Within}
           prints == Prints(fp, disc, Len(disc))
           g == [s \in Within |-> fp[s]]
<1>3. ASSUME NEW k \in Nat, InScope(cfg, k) PROVE Layer(model, k) \subseteq Within
  <2>1. SUFFICES ASSUME NEW s \in Layer(model, k) PROVE s \in Within
    OBVIOUS
  <2>2. PICK j \in 0 .. Horizon : j <= k /\ s \in Layer(model, j)
    BY <1>0 DEF HorizonSuffices
  <2>3. InScope(cfg, j)
    <3>1. cfg.maxSteps \in Int /\ j \in Int
      BY <1>0, ConfigFacts
    <3>2. QED
      BY <1>3, <2>2, <3>1 DEF InScope
  <2>4. QED
    BY <2>2, <2>3 DEF Within
<1>4. Within \subseteq States
  <2>1. \A k \in 0 .. Horizon : k \in Nat
    BY SearchAssumption
  <2>2. QED
    BY <1>0, <2>1, LayersInStates DEF Within
<1>5. IsFiniteSet(Within) /\ IsFiniteSet(images)
      /\ (Cardinality(images) = Cardinality(Within) => g \in Injection(Within, images))
  <2>1. IsFiniteSet(Within)
    BY <1>4, FS_Subset
  <2>2. g \in Surjection(Within, images)
    BY DEF Surjection
  <2> HIDE DEF g, images
  <2>3. QED
    BY <2>1, <2>2, FS_Surjection
<1>6. prints \subseteq images
  <2>1. ASSUME NEW i \in 1 .. Len(disc) PROVE disc[i].state \in Within
    <3>1. disc[i].state \in Layer(model, disc[i].depth)
      BY <1>0, <1>1, DiscoveredInLayer
    <3>2. disc[i].depth \in Nat /\ InScope(cfg, disc[i].depth)
      BY <1>0, <1>1, FitsInScope
    <3>3. QED
      BY <1>3, <3>1, <3>2
  <2>2. QED
    BY <2>1 DEF Prints
<1>7. IsFiniteSet(prints) /\ Cardinality(prints) = Len(disc)
  BY <1>1, PrintsCount
<1>8. ASSUME Cardinality(images) = Cardinality(Within) PROVE images = prints
  <2>1. IsInjective(g)
    BY <1>5, <1>8 DEF Injection
  <2>2. \A s, t \in Within : fp[s] = fp[t] => s = t
    BY <2>1 DEF IsInjective
  <2>3. Apart(model, cfg, fp, Within)
    BY <1>3, <2>2 DEF Apart
  <2>4. ASSUME NEW s \in Within PROVE fp[s] \in prints
    <3>1. PICK k \in 0 .. Horizon : InScope(cfg, k) /\ s \in Layer(model, k)
      BY DEF Within
    <3>2. k \in Nat
      BY SearchAssumption
    <3>3. Found(disc, s, k)
      BY <1>1, <2>3, <3>1, <3>2
    <3>4. QED
      BY <3>3 DEF Found, Prints
  <2>5. QED
    BY <1>6, <2>4
<1>9. Cardinality(prints) <= Cardinality(images)
  <2> HIDE DEF prints, images
  <2>1. QED
    BY <1>5, <1>6, FS_Subset
<1> HIDE DEF prints
<1>10. QED
  BY <1>2, <1>7, <1>8, <1>9

\* A Pass is reported nowhere else.
LEMMA OnlyReportPassPasses ==
  ASSUME IInv, JInv, [Next]_vars, ~ ReportPass, outcome' # outcome
  PROVE  outcome'.kind # "pass"
<1>1. TypeOK
  BY DEF IInv
<1>2. CASE InitFails
  BY <1>2 DEF InitFails, Counterexample, Outcome
<1>3. CASE AdmitInitial \/ AdmitSuccessor
  BY <1>3, AdmitReported DEF IncompleteOf, Outcome
<1>4. CASE RediscoverInitial \/ RediscoverSuccessor
  BY <1>1, <1>4, TraceKind
<1>5. QED
  BY <1>2, <1>3, <1>4, Reporting

(***************************************************************************)
(* Whatever collides, a Pass counts no more than the fingerprints of the   *)
(* states within the bound, and all of those states if none collides.      *)
(***************************************************************************)
THEOREM CountsFingerprintsAlways ==
  ASSUME HorizonSuffices, IsFiniteSet(States)
  PROVE  Spec => []CountsFingerprints
<1>1. Init => CountsFingerprints
  BY DEF Init, Running, Outcome, CountsFingerprints
<1>2. ASSUME IInv, JInv, CountsFingerprints, [Next]_vars PROVE CountsFingerprints'
  <2>1. UNCHANGED <<model, cfg, fp>>
    BY <1>2, SameProblem
  <2>2. Within' = Within
    BY <2>1 DEF Within
  <2>3. CASE UNCHANGED outcome
    BY <1>2, <2>1, <2>2, <2>3 DEF CountsFingerprints
  <2>4. CASE ReportPass
    <3>1. outcome'.states = Len(parents)
      BY <2>4 DEF ReportPass, PassOf, Outcome
    <3>2. TypeOK
      BY <1>2 DEF IInv
    <3>3. /\ Len(parents) <= Cardinality({fp[s] : s \in Within})
          /\ Cardinality({fp[s] : s \in Within}) = Cardinality(Within) =>
               Len(parents) = Cardinality(Within)
      BY <1>2, <2>4, <3>2, PassCounts
    <3>4. QED
      BY <2>1, <2>2, <3>1, <3>3 DEF CountsFingerprints
  <2>5. CASE ~ ReportPass /\ outcome' # outcome
    BY <1>2, <2>5, OnlyReportPassPasses DEF CountsFingerprints
  <2>6. QED
    BY <2>3, <2>4, <2>5
<1>3. QED
  BY <1>1, <1>2, Invariance, Judgement, PTL DEF Spec

(***************************************************************************)
(* The discoveries of a Pass, when no two states look alike, are what can  *)
(* be reached, each counted once, and the last of them is the farthest.    *)
(***************************************************************************)
LEMMA DiscoveriesAreAll ==
  ASSUME NEW m \in Models, NEW c \in Configs, NEW f, NEW ps, NEW disc, FirstFit(m, c, f, ps, disc),
         \A q \in 1 .. Len(disc) : m.invs[disc[q].state] = "holds" /\ Expands(m, c, disc[q].state),
         \A k \in Nat : InScope(c, k) => \A s \in Layer(m, k) : Found(disc, s, k)
  PROVE  PassIsExactOf(m, c, Len(disc), Deepest(disc, Len(disc)))
<1> DEFINE n == Len(disc)
           d == Deepest(disc, n)
           R == ReachableIn(m, c)
           g == [i \in 1 .. n |-> disc[i].state]
<1>0. n \in Nat
  BY ElementFacts DEF FirstFit
<1>1. \A i \in 1 .. n : /\ disc[i].state \in Layer(m, disc[i].depth)
                        /\ disc[i].depth \in Nat /\ InScope(c, disc[i].depth)
  <2>1. \A i \in 1 .. n : disc[i].state \in Layer(m, disc[i].depth)
    BY DiscoveredInLayer
  <2>2. ASSUME NEW i \in 1 .. n PROVE disc[i].depth \in Nat /\ InScope(c, disc[i].depth)
    BY FitsInScope
  <2>3. QED
    BY <2>1, <2>2
<1>2. \A k \in Nat : InScope(c, k) => HoldsAt(m, k) /\ ExpandsAt(m, c, k)
  BY DEF Found, HoldsAt, ExpandsAt, Expands
<1>3. R = {disc[i].state : i \in 1 .. n}
  <2>1. ASSUME NEW s \in R PROVE s \in {disc[i].state : i \in 1 .. n}
    BY DEF ReachableIn, Found
  <2>2. ASSUME NEW i \in 1 .. n PROVE disc[i].state \in R
    BY <1>1 DEF ReachableIn
  <2>3. QED
    BY <2>1, <2>2
<1>4. \A i, j \in 1 .. n : disc[i].state = disc[j].state => i = j
  BY PrintsCount
<1>5. IsFiniteSet(R) /\ Cardinality(R) = n
  <2>1. g \in Injection(1 .. n, R) /\ g \in Surjection(1 .. n, R)
    BY <1>3, <1>4 DEF Injection, Surjection, IsInjective
  <2>2. IsFiniteSet(1 .. n) /\ Cardinality(1 .. n) = n
    <3> HIDE DEF n
    <3>1. QED
      BY <1>0, IntervalFacts
  <2> HIDE DEF g, R, n
  <2>3. QED
    BY <2>1, <2>2, FS_Surjection
<1>6. d \in Nat /\ InScope(c, d) /\ \A i \in 1 .. n : disc[i].depth <= d
  <2>1. CASE n = 0
    <3>1. InScope(c, 0)
      BY ConfigFacts DEF InScope
    <3>2. QED
      BY <2>1, <3>1 DEF Deepest
  <2>2. CASE n # 0
    <3>1. n \in 1 .. n /\ \A i \in 1 .. n : i <= n
      BY <1>0, <2>2
    <3>2. QED
      BY <1>1, <2>2, <3>1, DepthsGrow DEF Deepest
  <2>3. QED
    BY <2>1, <2>2
<1>7. \A k \in 0 .. d : InScope(c, k) /\ k \in Nat
  <2> HIDE DEF d
  <2>1. c.maxSteps \in Int
    BY ConfigFacts
  <2>2. QED
    BY <1>6, <2>1 DEF InScope
<1>8. R = Nearby(m, d)
  <2>1. Nearby(m, d) \subseteq R
    BY <1>7 DEF Nearby, ReachableIn
  <2>2. ASSUME NEW s \in R PROVE s \in Nearby(m, d)
    <3>1. PICK i \in 1 .. n : s = disc[i].state
      BY <1>3, <2>2
    <3>2. disc[i].depth \in 0 .. d
      BY <1>1, <1>6
    <3>3. QED
      BY <1>1, <3>1, <3>2 DEF Nearby
  <2>3. QED
    BY <2>1, <2>2
<1>9. ASSUME d # 0 PROVE R # Nearby(m, d - 1)
  <2>1. n # 0 /\ n \in 1 .. n /\ d = disc[n].depth
    BY <1>0, <1>9 DEF Deepest
  <2>2. ASSUME disc[n].state \in Nearby(m, d - 1) PROVE FALSE
    <3>1. PICK k \in 0 .. d - 1 : disc[n].state \in Layer(m, k)
      BY <2>2 DEF Nearby
    <3>2. k \in 0 .. d /\ k < d
      <4> HIDE DEF d
      <4>1. QED
        BY <1>6, <1>9
    <3>3. PICK i \in 1 .. n : disc[i].state = disc[n].state /\ disc[i].depth <= k
      BY <1>7, <3>1, <3>2 DEF Found
    <3>4. i = n
      BY <1>4, <2>1, <3>3
    <3>5. d <= k
      BY <2>1, <3>3, <3>4
    <3>6. QED
      BY <1>6, <3>2, <3>5
  <2>3. disc[n].state \in R
    BY <1>3, <2>1
  <2>4. QED
    BY <2>2, <2>3
<1> HIDE DEF d, R
<1>10. PassIsExactOf(m, c, n, d)
  BY <1>2, <1>5, <1>8, <1>9 DEF PassIsExactOf, R
<1>11. QED
  BY <1>10 DEF d

\* What a Pass says, without collisions.
PassIsExact ==
  outcome.kind = "pass" /\ IsInjective(fp) =>
    PassIsExactOf(model, cfg, outcome.states, outcome.maxDepth)

(***************************************************************************)
(* What check_fp returns when it finds nothing: without collisions, the    *)
(* number of states that can be reached within the step bound, and the     *)
(* distance of the last ones.                                              *)
(***************************************************************************)
THEOREM PassIsExactAlways == Spec => []PassIsExact
<1>1. Init => PassIsExact
  BY DEF Init, Running, Outcome, PassIsExact
<1>2. ASSUME IInv, JInv, PassIsExact, [Next]_vars PROVE PassIsExact'
  <2>1. UNCHANGED <<model, cfg, fp>>
    BY <1>2, SameProblem
  <2>2. CASE UNCHANGED outcome
    BY <1>2, <2>1, <2>2 DEF PassIsExact
  <2>3. CASE ReportPass
    <3>1. outcome'.states = Len(parents) /\ outcome'.maxDepth = maxDepth
      BY <2>3 DEF ReportPass, PassOf, Outcome
    <3>2. TypeOK
      BY <1>2 DEF IInv
    <3>3. PICK disc :
            /\ FirstFit(model, cfg, fp, parents, disc)
            /\ \A q \in 1 .. Len(disc) : /\ model.invs[disc[q].state] = "holds"
                                         /\ Expands(model, cfg, disc[q].state)
            /\ maxDepth = Deepest(disc, Len(disc))
            /\ \A W : Apart(model, cfg, fp, W) =>
                 \A k \in Nat : InScope(cfg, k) => \A s \in Layer(model, k) : Found(disc, s, k)
      BY <1>2, <2>3, <3>2, PassFinds
    <3>4. model \in Models /\ cfg \in Configs /\ fp \in [States -> Nat] /\ Len(parents) = Len(disc)
      BY <3>2, <3>3, FingerprintAssumption DEF TypeOK, FirstFit
    <3>5. ASSUME IsInjective(fp) PROVE PassIsExactOf(model, cfg, Len(disc), Deepest(disc, Len(disc)))
      <4>1. Apart(model, cfg, fp, States)
        BY <3>4, <3>5, InjectiveApart
      <4>2. \A k \in Nat : InScope(cfg, k) => \A s \in Layer(model, k) : Found(disc, s, k)
        BY <3>3, <4>1
      <4>3. QED
        BY <3>3, <3>4, <4>2, DiscoveriesAreAll
    <3>6. QED
      BY <2>1, <3>1, <3>3, <3>4, <3>5 DEF PassIsExact
  <2>4. CASE ~ ReportPass /\ outcome' # outcome
    BY <1>2, <2>4, OnlyReportPassPasses DEF PassIsExact
  <2>5. QED
    BY <2>2, <2>3, <2>4
<1>3. QED
  BY <1>1, <1>2, Invariance, Judgement, PTL DEF Spec

-----------------------------------------------------------------------------
(***************************************************************************)
(* What check_fp answers depends on nothing but the program: two lists of  *)
(* discoveries agree as far as both go.                                    *)
(***************************************************************************)
SameAt(ps1, disc1, ps2, disc2, j) ==
  /\ disc1[j].state = disc2[j].state
  /\ disc1[j].depth = disc2[j].depth
  /\ ps1[j] = ps2[j]

\* The same prefix has the same fingerprints.
LEMMA SamePrints ==
  ASSUME NEW f, NEW ps1, NEW disc1, NEW ps2, NEW disc2, NEW n \in Nat,
         \A i \in 1 .. n : SameAt(ps1, disc1, ps2, disc2, i)
  PROVE  Prints(f, disc1, n) = Prints(f, disc2, n)
BY DEF Prints, SameAt

\* The parent, and then the place in its list, cannot come earlier in one.
LEMMA NotEarlier ==
  ASSUME NEW m \in Models, NEW c, NEW f,
         NEW ps1, NEW disc1, FirstFit(m, c, f, ps1, disc1),
         NEW ps2, NEW disc2, FirstFit(m, c, f, ps2, disc2),
         NEW j \in Nat, j \in 1 .. Len(disc1), j \in 1 .. Len(disc2),
         \A i \in 1 .. j - 1 : SameAt(ps1, disc1, ps2, disc2, i)
  PROVE  /\ ~ (ps1[j] < ps2[j])
         /\ ps1[j] = ps2[j] => ~ (disc1[j].pos < disc2[j].pos)
<1>1. Fits(m, c, f, ps1, disc1, j) /\ Fits(m, c, f, ps2, disc2, j)
  BY DEF FirstFit
<1>2. Prints(f, disc1, j - 1) = Prints(f, disc2, j - 1)
  <2> DEFINE n == j - 1
  <2>1. n \in Nat /\ \A i \in 1 .. n : SameAt(ps1, disc1, ps2, disc2, i)
    OBVIOUS
  <2> HIDE DEF n
  <2>2. Prints(f, disc1, n) = Prints(f, disc2, n)
    BY <2>1, SamePrints
  <2>3. QED
    BY <2>2 DEF n
<1> DEFINE r == ps1[j]
<1>3. /\ r \in 0 .. j - 1 /\ Looked(c, disc1, r)
      /\ disc1[j].pos \in 1 .. Len(List(m, disc1, r))
      /\ disc1[j].state = List(m, disc1, r)[disc1[j].pos]
      /\ f[disc1[j].state] \notin Prints(f, disc1, j - 1)
  BY <1>1 DEF Fits
<1>4. /\ ps2[j] \in 0 .. j - 1
      /\ \A q \in 0 .. ps2[j] - 1 : Passed(m, c, f, disc2, j - 1, q)
      /\ \A k \in 1 .. disc2[j].pos - 1 : f[List(m, disc2, ps2[j])[k]] \in Prints(f, disc2, j - 1)
      /\ disc2[j].pos \in 1 .. Len(List(m, disc2, ps2[j]))
  BY <1>1 DEF Fits
<1>5. List(m, disc2, r) = List(m, disc1, r) /\ Looked(c, disc2, r)
  <2>1. r # 0 => r \in 1 .. j - 1
    BY <1>3
  <2>2. QED
    BY <1>3, <2>1 DEF List, Looked, SameAt
<1>6. List(m, disc1, r) \in Seq(States)
  <2>1. disc1 \in Seq(Node) /\ r \in 0 .. Len(disc1)
    BY <1>3, ElementFacts DEF FirstFit
  <2>2. QED
    BY <2>1, ListFacts
<1>7. ASSUME r < ps2[j] PROVE FALSE
  <2>1. r \in 0 .. ps2[j] - 1
    BY <1>3, <1>4, <1>7
  <2>2. \A s \in Range(List(m, disc1, r)) : f[s] \in Prints(f, disc1, j - 1)
    BY <1>2, <1>4, <1>5, <2>1 DEF Passed
  <2>3. disc1[j].state \in Range(List(m, disc1, r))
    BY <1>3, <1>6, ElementFacts DEF Range
  <2>4. QED
    BY <1>3, <2>2, <2>3
<1>8. ASSUME r = ps2[j], disc1[j].pos < disc2[j].pos PROVE FALSE
  <2>1. Len(List(m, disc1, r)) \in Nat
    BY <1>6
  <2>2. disc1[j].pos \in 1 .. disc2[j].pos - 1
    BY <1>3, <1>4, <1>8, <1>5, <2>1
  <2>3. QED
    BY <1>2, <1>3, <1>4, <1>5, <1>8, <2>2
<1>9. QED
  BY <1>7, <1>8

\* Two lists of discoveries agree as far as both go.
LEMMA ListsAgree ==
  ASSUME NEW m \in Models, NEW c, NEW f,
         NEW ps1, NEW disc1, FirstFit(m, c, f, ps1, disc1),
         NEW ps2, NEW disc2, FirstFit(m, c, f, ps2, disc2)
  PROVE  \A j \in Nat : j \in 1 .. Len(disc1) /\ j \in 1 .. Len(disc2) =>
           SameAt(ps1, disc1, ps2, disc2, j)
<1> DEFINE Bad == {j \in Nat : /\ j \in 1 .. Len(disc1) /\ j \in 1 .. Len(disc2)
                               /\ ~ SameAt(ps1, disc1, ps2, disc2, j)}
<1>0. Len(disc1) \in Nat /\ Len(disc2) \in Nat
  BY ElementFacts DEF FirstFit
<1>1. SUFFICES ASSUME Bad # {} PROVE FALSE
  OBVIOUS
<1>2. PICK j \in Bad : \A k \in Bad : j <= k
  <2>1. Bad \in SUBSET Nat
    OBVIOUS
  <2> HIDE DEF Bad
  <2>2. QED
    BY <1>1, <2>1, LeastNumber
<1>3. /\ j \in Nat /\ j \in 1 .. Len(disc1) /\ j \in 1 .. Len(disc2)
      /\ ~ SameAt(ps1, disc1, ps2, disc2, j)
  BY <1>2
<1>4. ASSUME NEW i \in 1 .. j - 1
      PROVE  SameAt(ps1, disc1, ps2, disc2, i) /\ SameAt(ps2, disc2, ps1, disc1, i)
  <2>1. i \in Nat /\ i \in 1 .. Len(disc1) /\ i \in 1 .. Len(disc2) /\ i < j
    BY <1>0, <1>3
  <2>2. SameAt(ps1, disc1, ps2, disc2, i)
    BY <1>2, <1>3, <2>1
  <2>3. QED
    BY <2>2 DEF SameAt
<1>5. /\ Fits(m, c, f, ps1, disc1, j) /\ Fits(m, c, f, ps2, disc2, j)
  BY <1>3 DEF FirstFit
<1>6. ps1[j] = ps2[j] /\ ps1[j] \in 0 .. j - 1
  <2>1. ps1[j] \in 0 .. j - 1 /\ ps2[j] \in 0 .. j - 1
    BY <1>5 DEF Fits
  <2>2. ~ (ps1[j] < ps2[j]) /\ ~ (ps2[j] < ps1[j])
    BY <1>3, <1>4, NotEarlier
  <2>3. QED
    BY <1>3, <2>1, <2>2
<1>7. /\ ps1[j] = 0 \/ SameAt(ps1, disc1, ps2, disc2, ps1[j])
      /\ List(m, disc1, ps1[j]) = List(m, disc2, ps1[j])
      /\ Below(disc1, ps1[j]) = Below(disc2, ps1[j])
  <2>1. ps1[j] # 0 => ps1[j] \in 1 .. j - 1
    BY <1>3, <1>6
  <2>2. ps1[j] = 0 \/ SameAt(ps1, disc1, ps2, disc2, ps1[j])
    BY <1>4, <2>1
  <2>3. QED
    BY <2>2 DEF SameAt, List, Below
<1>8. disc1[j].pos = disc2[j].pos
  <2>1. disc1[j].pos \in Nat /\ disc2[j].pos \in Nat
    <3>1. disc1[j] \in Node /\ disc2[j] \in Node
      BY <1>3, ElementFacts DEF FirstFit
    <3>2. QED
      BY <3>1 DEF Node
  <2>2. ~ (disc1[j].pos < disc2[j].pos) /\ ~ (disc2[j].pos < disc1[j].pos)
    BY <1>3, <1>4, <1>6, NotEarlier
  <2>3. QED
    BY <2>1, <2>2
<1>9. QED
  BY <1>3, <1>5, <1>6, <1>7, <1>8 DEF Fits, SameAt

(***************************************************************************)
(* Two searches for the same program are caught at the same discovery: by  *)
(* a state that does not hold when it is admitted, or by one that does not *)
(* expand when it is popped.                                               *)
(***************************************************************************)
LEMMA CaughtNoEarlier ==
  ASSUME NEW m \in Models, NEW c, NEW f,
         NEW ps1, NEW disc1, FirstFit(m, c, f, ps1, disc1),
         NEW ps2, NEW disc2, FirstFit(m, c, f, ps2, disc2),
         NEW kind1, NEW t1 \in 1 .. Len(disc1), NEW kind2, NEW t2 \in 1 .. Len(disc2), t1 < t2
  PROVE  /\ ~ (CaughtLast(m, c, ps1, disc1, kind1, t1) /\ CaughtLast(m, c, ps2, disc2, kind2, t2))
         /\ ~ (CaughtPopped(m, c, f, disc1, kind1, t1) /\ CaughtPopped(m, c, f, disc2, kind2, t2))
<1>0. Len(disc1) \in Nat /\ Len(disc2) \in Nat
  BY ElementFacts DEF FirstFit
<1>1. t1 \in Nat /\ t1 \in 1 .. Len(disc2) /\ t1 \in 1 .. t2 - 1
  BY <1>0
<1>2. disc1[t1].state = disc2[t1].state
  BY <1>1, ListsAgree DEF SameAt
<1>3. QED
  BY <1>1, <1>2 DEF CaughtLast, CaughtPopped

\* The two ways of being caught exclude each other.
LEMMA CaughtOneWay ==
  ASSUME NEW m \in Models, NEW c \in Configs, NEW f,
         NEW ps1, NEW disc1, FirstFit(m, c, f, ps1, disc1),
         NEW ps2, NEW disc2, FirstFit(m, c, f, ps2, disc2),
         NEW kind1, NEW t1 \in 1 .. Len(disc1), NEW kind2, NEW t2 \in 1 .. Len(disc2),
         CaughtLast(m, c, ps1, disc1, kind1, t1), CaughtPopped(m, c, f, disc2, kind2, t2)
  PROVE  FALSE
<1> DEFINE n == Len(disc2)
           j == n + 1
           q == ps1[j]
<1>0. Len(disc1) \in Nat /\ n \in Nat /\ t1 = Len(disc1)
  BY ElementFacts DEF FirstFit, CaughtLast
<1>1. \A i \in Nat : i \in 1 .. Len(disc1) /\ i \in 1 .. n => SameAt(ps1, disc1, ps2, disc2, i)
  BY ListsAgree
<1>2. n < t1
  <2>1. ASSUME t1 <= n PROVE FALSE
    <3>1. t1 \in Nat /\ t1 \in 1 .. n
      BY <1>0, <2>1
    <3>2. disc1[t1].state = disc2[t1].state
      BY <1>1, <3>1 DEF SameAt
    <3>3. QED
      BY <3>1, <3>2 DEF CaughtLast, CaughtPopped
  <2>2. QED
    BY <1>0, <2>1
<1>3. j \in 1 .. Len(disc1) /\ j - 1 = n /\ j <= t1
  BY <1>0, <1>2
<1>4. \A i \in 1 .. n : SameAt(ps1, disc1, ps2, disc2, i)
  <2>1. \A i \in 1 .. n : i \in Nat /\ i \in 1 .. Len(disc1)
    BY <1>0, <1>2
  <2>2. QED
    BY <1>1, <2>1
<1>5. Fits(m, c, f, ps1, disc1, j)
  BY <1>3 DEF FirstFit
<1>6. /\ q \in 0 .. n /\ Looked(c, disc1, q)
      /\ disc1[j].pos \in 1 .. Len(List(m, disc1, q))
      /\ disc1[j].state = List(m, disc1, q)[disc1[j].pos]
      /\ f[disc1[j].state] \notin Prints(f, disc1, n)
  <2> HIDE DEF j, n
  <2>1. QED
    BY <1>3, <1>5 DEF Fits
<1>7. List(m, disc2, q) = List(m, disc1, q) /\ Looked(c, disc2, q)
  <2>1. q # 0 => q \in 1 .. n
    BY <1>0, <1>6
  <2>2. QED
    BY <1>4, <1>6, <2>1 DEF List, Looked, SameAt
<1>8. t2 <= q
  <2>1. ASSUME ~ (t2 <= q) PROVE FALSE
    <3>1. q \in 0 .. t2 - 1
      BY <1>0, <1>6, <2>1
    <3>2. Passed(m, c, f, disc2, n, q)
      BY <3>1 DEF CaughtPopped
    <3>3. Prints(f, disc1, n) = Prints(f, disc2, n)
      BY <1>0, <1>4, SamePrints
    <3>4. disc1[j].state \in Range(List(m, disc1, q))
      <4>1. disc1 \in Seq(Node) /\ q \in 0 .. Len(disc1)
        <5>1. disc1 \in Seq(Node)
          BY DEF FirstFit
        <5>2. n \in 0 .. Len(disc1) /\ q \in 0 .. n
          BY <1>0, <1>2, <1>6
        <5> HIDE DEF n, q
        <5>3. Len(disc1) \in Nat
          BY <5>1, ElementFacts
        <5>4. QED
          BY <5>1, <5>2, <5>3
      <4>2. List(m, disc1, q) \in Seq(States)
        BY <4>1, ListFacts
      <4>3. QED
        BY <1>6, <4>2, ElementFacts DEF Range
    <3>5. QED
      BY <1>6, <1>7, <3>2, <3>3, <3>4 DEF Passed
  <2>2. QED
    BY <2>1
<1>9. t2 \in 1 .. ps1[t1]
  <2>1. ps1[j] <= ps1[t1]
    BY <1>3, ParentsGrow
  <2>2. ps1[t1] \in Nat
    BY FitsInScope
  <2>3. QED
    BY <1>0, <1>6, <1>8, <2>1, <2>2
<1>10. Expands(m, c, disc1[t2].state)
  BY <1>9 DEF CaughtLast
<1>11. disc1[t2].state = disc2[t2].state
  BY <1>4 DEF SameAt
<1>12. QED
  BY <1>10, <1>11 DEF CaughtPopped

\* Two searches that end with a counterexample caught the same.
LEMMA CaughtOnce ==
  ASSUME NEW m \in Models, NEW c \in Configs, NEW f,
         NEW ps1, NEW disc1, FirstFit(m, c, f, ps1, disc1),
         NEW ps2, NEW disc2, FirstFit(m, c, f, ps2, disc2),
         NEW kind1, NEW t1, Caught(m, c, f, ps1, disc1, kind1, t1),
         NEW kind2, NEW t2, Caught(m, c, f, ps2, disc2, kind2, t2)
  PROVE  t1 = t2 /\ kind1 = kind2
<1>0. /\ t1 \in 1 .. Len(disc1) /\ t2 \in 1 .. Len(disc2)
      /\ Len(disc1) \in Nat /\ Len(disc2) \in Nat
  BY ElementFacts DEF Caught, FirstFit
<1>1. \/ CaughtLast(m, c, ps1, disc1, kind1, t1) /\ CaughtLast(m, c, ps2, disc2, kind2, t2)
      \/ CaughtPopped(m, c, f, disc1, kind1, t1) /\ CaughtPopped(m, c, f, disc2, kind2, t2)
  <2>1. ~ (CaughtLast(m, c, ps1, disc1, kind1, t1) /\ CaughtPopped(m, c, f, disc2, kind2, t2))
    BY <1>0, CaughtOneWay
  <2>2. ~ (CaughtLast(m, c, ps2, disc2, kind2, t2) /\ CaughtPopped(m, c, f, disc1, kind1, t1))
    BY <1>0, CaughtOneWay
  <2>3. QED
    BY <2>1, <2>2 DEF Caught
<1>2. t1 = t2
  <2>1. ~ (t1 < t2)
    BY <1>0, <1>1, CaughtNoEarlier
  <2>2. ~ (t2 < t1)
    BY <1>0, <1>1, CaughtNoEarlier
  <2>3. QED
    BY <1>0, <2>1, <2>2
<1>3. disc1[t1].state = disc2[t1].state
  <2>1. t1 \in Nat /\ t1 \in 1 .. Len(disc2)
    BY <1>0, <1>2
  <2>2. QED
    BY <1>0, <2>1, ListsAgree DEF SameAt
<1>4. QED
  BY <1>1, <1>2, <1>3 DEF CaughtLast, CaughtPopped

-----------------------------------------------------------------------------
(***************************************************************************)
(* What check_fp may answer, said of the program, the configuration and    *)
(* the hash function alone.  It has found nothing when no list holds       *)
(* anything fresh and every discovery holds and expands.                   *)
(***************************************************************************)
Complete(m, c, f, disc) ==
  /\ \A q \in 0 .. Len(disc) : Passed(m, c, f, disc, Len(disc), q)
  /\ \A q \in 1 .. Len(disc) : m.invs[disc[q].state] = "holds" /\ Expands(m, c, disc[q].state)

FoundNothing(m, c, f, o) ==
  \E ps, disc :
    /\ FirstFit(m, c, f, ps, disc) /\ Complete(m, c, f, disc)
    /\ o = PassOf(Len(disc), Deepest(disc, Len(disc)))

StatesOn(disc, way) == [k \in DOMAIN way |-> disc[way[k]].state]

FoundTrace(m, c, f, o) ==
  \E ps, disc, kind, way :
    /\ FirstFit(m, c, f, ps, disc)
    /\ IsPath(m, c, ps, disc, kind, way) /\ ps[way[1]] = 0
    /\ Caught(m, c, f, ps, disc, kind, Final(way))
    /\ o = Counterexample(kind, StatesOn(disc, way))

Answer(m, c, f, o) ==
  \/ o = IncompleteOf(o.states) /\ Reached(c.maxStates, o.states)
  \/ m.initError /\ o = Counterexample("error", << >>)
  \/ ~ m.initError /\ (FoundNothing(m, c, f, o) \/ FoundTrace(m, c, f, o))

Told ==
  /\ pc = "done" => outcome # Running
  /\ outcome # Running => Answer(model, cfg, fp, outcome)

\* A step that ends the search reports something.
LEMMA EndingReports ==
  ASSUME IInv, [Next]_vars, pc # "done", pc' = "done"
  PROVE  outcome' # Running
<1>1. TypeOK /\ outcome = Running
  BY DEF IInv, Reported
<1>2. PICK disc : Agrees(disc)
  BY DEF IInv
<1>3. CASE InitFails \/ ReportPass
  BY <1>3 DEF InitFails, ReportPass, Counterexample, PassOf, Running, Outcome
<1>4. CASE AdmitInitial \/ AdmitSuccessor
  <2>1. outcome' = IncompleteOf(Len(parents) + 1)
    BY <1>4 DEF AdmitInitial, AdmitSuccessor, Admit, Reconstruct
  <2>2. QED
    BY <2>1 DEF IncompleteOf, Running, Outcome
<1>5. CASE RediscoverInitial \/ RediscoverSuccessor
  <2>1. outcome'.kind = pending /\ path # << >>
    <3>1. pc' # pc
      OBVIOUS
    <3>2. QED
      BY <1>1, <1>2, <1>5, <3>1, RediscoverAgrees DEF Counterexample, Outcome
  <2>2. IsPath(model, cfg, parents, disc, pending, path)
    BY <1>2, <2>1 DEF Agrees, OnPath
  <2>3. QED
    BY <2>1, <2>2 DEF IsPath, Running, Outcome
<1>6. ~ (StartAgain \/ PopAgain)
  BY <1>1, <1>2, StartAgainAgrees, PopAgainAgrees
<1>7. QED
  BY <1>3, <1>4, <1>5, <1>6 DEF Next, vars, EnumerateInit, Skip, ListDone, PopForSearch, StepFails,
     FindDeadlock, StopAtBound, Expand, WalkParents, Returned, Reconstruct

\* Before the search nothing is told.
LEMMA ToldInit == Init => Told
BY DEF Init, Told

\* Every step that reports tells an answer.
LEMMA ToldStep == IInv /\ JInv /\ Told /\ [Next]_vars => Told'
<1> SUFFICES ASSUME IInv, JInv, Told, [Next]_vars PROVE Told'
  OBVIOUS
<1>0. TypeOK /\ UNCHANGED <<model, cfg, fp>>
  BY SameProblem DEF IInv
<1>1. CASE outcome' = outcome
  BY <1>0, <1>1, EndingReports DEF Told
<1>2. CASE outcome' # outcome
  <2>1. /\ InitFails \/ AdmitInitial \/ AdmitSuccessor \/ ReportPass
           \/ RediscoverInitial \/ RediscoverSuccessor
        /\ outcome = Running
    BY <1>2, Reporting
  <2>2. Answer(model, cfg, fp, outcome')
    <3>1. CASE InitFails
      BY <3>1 DEF InitFails, Answer
    <3>2. CASE AdmitInitial \/ AdmitSuccessor
      <4>1. PICK n : outcome' = IncompleteOf(n) /\ Reached(cfg.maxStates, n)
        BY <1>2, <3>2, AdmitReported
      <4>2. outcome'.states = n
        BY <4>1 DEF IncompleteOf, Outcome
      <4>3. QED
        BY <4>1, <4>2 DEF Answer
    <3>3. CASE ReportPass
      <4>1. PICK disc :
              /\ FirstFit(model, cfg, fp, parents, disc) /\ ~ model.initError
              /\ \A q \in 1 .. Len(disc) : /\ model.invs[disc[q].state] = "holds"
                                           /\ Expands(model, cfg, disc[q].state)
              /\ maxDepth = Deepest(disc, Len(disc))
              /\ \A q \in 0 .. Len(disc) : Passed(model, cfg, fp, disc, Len(disc), q)
        BY <1>0, <3>3, PassFinds
      <4>2. outcome' = PassOf(Len(disc), Deepest(disc, Len(disc)))
        BY <3>3, <4>1 DEF ReportPass, FirstFit
      <4>3. FoundNothing(model, cfg, fp, outcome')
        BY <4>1, <4>2 DEF FoundNothing, Complete
      <4>4. QED
        BY <4>1, <4>3 DEF Answer
    <3>4. CASE RediscoverInitial \/ RediscoverSuccessor
      <4>1. PICK disc : Agrees(disc) /\ Judged(disc)
        BY DEF JInv
      <4>2. /\ outcome' = Counterexample(pending, StatesOn(disc, path))
            /\ parents[path[1]] = 0 /\ path # << >>
        BY <1>0, <1>2, <3>4, <4>1, RediscoverAgrees DEF StatesOn
      <4>3. /\ FirstFit(model, cfg, fp, parents, disc)
            /\ IsPath(model, cfg, parents, disc, pending, path)
            /\ Caught(model, cfg, fp, parents, disc, pending, Final(path))
            /\ ~ model.initError
        BY <3>4, <4>1, <4>2 DEF Agrees, OnPath, Judged, Begun, RediscoverInitial, RediscoverSuccessor
      <4>4. FoundTrace(model, cfg, fp, outcome')
        BY <4>2, <4>3 DEF FoundTrace
      <4>5. QED
        BY <4>3, <4>4 DEF Answer
    <3>5. QED
      BY <2>1, <3>1, <3>2, <3>3, <3>4
  <2>3. pc' = "done" => outcome' # Running
    BY <1>2, <2>1
  <2>4. QED
    BY <1>0, <2>2, <2>3 DEF Told
<1>3. QED
  BY <1>1, <1>2

(***************************************************************************)
(* A list of discoveries with nothing fresh after it is the longest.       *)
(***************************************************************************)
LEMMA CompleteIsLongest ==
  ASSUME NEW m \in Models, NEW c, NEW f,
         NEW ps1, NEW disc1, FirstFit(m, c, f, ps1, disc1), Complete(m, c, f, disc1),
         NEW ps2, NEW disc2, FirstFit(m, c, f, ps2, disc2)
  PROVE  Len(disc2) <= Len(disc1)
<1> DEFINE n == Len(disc1)
           j == n + 1
           q == ps2[j]
<1>0. n \in Nat /\ Len(disc2) \in Nat
  BY ElementFacts DEF FirstFit
<1>1. SUFFICES ASSUME n < Len(disc2) PROVE FALSE
  BY <1>0
<1>2. j \in 1 .. Len(disc2) /\ j - 1 = n
  BY <1>0, <1>1
<1>3. \A i \in 1 .. n : SameAt(ps1, disc1, ps2, disc2, i)
  <2>1. \A i \in 1 .. n : i \in Nat /\ i \in 1 .. Len(disc2)
    BY <1>0, <1>1
  <2>2. QED
    BY <2>1, ListsAgree
<1>4. Fits(m, c, f, ps2, disc2, j)
  BY <1>2 DEF FirstFit
<1>5. /\ q \in 0 .. n /\ Looked(c, disc2, q)
      /\ disc2[j].pos \in 1 .. Len(List(m, disc2, q))
      /\ disc2[j].state = List(m, disc2, q)[disc2[j].pos]
      /\ f[disc2[j].state] \notin Prints(f, disc2, n)
  <2> HIDE DEF j, n
  <2>1. QED
    BY <1>2, <1>4 DEF Fits
<1>6. List(m, disc1, q) = List(m, disc2, q) /\ Looked(c, disc1, q)
  <2>1. q # 0 => q \in 1 .. n
    BY <1>0, <1>5
  <2>2. QED
    BY <1>3, <1>5, <2>1 DEF List, Looked, SameAt
<1>7. Passed(m, c, f, disc1, n, q)
  BY <1>5 DEF Complete
<1>8. Prints(f, disc1, n) = Prints(f, disc2, n)
  BY <1>0, <1>3, SamePrints
<1>9. disc2[j].state \in Range(List(m, disc2, q))
  <2>1. disc2 \in Seq(Node) /\ q \in 0 .. Len(disc2)
    BY <1>0, <1>1, <1>5, ElementFacts DEF FirstFit
  <2>2. List(m, disc2, q) \in Seq(States)
    BY <2>1, ListFacts
  <2>3. QED
    BY <1>5, <2>2, ElementFacts DEF Range
<1>10. QED
  BY <1>5, <1>6, <1>7, <1>8, <1>9 DEF Passed

\* Who finds nothing is told so again with the same numbers.
LEMMA NothingAgrees ==
  ASSUME NEW m \in Models, NEW c, NEW f, NEW o1, FoundNothing(m, c, f, o1),
         NEW o2, FoundNothing(m, c, f, o2)
  PROVE  o1 = o2
<1>1. PICK ps1, disc1 : /\ FirstFit(m, c, f, ps1, disc1) /\ Complete(m, c, f, disc1)
                        /\ o1 = PassOf(Len(disc1), Deepest(disc1, Len(disc1)))
  BY DEF FoundNothing
<1>2. PICK ps2, disc2 : /\ FirstFit(m, c, f, ps2, disc2) /\ Complete(m, c, f, disc2)
                        /\ o2 = PassOf(Len(disc2), Deepest(disc2, Len(disc2)))
  BY DEF FoundNothing
<1>3. Len(disc1) \in Nat /\ Len(disc2) \in Nat
  BY <1>1, <1>2, ElementFacts DEF FirstFit
<1>4. Len(disc1) = Len(disc2)
  <2>1. Len(disc2) <= Len(disc1)
    BY <1>1, <1>2, CompleteIsLongest
  <2>2. Len(disc1) <= Len(disc2)
    BY <1>1, <1>2, CompleteIsLongest
  <2>3. QED
    BY <1>3, <2>1, <2>2
<1>5. Deepest(disc1, Len(disc1)) = Deepest(disc2, Len(disc2))
  <2>1. CASE Len(disc1) = 0
    BY <1>4, <2>1 DEF Deepest
  <2>2. CASE Len(disc1) # 0
    <3>1. Len(disc1) \in 1 .. Len(disc1) /\ Len(disc1) \in 1 .. Len(disc2)
      BY <1>3, <1>4, <2>2
    <3>2. disc1[Len(disc1)].depth = disc2[Len(disc1)].depth
      BY <1>1, <1>2, <1>3, <3>1, ListsAgree DEF SameAt
    <3>3. QED
      BY <1>4, <2>2, <3>2 DEF Deepest
  <2>3. QED
    BY <2>1, <2>2
<1>6. QED
  BY <1>1, <1>2, <1>4, <1>5

\* Who finds nothing is never caught.
LEMMA NothingExcludesTrace ==
  ASSUME NEW m \in Models, NEW c, NEW f, NEW o1, FoundNothing(m, c, f, o1),
         NEW o2, FoundTrace(m, c, f, o2)
  PROVE  FALSE
<1>1. PICK ps1, disc1 : FirstFit(m, c, f, ps1, disc1) /\ Complete(m, c, f, disc1)
  BY DEF FoundNothing
<1>2. PICK ps2, disc2, kind, way :
        FirstFit(m, c, f, ps2, disc2) /\ Caught(m, c, f, ps2, disc2, kind, Final(way))
  BY DEF FoundTrace
<1> DEFINE t == Final(way)
<1>3. /\ t \in 1 .. Len(disc2) /\ Len(disc2) <= Len(disc1)
      /\ Len(disc1) \in Nat /\ Len(disc2) \in Nat
  BY <1>1, <1>2, CompleteIsLongest, ElementFacts DEF Caught, FirstFit
<1> HIDE DEF t
<1>4. t \in Nat /\ t \in 1 .. Len(disc1)
  BY <1>3
<1>5. disc1[t].state = disc2[t].state
  BY <1>1, <1>2, <1>3, <1>4, ListsAgree DEF SameAt
<1>6. m.invs[disc2[t].state] = "holds" /\ Expands(m, c, disc2[t].state)
  BY <1>1, <1>4, <1>5 DEF Complete
<1>7. QED
  BY <1>2, <1>6 DEF t, Caught, CaughtLast, CaughtPopped

(***************************************************************************)
(* Two paths to the same target are the same: backwards from the target,   *)
(* by the first difference.                                                *)
(***************************************************************************)
LEMMA WaysAgree ==
  ASSUME NEW m \in Models, NEW c \in Configs, NEW f,
         NEW ps1, NEW disc1, FirstFit(m, c, f, ps1, disc1),
         NEW ps2, NEW disc2, FirstFit(m, c, f, ps2, disc2),
         NEW kind, NEW way1, IsPath(m, c, ps1, disc1, kind, way1), ps1[way1[1]] = 0,
         NEW way2, IsPath(m, c, ps2, disc2, kind, way2), ps2[way2[1]] = 0,
         Final(way1) = Final(way2)
  PROVE  way1 = way2
<1>1. /\ way1 \in Seq(Nat) /\ way1 # << >> /\ way2 \in Seq(Nat) /\ way2 # << >>
      /\ \A i \in 1 .. Len(way1) : way1[i] \in 1 .. Len(disc1)
      /\ \A i \in 1 .. Len(way2) : way2[i] \in 1 .. Len(disc2)
      /\ \A i \in 1 .. Len(way1) - 1 : ps1[way1[i + 1]] = way1[i]
      /\ \A i \in 1 .. Len(way2) - 1 : ps2[way2[i + 1]] = way2[i]
      /\ disc1[way1[1]].depth + Len(way1) = disc1[Final(way1)].depth + 1
      /\ disc2[way2[1]].depth + Len(way2) = disc2[Final(way2)].depth + 1
  BY DEF IsPath
<1>2. /\ Len(way1) \in Nat \ {0} /\ Len(way2) \in Nat \ {0}
      /\ Len(disc1) \in Nat /\ Len(disc2) \in Nat
  BY <1>1, TailFacts, ElementFacts DEF FirstFit
<1>3. \A i \in Nat : i \in 1 .. Len(disc1) /\ i \in 1 .. Len(disc2) => SameAt(ps1, disc1, ps2, disc2, i)
  BY ListsAgree
<1>4. Len(way1) = Len(way2)
  <2> DEFINE t == Final(way1)
  <2>1. t \in 1 .. Len(disc1) /\ t \in 1 .. Len(disc2) /\ t \in Nat
    <3>1. Len(way1) \in 1 .. Len(way1) /\ Len(way2) \in 1 .. Len(way2)
      BY <1>2
    <3>2. way1[Len(way1)] \in 1 .. Len(disc1) /\ way2[Len(way2)] \in 1 .. Len(disc2)
      BY <1>1, <3>1
    <3>3. QED
      BY <1>2, <3>2 DEF Final
  <2>2. disc1[t].depth = disc2[t].depth /\ disc1[t].depth \in Nat
    BY <1>3, <2>1, FitsInScope DEF SameAt
  <2>3. disc1[way1[1]].depth = 0 /\ disc2[way2[1]].depth = 0
    <3>1. way1[1] \in 1 .. Len(disc1) /\ way2[1] \in 1 .. Len(disc2)
      BY <1>1, <1>2
    <3>2. QED
      BY <3>1, FitsInScope
  <2> DEFINE depth1 == disc1[t].depth
             depth2 == disc2[Final(way2)].depth
  <2>4. 0 + Len(way1) = depth1 + 1 /\ 0 + Len(way2) = depth2 + 1 /\ depth1 = depth2 /\ depth1 \in Nat
    BY <1>1, <2>2, <2>3
  <2> HIDE DEF depth1, depth2
  <2>5. QED
    BY <1>2, <2>4
<1> DEFINE n == Len(way1)
           Bad == {d \in Nat : d < n /\ way1[n - d] # way2[n - d]}
<1>5. Bad = {}
  <2>1. SUFFICES ASSUME Bad # {} PROVE FALSE
    OBVIOUS
  <2>2. PICK d \in Bad : \A e \in Bad : d <= e
    <3>1. Bad \in SUBSET Nat
      OBVIOUS
    <3> HIDE DEF Bad
    <3>2. QED
      BY <2>1, <3>1, LeastNumber
  <2>3. d # 0
    <3>1. n - 0 = n /\ way1[n] = way2[n]
      BY <1>2, <1>4 DEF Final
    <3>2. QED
      BY <2>2, <3>1
  <2> DEFINE e == d - 1
             i == n - d
  <2>4. /\ e \in Nat /\ e < n /\ ~ (d <= e) /\ n - e = i + 1
        /\ i \in 1 .. n - 1 /\ i + 1 \in 1 .. n
    BY <1>2, <2>2, <2>3
  <2>5. way1[i + 1] = way2[i + 1]
    BY <2>2, <2>4
  <2>6. way1[i] # way2[i]
    BY <2>2
  <2> HIDE DEF i, Bad, e
  <2> DEFINE x == way1[i + 1]
  <2>7. x \in 1 .. Len(disc1) /\ x \in 1 .. Len(disc2) /\ x \in Nat
    <3>1. i + 1 \in 1 .. n /\ x = way2[i + 1]
      BY <2>4, <2>5
    <3>2. i + 1 \in 1 .. Len(way1) /\ i + 1 \in 1 .. Len(way2)
      <4>1. n = Len(way1) /\ n = Len(way2)
        BY <1>2, <1>4
      <4> HIDE DEF n
      <4>2. QED
        BY <3>1, <4>1
    <3>3. x \in 1 .. Len(disc1) /\ x \in 1 .. Len(disc2)
      BY <1>1, <3>1, <3>2
    <3>4. QED
      BY <3>3
  <2>8. ps1[x] = ps2[x]
    BY <1>3, <2>7 DEF SameAt
  <2>9. ps1[x] = way1[i] /\ ps2[x] = way2[i]
    BY <1>1, <1>4, <2>4, <2>5
  <2>10. QED
    BY <2>6, <2>8, <2>9
<1>6. ASSUME NEW i \in 1 .. n PROVE way1[i] = way2[i]
  <2>1. n - i \in Nat /\ n - i < n /\ n - (n - i) = i
    BY <1>2
  <2>2. QED
    BY <1>5, <2>1
<1>7. QED
  BY <1>1, <1>4, <1>6, EqualSequences

\* Two traces found for a program are the same.
LEMMA TracesAgree ==
  ASSUME NEW m \in Models, NEW c \in Configs, NEW f, NEW o1, FoundTrace(m, c, f, o1),
         NEW o2, FoundTrace(m, c, f, o2)
  PROVE  o1 = o2
<1>1. PICK ps1, disc1, kind1, way1 :
        /\ FirstFit(m, c, f, ps1, disc1)
        /\ IsPath(m, c, ps1, disc1, kind1, way1) /\ ps1[way1[1]] = 0
        /\ Caught(m, c, f, ps1, disc1, kind1, Final(way1))
        /\ o1 = Counterexample(kind1, StatesOn(disc1, way1))
  BY DEF FoundTrace
<1>2. PICK ps2, disc2, kind2, way2 :
        /\ FirstFit(m, c, f, ps2, disc2)
        /\ IsPath(m, c, ps2, disc2, kind2, way2) /\ ps2[way2[1]] = 0
        /\ Caught(m, c, f, ps2, disc2, kind2, Final(way2))
        /\ o2 = Counterexample(kind2, StatesOn(disc2, way2))
  BY DEF FoundTrace
<1>3. Final(way1) = Final(way2) /\ kind1 = kind2
  BY <1>1, <1>2, CaughtOnce
<1>4. way1 = way2
  BY <1>1, <1>2, <1>3, WaysAgree
<1>5. ASSUME NEW k \in DOMAIN way1 PROVE disc1[way1[k]].state = disc2[way1[k]].state
  <2>1. way1[k] \in 1 .. Len(disc1) /\ way1[k] \in 1 .. Len(disc2) /\ way1[k] \in Nat
    <3>1. way1 \in Seq(Nat) /\ DOMAIN way1 = 1 .. Len(way1)
      BY <1>1, ElementFacts DEF IsPath
    <3>2. QED
      BY <1>1, <1>2, <1>4, <3>1 DEF IsPath
  <2>2. QED
    BY <1>1, <1>2, <2>1, ListsAgree DEF SameAt
<1>6. StatesOn(disc1, way1) = StatesOn(disc2, way2)
  BY <1>4, <1>5 DEF StatesOn
<1>7. QED
  BY <1>1, <1>2, <1>3, <1>6

(***************************************************************************)
(* What check_fp answers is determined by the program, the configuration   *)
(* and the hash function, unless the cap stops it: to the numbers of a     *)
(* Pass and to the states of a counterexample.                             *)
(***************************************************************************)
LEMMA AnswersAgree ==
  ASSUME NEW m \in Models, NEW c \in Configs, c.maxStates = NoBound, NEW f,
         NEW o1, Answer(m, c, f, o1), NEW o2, Answer(m, c, f, o2)
  PROVE  o1 = o2
<1>1. /\ \/ m.initError /\ o1 = Counterexample("error", << >>)
         \/ ~ m.initError /\ (FoundNothing(m, c, f, o1) \/ FoundTrace(m, c, f, o1))
      /\ \/ m.initError /\ o2 = Counterexample("error", << >>)
         \/ ~ m.initError /\ (FoundNothing(m, c, f, o2) \/ FoundTrace(m, c, f, o2))
  BY DEF Answer, Reached
<1>2. CASE m.initError
  BY <1>1, <1>2
<1>3. CASE FoundNothing(m, c, f, o1) /\ FoundNothing(m, c, f, o2)
  BY <1>3, NothingAgrees
<1>4. CASE FoundTrace(m, c, f, o1) /\ FoundTrace(m, c, f, o2)
  BY <1>4, TracesAgree
<1>5. ~ (FoundNothing(m, c, f, o1) /\ FoundTrace(m, c, f, o2))
  BY NothingExcludesTrace
<1>6. ~ (FoundNothing(m, c, f, o2) /\ FoundTrace(m, c, f, o1))
  BY NothingExcludesTrace
<1>7. QED
  BY <1>1, <1>2, <1>3, <1>4, <1>5, <1>6

(***************************************************************************)
(* Without collisions, what check_fp answers is true of the program.       *)
(***************************************************************************)
LEMMA AnswerTells ==
  ASSUME NEW m \in Models, NEW c \in Configs, NEW f \in [States -> Nat], IsInjective(f),
         NEW o, Answer(m, c, f, o)
  PROVE  Tells(m, c, o)
<1>0. Apart(m, c, f, States)
  BY InjectiveApart
<1>1. ASSUME ~ m.initError, FoundNothing(m, c, f, o) PROVE Tells(m, c, o)
  <2>1. PICK ps, disc : /\ FirstFit(m, c, f, ps, disc) /\ Complete(m, c, f, disc)
                        /\ o = PassOf(Len(disc), Deepest(disc, Len(disc)))
    BY <1>1 DEF FoundNothing
  <2> DEFINE n == Len(disc)
             d == Deepest(disc, n)
  <2>2. n \in Nat /\ d \in Nat
    <3>1. n \in Nat
      BY <2>1, ElementFacts DEF FirstFit
    <3>2. n # 0 => n \in 1 .. n
      BY <3>1
    <3>3. n # 0 => disc[n].depth \in Nat
      BY <2>1, <3>2, FitsInScope
    <3>4. QED
      BY <3>1, <3>3 DEF Deepest
  <2>3. ASSUME NEW k \in Nat, InScope(c, k), NEW s \in Layer(m, k) PROVE Found(disc, s, k)
    <3>1. Between(m, c, f, disc, n, n, Prints(f, disc, n), << >>)
      <4>1. n - n = 0 /\ n \in 0 .. n /\ n \in 0 .. Len(disc)
        BY <2>2
      <4>2. Waiting(disc, n, n, << >>)
        BY <4>1, EmptyFacts DEF Waiting
      <4>3. \A q \in 0 .. n : Passed(m, c, f, disc, n, q)
        BY <2>1 DEF Complete
      <4>4. \A q \in 0 .. n - 1 : q \in 0 .. n
        BY <2>2
      <4> HIDE DEF n
      <4>5. QED
        BY <4>1, <4>2, <4>3, <4>4 DEF Between, Traversed
    <3>2. QED
      BY <1>0, <2>1, <2>3, <3>1, AllFound
  <2>4. PassIsExactOf(m, c, n, d)
    BY <2>1, <2>3, DiscoveriesAreAll DEF Complete
  <2>5. o = PassOf(n, d) /\ o.states = n /\ o.maxDepth = d
    BY <2>1 DEF PassOf, Outcome
  <2> HIDE DEF n, d
  <2>6. QED
    BY <1>1, <2>2, <2>4, <2>5 DEF Tells
<1>2. ASSUME ~ m.initError, FoundTrace(m, c, f, o) PROVE Tells(m, c, o)
  <2>1. PICK ps, disc, kind, way :
          /\ FirstFit(m, c, f, ps, disc)
          /\ IsPath(m, c, ps, disc, kind, way) /\ ps[way[1]] = 0
          /\ Caught(m, c, f, ps, disc, kind, Final(way))
          /\ o = Counterexample(kind, StatesOn(disc, way))
    BY <1>2 DEF FoundTrace
  <2> DEFINE t == StatesOn(disc, way)
  <2>2. /\ t \in Seq(States) /\ IsTrace(m, t) /\ Culprit(m, c, kind, Final(t))
        /\ Final(t) = disc[Final(way)].state /\ Len(t) = disc[Final(way)].depth + 1
    BY <2>1, PathIsTrace DEF StatesOn
  <2>3. kind \in {"violation", "deadlock", "error"}
    BY <2>1 DEF IsPath
  <2> HIDE DEF t
  <2>4. Justified(m, c, kind, Final(t), Len(t))
    <3>1. Culprit(m, c, kind, disc[Final(way)].state)
      BY <2>2
    <3>2. Justified(m, c, kind, disc[Final(way)].state, disc[Final(way)].depth + 1)
      BY <1>0, <2>1, <3>1, CaughtIsJustified
    <3>3. QED
      BY <2>2, <3>2
  <2>5. o = Counterexample(kind, t)
    BY <2>1 DEF t
  <2>6. TracedOf(m, c, o)
    BY <2>2, <2>3, <2>4, <2>5 DEF TracedOf
  <2>7. QED
    BY <1>2, <2>6 DEF Tells
<1>3. QED
  BY <1>1, <1>2 DEF Answer, Tells

=============================================================================
