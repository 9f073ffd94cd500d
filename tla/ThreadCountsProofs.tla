------------------------- MODULE ThreadCountsProofs --------------------------
(***************************************************************************)
(* Part 1, check_parallel, for every number of threads, chunk size,        *)
(* program and hash function: no state is worked on twice, a level is what *)
(* a single thread would have found it to be, a Pass is one, with the same *)
(* numbers whatever the schedule, a rerun has something to report, and the *)
(* cap is overshot by no more than the successors of one state for each    *)
(* thread.                                                                 *)
(*                                                                         *)
(* Part 2, a program checked with --threads 1 and with --threads N, for    *)
(* every hash function without collisions: what the second process reports *)
(* is true, it is the report of the first when value ids are fixed, and    *)
(* the same Pass even when they are raced for.                             *)
(***************************************************************************)
EXTENDS ThreadCounts, SearchProblemProofs

-----------------------------------------------------------------------------
(***************************************************************************)
(* The buffers of the workers, one after the other.  The recursive         *)
(* function is built up to any n: there is no least n at which it could    *)
(* not be.                                                                 *)
(***************************************************************************)
Concat(f) == [n \in 0 .. Threads |-> IF n = 0 THEN << >> ELSE f[n - 1] \o out[n]]

\* The recursive function that joins the buffers exists.
LEMMA ConcatExists == \E f : f = Concat(f)
<1> DEFINE Upward(k, f) == f = [n \in 0 .. k |-> IF n = 0 THEN << >> ELSE f[n - 1] \o out[n]]
           Stuck == {k \in Nat : ~ \E f : Upward(k, f)}
<1>0. Threads \in Nat
  BY ParallelAssumption
<1>1. 0 \notin Stuck
  <2> DEFINE f == [n \in 0 .. 0 |-> << >>]
  <2>1. f = [n \in 0 .. 0 |-> IF n = 0 THEN << >> ELSE f[n - 1] \o out[n]]
    OBVIOUS
  <2>2. Upward(0, f)
    BY <2>1
  <2> HIDE DEF f, Upward
  <2>3. QED
    BY <2>2
<1>2. ASSUME NEW k \in Nat, NEW f, Upward(k, f) PROVE k + 1 \notin Stuck
  <2> DEFINE g == [n \in 0 .. k + 1 |-> IF n = k + 1 THEN f[k] \o out[k + 1] ELSE f[n]]
  <2>1. ASSUME NEW n \in 0 .. k + 1
        PROVE  g[n] = IF n = 0 THEN << >> ELSE g[n - 1] \o out[n]
    <3>1. CASE n = k + 1
      <4>1. n - 1 \in 0 .. k + 1 /\ n - 1 # k + 1 /\ n - 1 = k /\ n # 0
        BY <3>1
      <4>2. g[n] = f[k] \o out[k + 1] /\ g[n - 1] = f[k]
        BY <3>1, <4>1
      <4>3. QED
        BY <3>1, <4>1, <4>2
    <3>2. CASE n # k + 1
      <4>1. n \in 0 .. k /\ g[n] = f[n] /\ (n # 0 => g[n - 1] = f[n - 1])
        BY <3>2
      <4>2. f[n] = IF n = 0 THEN << >> ELSE f[n - 1] \o out[n]
        BY <1>2, <4>1
      <4>3. QED
        BY <4>1, <4>2
    <3>3. QED
      BY <3>1, <3>2
  <2>2. Upward(k + 1, g)
    BY <2>1
  <2> HIDE DEF g, Upward
  <2>3. QED
    BY <2>2
<1>3. Stuck = {}
  <2>1. SUFFICES ASSUME Stuck # {} PROVE FALSE
    OBVIOUS
  <2>2. Stuck \in SUBSET Nat
    OBVIOUS
  <2> HIDE DEF Stuck
  <2>3. PICK k \in Stuck : \A j \in Stuck : k <= j
    BY <2>1, <2>2, LeastNumber
  <2>4. k - 1 \in Nat /\ k - 1 \notin Stuck /\ (k - 1) + 1 = k
    BY <1>1, <2>2, <2>3
  <2>5. PICK f : Upward(k - 1, f)
    BY <2>4 DEF Stuck
  <2>6. QED
    BY <1>2, <2>3, <2>4, <2>5
<1>4. PICK f : Upward(Threads, f)
  BY <1>0, <1>3
<1>5. QED
  BY <1>4 DEF Concat

(***************************************************************************)
(* What joining the buffers yields: the states of all of them, each at a   *)
(* place of its own.                                                       *)
(***************************************************************************)
LEMMA BuffersFacts ==
  ASSUME out \in [Workers -> Seq(States)]
  PROVE  /\ Buffers \in Seq(States)
         /\ Range(Buffers) = UNION {Range(out[w]) : w \in Workers}
         /\ \A i, j \in 1 .. Len(Buffers) :
              \E v, w \in Workers : \E k \in 1 .. Len(out[v]) : \E l \in 1 .. Len(out[w]) :
                /\ Buffers[i] = out[v][k]
                /\ Buffers[j] = out[w][l]
                /\ v = w /\ k = l => i = j
<1> DEFINE f == CHOOSE f : f = Concat(f)
<1>1. f = Concat(f)
  BY ConcatExists
<1>2. Buffers = f[Threads]
  BY DEF Buffers, Concat
<1>3. f[0] = << >> /\ \A n \in Workers : f[n] = f[n - 1] \o out[n]
  <2> HIDE DEF f
  <2>1. Threads \in Nat
    BY ParallelAssumption
  <2>2. \A n \in 0 .. Threads : f[n] = Concat(f)[n]
    BY <1>1
  <2>3. 0 \in 0 .. Threads /\ \A n \in Workers : n \in 0 .. Threads /\ n # 0
    BY <2>1 DEF Workers
  <2>4. QED
    BY <2>2, <2>3 DEF Concat
<1> HIDE DEF f
<1> DEFINE Place(n, i, v, k) == v \in 1 .. n /\ k \in 1 .. Len(out[v]) /\ f[n][i] = out[v][k]
           Right(n) ==
             /\ f[n] \in Seq(States)
             /\ Range(f[n]) = UNION {Range(out[w]) : w \in 1 .. n}
             /\ \A i, j \in 1 .. Len(f[n]) :
                  \E v, w, k, l : /\ Place(n, i, v, k) /\ Place(n, j, w, l)
                                  /\ v = w /\ k = l => i = j
           Wrong == {n \in 0 .. Threads : ~ Right(n)}
<1>4. Right(0)
  <2>1. f[0] \in Seq(States) /\ Len(f[0]) = 0 /\ Range(f[0]) = {}
    BY <1>3, EmptyFacts DEF Range
  <2>2. UNION {Range(out[w]) : w \in 1 .. 0} = {}
    OBVIOUS
  <2>3. QED
    BY <2>1, <2>2
<1>5. ASSUME NEW n \in 1 .. Threads, Right(n - 1) PROVE Right(n)
  <2> DEFINE old == f[n - 1]
             last == out[n]
  <2>1. n \in Workers /\ Threads \in Nat /\ last \in Seq(States) /\ old \in Seq(States)
    BY <1>5, ParallelAssumption DEF Workers
  <2>2. /\ f[n] = old \o last
        /\ f[n] \in Seq(States)
        /\ Len(f[n]) = Len(old) + Len(last)
        /\ \A k \in 1 .. Len(old) : f[n][k] = old[k]
        /\ \A k \in 1 .. Len(last) : f[n][Len(old) + k] = last[k]
        /\ Range(f[n]) = Range(old) \cup Range(last)
    <3>1. f[n] = old \o last
      BY <1>3, <2>1
    <3> HIDE DEF old, last
    <3>2. QED
      BY <2>1, <3>1, ConcatFacts
  <2>3. Range(f[n]) = UNION {Range(out[w]) : w \in 1 .. n}
    <3>1. 1 .. n = (1 .. n - 1) \cup {n}
      BY <2>1
    <3>2. Range(old) = UNION {Range(out[w]) : w \in 1 .. n - 1}
      BY <1>5
    <3>3. QED
      BY <2>2, <3>1, <3>2
  <2>4. Len(old) \in Nat /\ Len(last) \in Nat
    BY <2>1, ElementFacts
  <2>5. ASSUME NEW i \in 1 .. Len(f[n])
        PROVE  (i \in 1 .. Len(old)) \/ (i - Len(old) \in 1 .. Len(last) /\ f[n][i] = last[i - Len(old)])
    <3> HIDE DEF old, last
    <3>1. CASE i \in 1 .. Len(old)
      BY <3>1
    <3>2. CASE i \notin 1 .. Len(old)
      <4>1. i - Len(old) \in 1 .. Len(last) /\ Len(old) + (i - Len(old)) = i
        BY <2>2, <2>4, <3>2
      <4>2. QED
        BY <2>2, <4>1
    <3>3. QED
      BY <3>1, <3>2
  <2>6. ASSUME NEW i \in 1 .. Len(old), NEW v, NEW k, Place(n - 1, i, v, k)
        PROVE  Place(n, i, v, k) /\ v # n
    BY <2>1, <2>2, <2>6
  <2>7. ASSUME NEW i \in 1 .. Len(f[n]), i \notin 1 .. Len(old)
        PROVE  Place(n, i, n, i - Len(old))
    <3>1. i - Len(old) \in 1 .. Len(last) /\ f[n][i] = last[i - Len(old)]
      BY <2>5, <2>7
    <3>2. n \in 1 .. n
      BY <2>1
    <3>3. QED
      BY <3>1, <3>2
  <2>8. ASSUME NEW i \in 1 .. Len(old), NEW j \in 1 .. Len(old)
        PROVE  \E v, w, k, l : /\ Place(n - 1, i, v, k) /\ Place(n - 1, j, w, l)
                               /\ v = w /\ k = l => i = j
    <3>1. i \in 1 .. Len(f[n - 1]) /\ j \in 1 .. Len(f[n - 1])
      BY <2>8
    <3> HIDE DEF Place
    <3>2. QED
      BY <1>5, <3>1
  <2> HIDE DEF Place, old, last
  <2>9. ASSUME NEW i \in 1 .. Len(f[n]), NEW j \in 1 .. Len(f[n])
        PROVE  \E v, w, k, l : /\ Place(n, i, v, k) /\ Place(n, j, w, l)
                               /\ v = w /\ k = l => i = j
    <3>1. CASE i \in 1 .. Len(old) /\ j \in 1 .. Len(old)
      BY <2>6, <2>8, <3>1
    <3>2. CASE i \in 1 .. Len(old) /\ j \notin 1 .. Len(old)
      <4>1. PICK v, k : Place(n - 1, i, v, k)
        BY <2>8, <3>2
      <4>2. Place(n, i, v, k) /\ v # n /\ Place(n, j, n, j - Len(old))
        BY <2>6, <2>7, <3>2, <4>1
      <4>3. QED
        BY <4>2
    <3>3. CASE i \notin 1 .. Len(old) /\ j \in 1 .. Len(old)
      <4>1. PICK v, k : Place(n - 1, j, v, k)
        BY <2>8, <3>3
      <4>2. Place(n, j, v, k) /\ v # n /\ Place(n, i, n, i - Len(old))
        BY <2>6, <2>7, <3>3, <4>1
      <4>3. QED
        BY <4>2
    <3>4. CASE i \notin 1 .. Len(old) /\ j \notin 1 .. Len(old)
      <4>1. Place(n, i, n, i - Len(old)) /\ Place(n, j, n, j - Len(old))
        BY <2>7, <3>4
      <4>2. i - Len(old) = j - Len(old) => i = j
        BY <2>2, <2>4
      <4>3. QED
        BY <4>1, <4>2
    <3>5. QED
      BY <3>1, <3>2, <3>3, <3>4
  <2>10. QED
    BY <2>2, <2>3, <2>9
<1>6. Wrong = {}
  <2>1. SUFFICES ASSUME Wrong # {} PROVE FALSE
    OBVIOUS
  <2>2. Wrong \in SUBSET Nat
    OBVIOUS
  <2> HIDE DEF Right
  <2>3. PICK n \in Wrong : \A k \in Wrong : n <= k
    <3> HIDE DEF Wrong
    <3>1. QED
      BY <2>1, <2>2, LeastNumber
  <2>4. n # 0 /\ Threads \in Nat
    BY <1>4, <2>3, ParallelAssumption
  <2>5. n \in 1 .. Threads /\ n - 1 \in 0 .. Threads /\ n - 1 \notin Wrong
    BY <2>3, <2>4
  <2>6. QED
    BY <1>5, <2>3, <2>5
<1>7. Right(Threads)
  <2>1. Threads \in 0 .. Threads
    BY ParallelAssumption
  <2> HIDE DEF Right
  <2>2. QED
    BY <1>6, <2>1
<1>8. QED
  <2>1. Buffers \in Seq(States) /\ Range(Buffers) = UNION {Range(out[w]) : w \in Workers}
    BY <1>2, <1>7 DEF Workers
  <2>2. ASSUME NEW i \in 1 .. Len(Buffers), NEW j \in 1 .. Len(Buffers)
        PROVE  \E v, w \in Workers : \E k \in 1 .. Len(out[v]) : \E l \in 1 .. Len(out[w]) :
                 /\ Buffers[i] = out[v][k]
                 /\ Buffers[j] = out[w][l]
                 /\ v = w /\ k = l => i = j
    <3>1. PICK v, w, k, l : /\ Place(Threads, i, v, k) /\ Place(Threads, j, w, l)
                            /\ v = w /\ k = l => i = j
      <4>1. i \in 1 .. Len(f[Threads]) /\ j \in 1 .. Len(f[Threads])
        BY <1>2
      <4> HIDE DEF Place
      <4>2. QED
        BY <1>7, <4>1
    <3>2. QED
      BY <1>2, <3>1 DEF Workers
  <2>3. QED
    BY <2>1, <2>2

-----------------------------------------------------------------------------
(***************************************************************************)
(* Type correctness.                                                       *)
(***************************************************************************)
LEMMA StateFacts ==
  ASSUME TypeOK
  PROVE  /\ model \in Models
         /\ cfg \in Configs
         /\ \A s \in States :
              /\ fp[s] \in Nat
              /\ model.step[s] \in Seq(States)
              /\ Range(model.step[s]) \subseteq States
         /\ Threads \in Nat \ {0}
         /\ Workers # {}
<1>1. model \in Models /\ cfg \in Configs /\ fp \in [States -> Nat] /\ Threads \in Nat \ {0}
  BY ParallelAssumption DEF TypeOK
<1>2. model.step \in [States -> Seq(States)]
  BY <1>1, ModelFacts
<1>3. 1 \in Workers
  BY <1>1 DEF Workers
<1>4. QED
  BY <1>1, <1>2, <1>3, RangeInStates

\* A chunk is claimed within the frontier.
LEMMA ChunkFacts ==
  ASSUME TypeOK
  PROVE  /\ Chunk \in Nat \ {0}
         /\ cursor * Chunk \in Nat
         /\ (cursor + 1) * Chunk = cursor * Chunk + Chunk
         /\ Len(frontier) \in Nat
<1>1. Chunk \in Nat \ {0} /\ cursor \in Nat
  BY ParallelAssumption DEF TypeOK
<1>2. QED
  BY <1>1 DEF TypeOK

\* What a worker claims: the part of the frontier up to the new cursor.
LEMMA ClaimFacts ==
  ASSUME TypeOK, NEW w \in Workers, Claim(w), cursor * Chunk < Len(frontier)
  PROVE  \E hi \in Nat :
           /\ cursor * Chunk < hi /\ hi <= Len(frontier) /\ hi <= cursor' * Chunk
           /\ cursor' * Chunk = hi \/ hi = Len(frontier)
           /\ work' = [work EXCEPT ![w] = SubSeq(frontier, cursor * Chunk + 1, hi)]
           /\ work'[w] \in Seq(States)
           /\ Range(work'[w]) = {frontier[k] : k \in cursor * Chunk + 1 .. hi}
           /\ wpc' = [wpc EXCEPT ![w] = "chunk"]
<1> DEFINE lo == cursor * Chunk
           hi == IF lo + Chunk <= Len(frontier) THEN lo + Chunk ELSE Len(frontier)
<1>1. /\ lo \in Nat /\ Chunk \in Nat \ {0} /\ Len(frontier) \in Nat
      /\ cursor' = cursor + 1 /\ cursor' * Chunk = lo + Chunk
  BY ChunkFacts DEF Claim
<1>2. /\ work' = [work EXCEPT ![w] = SubSeq(frontier, lo + 1, hi)]
      /\ wpc' = [wpc EXCEPT ![w] = "chunk"]
  BY <1>1 DEF Claim
<1> HIDE DEF lo
<1>3. /\ hi \in Nat /\ lo < hi /\ hi <= Len(frontier) /\ hi <= cursor' * Chunk
      /\ cursor' * Chunk = hi \/ hi = Len(frontier)
  BY <1>1 DEF lo
<1> HIDE DEF hi
<1>4. /\ SubSeq(frontier, lo + 1, hi) \in Seq(States)
      /\ Range(SubSeq(frontier, lo + 1, hi)) = {frontier[k] : k \in lo + 1 .. hi}
  <2>1. frontier \in Seq(States) /\ lo <= hi
    BY <1>1, <1>3 DEF TypeOK
  <2>2. lo \in Nat /\ hi \in Nat /\ hi <= Len(frontier)
    BY <1>1, <1>3
  <2> HIDE DEF lo, hi
  <2>3. QED
    BY <2>1, <2>2, SubSeqFacts
<1>5. work'[w] = SubSeq(frontier, lo + 1, hi)
  BY <1>2 DEF TypeOK
<1>6. QED
  BY <1>2, <1>3, <1>4, <1>5 DEF lo

\* A worker that finds nothing to claim joins.
LEMMA JoinFacts ==
  ASSUME TypeOK, NEW w \in Workers, Claim(w), ~ (cursor * Chunk < Len(frontier))
  PROVE  /\ work' = work
         /\ wpc' = [wpc EXCEPT ![w] = "joined"]
         /\ cursor' = cursor + 1
         /\ cursor' * Chunk = cursor * Chunk + Chunk
         /\ Len(frontier) <= cursor * Chunk
<1>1. cursor * Chunk >= Len(frontier)
  BY ChunkFacts
<1>2. work' = work /\ wpc' = [wpc EXCEPT ![w] = "joined"] /\ cursor' = cursor + 1
  BY <1>1 DEF Claim
<1>3. QED
  BY <1>1, <1>2, ChunkFacts

\* Giving up the chunk.
LEMMA AbandonFacts ==
  ASSUME TypeOK, NEW w \in Workers, Abandon(w)
  PROVE  /\ wpc' \in [Workers -> {"claim", "chunk", "insert", "joined"}]
         /\ work' \in [Workers -> Seq(States)]
         /\ succs' \in [Workers -> SUBSET States]
         /\ fresh' \in [Workers -> Nat]
         /\ wpc'[w] = "joined" /\ work'[w] = << >> /\ succs'[w] = {} /\ fresh'[w] = 0
         /\ \A v \in Workers :
              v # w => wpc'[v] = wpc[v] /\ work'[v] = work[v] /\ succs'[v] = succs[v]
                       /\ fresh'[v] = fresh[v]
BY EmptyFacts DEF Abandon, TypeOK

\* The variables have their types at first.
LEMMA TypeInit == Init => TypeOK
<1> SUFFICES ASSUME Init PROVE TypeOK
  OBVIOUS
<1>1. IsFiniteSet({})
  BY FS_EmptySet
<1>2. QED
  BY <1>1, EmptyFacts DEF Init, TypeOK, Result, ResultType

\* A new fingerprint leaves the set finite.
LEMMA FpsGrow ==
  ASSUME TypeOK, NEW s \in States
  PROVE  fps \cup {fp[s]} \in SUBSET Nat /\ IsFiniteSet(fps \cup {fp[s]})
<1>1. fp[s] \in Nat
  BY StateFacts
<1>2. IsFiniteSet(fps \cup {fp[s]})
  BY FS_AddElement DEF TypeOK
<1>3. QED
  BY <1>1, <1>2 DEF TypeOK

\* Every step keeps the types.
LEMMA TypeStep ==
  ASSUME TypeOK, [Next]_vars
  PROVE  TypeOK'
<1> DEFINE Typed ==
             /\ work' \in [Workers -> Seq(States)]
             /\ succs' \in [Workers -> SUBSET States]
             /\ fresh' \in [Workers -> Nat]
             /\ out' \in [Workers -> Seq(States)]
             /\ wpc' \in [Workers -> {"claim", "chunk", "insert", "joined"}]
             /\ stop' \in BOOLEAN
<1>0. /\ work \in [Workers -> Seq(States)]
      /\ succs \in [Workers -> SUBSET States]
      /\ fresh \in [Workers -> Nat]
      /\ out \in [Workers -> Seq(States)]
      /\ wpc \in [Workers -> {"claim", "chunk", "insert", "joined"}]
      /\ stop \in BOOLEAN
      /\ cursor \in Nat
  BY DEF TypeOK
<1> HIDE DEF Typed
<1>1. CASE EnumerateInit
  BY <1>1, StateFacts, ModelFacts
  DEF EnumerateInit, TypeOK, Return, Result, ResultType, problem, levelVars, workerVars
<1>2. CASE AdmitInitial
  <2> DEFINE s == Head(todo)
  <2>1. s \in States /\ Tail(todo) \in Seq(States)
    BY <1>2, TailFacts DEF AdmitInitial, TypeOK
  <2>2. fps' = fps \cup {fp[s]}
    BY <1>2 DEF AdmitInitial
  <2>3. fps' \in SUBSET Nat /\ IsFiniteSet(fps')
    BY <2>1, <2>2, FpsGrow
  <2>4. Append(frontier, s) \in Seq(States) /\ discovered + 1 \in Nat
    BY <2>1, AppendFacts DEF TypeOK
  <2> HIDE DEF s
  <2>5. UNCHANGED <<problem, stop, capped, depth, cursor, workerVars>>
    BY <1>2 DEF AdmitInitial
  <2>6. CASE ~ Fresh(s)
    BY <1>2, <2>1, <2>3, <2>5, <2>6 DEF AdmitInitial, TypeOK, problem, workerVars, s
  <2>7. CASE Fresh(s) /\ Bad(s)
    BY <1>2, <2>1, <2>3, <2>5, <2>7
    DEF AdmitInitial, TypeOK, problem, workerVars, s, Return, Result, ResultType
  <2>8. CASE Fresh(s) /\ ~ Bad(s)
    <3>1. /\ frontier' = Append(frontier, s)
          /\ discovered' = discovered + 1
          /\ todo' = Tail(todo)
          /\ \/ UNCHANGED <<pc, result>>
             \/ Return("incomplete", discovered', 0)
      BY <1>2, <2>8 DEF AdmitInitial, s
    <3>2. result' \in ResultType /\ pc' \in {"start", "init", "level", "work", "done"}
      BY <2>4, <3>1 DEF Return, Result, ResultType, TypeOK
    <3>3. QED
      BY <2>1, <2>3, <2>4, <2>5, <3>1, <3>2 DEF TypeOK, problem, workerVars
  <2>9. QED
    BY <2>6, <2>7, <2>8
<1>3. CASE InitDone
  BY <1>3 DEF InitDone, TypeOK, problem, levelVars, workerVars
<1>4. CASE Spawn
  BY <1>4, EmptyFacts DEF Spawn, TypeOK, problem, levelVars
<1>5. CASE ReportPass
  <2>1. Cardinality(fps) \in Nat
    BY FS_CardinalityType DEF TypeOK
  <2>2. QED
    BY <1>5, <2>1
    DEF ReportPass, TypeOK, Return, Result, ResultType, problem, levelVars, workerVars
<1>6. CASE JoinStopped
  BY <1>6 DEF JoinStopped, TypeOK, Return, Result, ResultType, problem, levelVars, workerVars
<1>7. CASE JoinLevel
  <2>1. Cardinality(fps) \in Nat
    BY FS_CardinalityType DEF TypeOK
  <2>2. frontier' \in Seq(States)
    BY <1>7, BuffersFacts DEF JoinLevel, TypeOK
  <2>3. depth' \in Nat
    BY <1>7 DEF JoinLevel, NextDepth, TypeOK
  <2>4. result' \in ResultType /\ pc' \in {"start", "init", "level", "work", "done"}
    BY <1>7, <2>1 DEF JoinLevel, Return, Result, ResultType, TypeOK
  <2>5. QED
    BY <1>7, <2>2, <2>3, <2>4 DEF JoinLevel, TypeOK, problem, workerVars
<1>8. ASSUME NEW w \in Workers, Claim(w) PROVE TypeOK'
  <2>1. work' \in [Workers -> Seq(States)]
    <3>1. CASE cursor * Chunk < Len(frontier)
      BY <1>8, <3>1, ClaimFacts DEF TypeOK
    <3>2. CASE ~ (cursor * Chunk < Len(frontier))
      BY <1>8, <3>2, JoinFacts DEF TypeOK
    <3>3. QED
      BY <3>1, <3>2
  <2>2. wpc' \in [Workers -> {"claim", "chunk", "insert", "joined"}] /\ cursor' \in Nat
    <3>1. wpc' = [wpc EXCEPT ![w] = "chunk"] \/ wpc' = [wpc EXCEPT ![w] = "joined"]
      BY <1>8, ClaimFacts, JoinFacts
    <3>2. cursor' = cursor + 1
      BY <1>8 DEF Claim
    <3>3. wpc' \in [Workers -> {"claim", "chunk", "insert", "joined"}]
      BY <1>0, <3>1
    <3>4. QED
      BY <1>0, <3>2, <3>3
  <2>3. QED
    BY <1>8, <2>1, <2>2 DEF Claim, TypeOK, problem, levelVars
<1>9. ASSUME NEW w \in Workers, SeeStop(w) PROVE TypeOK'
  BY <1>9 DEF SeeStop, TypeOK, problem, levelVars
<1>10. ASSUME NEW w \in Workers, TakeState(w) PROVE TypeOK'
  <2> DEFINE s == Head(work[w])
  <2>1. s \in States /\ Tail(work[w]) \in Seq(States)
    BY <1>0, <1>10, TailFacts DEF TakeState
  <2>2. Range(model.step[s]) \in SUBSET States
    BY <2>1, StateFacts
  <2>3. out' = out
    BY <1>10 DEF TakeState
  <2>4. ASSUME stop' = TRUE, Abandon(w) PROVE Typed
    BY <1>0, <2>3, <2>4, AbandonFacts DEF Typed
  <2>5. ASSUME work' = [work EXCEPT ![w] = Tail(work[w])],
               UNCHANGED <<stop, fresh>>,
               \/ UNCHANGED <<wpc, succs>>
               \/ /\ succs' = [succs EXCEPT ![w] = Range(model.step[s])]
                  /\ wpc' = [wpc EXCEPT ![w] = "insert"]
        PROVE  Typed
    <3> HIDE DEF s
    <3>1. QED
      BY <1>0, <2>1, <2>2, <2>3, <2>5 DEF Typed
  <2>6. Typed
    BY <1>10, <2>4, <2>5 DEF TakeState
  <2>7. QED
    BY <1>10, <2>6 DEF TakeState, Typed, TypeOK, problem, levelVars
<1>11. ASSUME NEW w \in Workers, InsertSuccessor(w) PROVE TypeOK'
  <2>1. PICK s \in succs[w] :
          /\ fps' = fps \cup {fp[s]}
          /\ IF Fresh(s) /\ Bad(s)
             THEN /\ stop' = TRUE
                  /\ Abandon(w)
                  /\ UNCHANGED out
             ELSE /\ succs' = [succs EXCEPT ![w] = @ \ {s}]
                  /\ IF Fresh(s)
                     THEN /\ fresh' = [fresh EXCEPT ![w] = @ + 1]
                          /\ out' = [out EXCEPT ![w] = Append(@, s)]
                     ELSE UNCHANGED <<fresh, out>>
                  /\ UNCHANGED <<stop, wpc, work>>
    BY <1>11 DEF InsertSuccessor
  <2>2. s \in States
    BY <1>0
  <2>3. fps' \in SUBSET Nat /\ IsFiniteSet(fps')
    BY <2>1, <2>2, FpsGrow
  <2>4. Append(out[w], s) \in Seq(States)
    BY <1>0, <2>2, AppendFacts
  <2>5. ASSUME stop' = TRUE, Abandon(w), UNCHANGED out PROVE Typed
    BY <1>0, <2>5, AbandonFacts DEF Typed
  <2>6. ASSUME succs' = [succs EXCEPT ![w] = succs[w] \ {s}],
               UNCHANGED <<stop, wpc, work>>,
               \/ UNCHANGED <<fresh, out>>
               \/ /\ fresh' = [fresh EXCEPT ![w] = fresh[w] + 1]
                  /\ out' = [out EXCEPT ![w] = Append(out[w], s)]
        PROVE  Typed
    <3>1. succs[w] \ {s} \in SUBSET States /\ fresh[w] + 1 \in Nat
      BY <1>0
    <3>2. succs' \in [Workers -> SUBSET States]
      BY <1>0, <2>6, <3>1
    <3>3. fresh' \in [Workers -> Nat]
      BY <1>0, <2>6, <3>1
    <3>4. out' \in [Workers -> Seq(States)]
      BY <1>0, <2>4, <2>6
    <3>5. QED
      BY <1>0, <2>6, <3>2, <3>3, <3>4 DEF Typed
  <2>7. Typed
    BY <2>1, <2>5, <2>6
  <2>8. QED
    BY <1>11, <2>3, <2>7 DEF InsertSuccessor, Typed, TypeOK, problem, levelVars
<1>12. ASSUME NEW w \in Workers, CountFresh(w) PROVE TypeOK'
  <2>1. discovered' \in Nat /\ out' = out
    BY <1>12 DEF CountFresh, TypeOK
  <2>2. ASSUME stop' = TRUE, Abandon(w) PROVE Typed
    BY <1>0, <2>1, <2>2, AbandonFacts DEF Typed
  <2>3. ASSUME wpc' = [wpc EXCEPT ![w] = "chunk"],
               fresh' = [fresh EXCEPT ![w] = 0],
               UNCHANGED <<stop, work, succs>>
        PROVE  Typed
    BY <1>0, <2>1, <2>3 DEF Typed
  <2>4. Typed /\ (capped' = TRUE \/ capped' = capped)
    BY <1>12, <2>2, <2>3 DEF CountFresh
  <2>5. QED
    BY <1>12, <2>1, <2>4 DEF CountFresh, Typed, TypeOK, problem, levelVars
<1>13. ASSUME NEW w \in Workers, ChunkDone(w) PROVE TypeOK'
  BY <1>13 DEF ChunkDone, TypeOK, problem, levelVars
<1>14. CASE UNCHANGED vars
  BY <1>14 DEF vars, TypeOK, problem, levelVars, workerVars
<1>15. QED
  BY <1>1, <1>2, <1>3, <1>4, <1>5, <1>6, <1>7, <1>8, <1>9, <1>10, <1>11, <1>12, <1>13, <1>14
     DEF Next, Coordinate, Step, Returned

(***************************************************************************)
(* The variables of the model keep their types.                            *)
(***************************************************************************)
THEOREM TypeCorrectness == Spec => []TypeOK
<1>1. Init => TypeOK
  BY TypeInit
<1>2. TypeOK /\ [Next]_vars => TypeOK'
  BY TypeStep
<1>3. QED
  BY <1>1, <1>2, PTL DEF Spec

-----------------------------------------------------------------------------
(***************************************************************************)
(* What a step of a worker does, worker by worker.                         *)
(***************************************************************************)
LEMMA StepOthers ==
  ASSUME TypeOK, NEW w \in Workers, Step(w)
  PROVE  /\ UNCHANGED <<model, cfg, fp, pc, todo, frontier, depth, result>>
         /\ \A v \in Workers : v # w =>
              /\ wpc'[v] = wpc[v] /\ work'[v] = work[v] /\ succs'[v] = succs[v]
              /\ fresh'[v] = fresh[v] /\ out'[v] = out[v]
<1>0. /\ work \in [Workers -> Seq(States)]
      /\ succs \in [Workers -> SUBSET States]
      /\ fresh \in [Workers -> Nat]
      /\ out \in [Workers -> Seq(States)]
      /\ wpc \in [Workers -> {"claim", "chunk", "insert", "joined"}]
  BY DEF TypeOK
<1> DEFINE Same(f, g) == \A v \in Workers : v # w => g[v] = f[v]
           Goal == /\ UNCHANGED <<model, cfg, fp, pc, todo, frontier, depth, result>>
                   /\ Same(wpc, wpc') /\ Same(work, work') /\ Same(succs, succs')
                   /\ Same(fresh, fresh') /\ Same(out, out')
<1>1. ASSUME Claim(w) PROVE Goal
  <2>1. /\ UNCHANGED <<model, cfg, fp, pc, todo, frontier, depth, result>>
        /\ UNCHANGED <<succs, fresh, out>>
    BY <1>1 DEF Claim, problem, levelVars
  <2>2. Same(wpc, wpc') /\ Same(work, work')
    <3>1. CASE cursor * Chunk < Len(frontier)
      <4>1. /\ \E x : work' = [work EXCEPT ![w] = x]
            /\ \E x : wpc' = [wpc EXCEPT ![w] = x]
        BY <1>1, <3>1, ClaimFacts
      <4>2. QED
        BY <1>0, <4>1
    <3>2. CASE ~ (cursor * Chunk < Len(frontier))
      BY <1>0, <1>1, <3>2, JoinFacts
    <3>3. QED
      BY <3>1, <3>2
  <2>3. QED
    BY <2>1, <2>2
<1>2. ASSUME SeeStop(w) PROVE Goal
  BY <1>0, <1>2 DEF SeeStop, problem, levelVars
<1>3. ASSUME TakeState(w) PROVE Goal
  <2>1. /\ UNCHANGED <<model, cfg, fp, pc, todo, frontier, depth, result, out>>
        /\ \/ Abandon(w)
           \/ /\ work' = [work EXCEPT ![w] = Tail(work[w])]
              /\ UNCHANGED <<wpc, succs, fresh>>
           \/ /\ work' = [work EXCEPT ![w] = Tail(work[w])]
              /\ succs' = [succs EXCEPT ![w] = Range(model.step[Head(work[w])])]
              /\ wpc' = [wpc EXCEPT ![w] = "insert"]
              /\ UNCHANGED fresh
    BY <1>3 DEF TakeState, problem, levelVars
  <2>2. CASE Abandon(w)
    BY <2>1, <2>2, AbandonFacts
  <2>3. CASE ~ Abandon(w)
    BY <1>0, <2>1, <2>3
  <2>4. QED
    BY <2>2, <2>3
<1>4. ASSUME InsertSuccessor(w) PROVE Goal
  <2>1. PICK s \in succs[w] :
          \/ Abandon(w) /\ UNCHANGED out
          \/ /\ succs' = [succs EXCEPT ![w] = succs[w] \ {s}]
             /\ UNCHANGED <<wpc, work>>
             /\ \/ UNCHANGED <<fresh, out>>
                \/ /\ fresh' = [fresh EXCEPT ![w] = fresh[w] + 1]
                   /\ out' = [out EXCEPT ![w] = Append(out[w], s)]
    BY <1>4 DEF InsertSuccessor
  <2>2. UNCHANGED <<model, cfg, fp, pc, todo, frontier, depth, result>>
    BY <1>4 DEF InsertSuccessor, problem, levelVars
  <2>3. CASE Abandon(w) /\ UNCHANGED out
    BY <2>2, <2>3, AbandonFacts
  <2>4. CASE ~ (Abandon(w) /\ UNCHANGED out)
    BY <1>0, <2>1, <2>2, <2>4
  <2> HIDE DEF Goal
  <2>5. QED
    BY <2>1, <2>3, <2>4
<1>5. ASSUME CountFresh(w) PROVE Goal
  <2>1. /\ UNCHANGED <<model, cfg, fp, pc, todo, frontier, depth, result, out>>
        /\ \/ Abandon(w)
           \/ /\ wpc' = [wpc EXCEPT ![w] = "chunk"]
              /\ fresh' = [fresh EXCEPT ![w] = 0]
              /\ UNCHANGED <<work, succs>>
    BY <1>5 DEF CountFresh, problem, levelVars
  <2>2. CASE Abandon(w)
    BY <2>1, <2>2, AbandonFacts
  <2>3. CASE ~ Abandon(w)
    BY <1>0, <2>1, <2>3
  <2>4. QED
    BY <2>2, <2>3
<1>6. ASSUME ChunkDone(w) PROVE Goal
  BY <1>0, <1>6 DEF ChunkDone, problem, levelVars
<1>7. Goal
  BY <1>1, <1>2, <1>3, <1>4, <1>5, <1>6 DEF Step
<1>8. QED
  BY <1>7

\* Claiming a chunk, or joining.
LEMMA ClaimOwn ==
  ASSUME TypeOK, NEW w \in Workers, Claim(w)
  PROVE  /\ wpc[w] = "claim"
         /\ UNCHANGED <<fps, discovered, stop, capped>>
         /\ succs'[w] = succs[w] /\ fresh'[w] = fresh[w] /\ out'[w] = out[w]
         /\ cursor * Chunk \in Nat /\ cursor' * Chunk \in Nat /\ Len(frontier) \in Nat
         /\ cursor * Chunk < cursor' * Chunk
         /\ \/ /\ wpc'[w] = "joined" /\ work'[w] = work[w]
               /\ Len(frontier) <= cursor * Chunk
            \/ /\ wpc'[w] = "chunk"
               /\ \E hi \in Nat :
                    /\ cursor * Chunk < hi /\ hi <= Len(frontier) /\ hi <= cursor' * Chunk
                    /\ cursor' * Chunk = hi \/ hi = Len(frontier)
                    /\ Range(work'[w]) = {frontier[k] : k \in cursor * Chunk + 1 .. hi}
<1>1. /\ wpc[w] = "claim" /\ cursor' = cursor + 1
      /\ UNCHANGED <<fps, discovered, stop, capped, succs, fresh, out>>
  BY DEF Claim
<1>2. /\ cursor * Chunk \in Nat /\ Len(frontier) \in Nat /\ Chunk \in Nat \ {0}
      /\ cursor' * Chunk = cursor * Chunk + Chunk
  BY <1>1, ChunkFacts
<1>3. wpc \in [Workers -> {"claim", "chunk", "insert", "joined"}]
  BY DEF TypeOK
<1>4. CASE cursor * Chunk < Len(frontier)
  <2>1. PICK hi \in Nat :
          /\ cursor * Chunk < hi /\ hi <= Len(frontier) /\ hi <= cursor' * Chunk
          /\ cursor' * Chunk = hi \/ hi = Len(frontier)
          /\ Range(work'[w]) = {frontier[k] : k \in cursor * Chunk + 1 .. hi}
          /\ wpc' = [wpc EXCEPT ![w] = "chunk"]
    BY <1>4, ClaimFacts
  <2>2. wpc'[w] = "chunk"
    BY <1>3, <2>1
  <2>3. QED
    BY <1>1, <1>2, <2>1, <2>2
<1>5. CASE ~ (cursor * Chunk < Len(frontier))
  <2>1. work' = work /\ wpc' = [wpc EXCEPT ![w] = "joined"] /\ Len(frontier) <= cursor * Chunk
    BY <1>5, JoinFacts
  <2>2. wpc'[w] = "joined"
    BY <1>3, <2>1
  <2>3. QED
    BY <1>1, <1>2, <2>1, <2>2
<1>6. QED
  BY <1>4, <1>5

\* Joining because of the flag.
LEMMA SeeStopOwn ==
  ASSUME TypeOK, NEW w \in Workers, SeeStop(w)
  PROVE  /\ wpc[w] = "claim" /\ wpc'[w] = "joined" /\ stop
         /\ UNCHANGED <<fps, discovered, stop, capped, cursor>>
         /\ work'[w] = work[w] /\ succs'[w] = succs[w] /\ fresh'[w] = fresh[w] /\ out'[w] = out[w]
BY DEF SeeStop, TypeOK

\* Taking a state of the chunk.
LEMMA TakeOwn ==
  ASSUME TypeOK, NEW w \in Workers, TakeState(w)
  PROVE  /\ wpc[w] = "chunk"
         /\ work[w] \in Seq(States) /\ work[w] # << >> /\ Head(work[w]) \in States
         /\ UNCHANGED <<fps, discovered, capped, cursor>>
         /\ out'[w] = out[w]
         /\ \/ /\ ~ Expandable(Head(work[w]))
               /\ stop' = TRUE
               /\ wpc'[w] = "joined" /\ work'[w] = << >> /\ succs'[w] = {} /\ fresh'[w] = 0
            \/ /\ Expandable(Head(work[w]))
               /\ stop' = stop
               /\ work'[w] = Tail(work[w]) /\ fresh'[w] = fresh[w]
               /\ \/ AtBound /\ wpc'[w] = wpc[w] /\ succs'[w] = succs[w]
                  \/ /\ ~ AtBound /\ wpc'[w] = "insert"
                     /\ succs'[w] = Range(model.step[Head(work[w])])
<1>0. /\ work \in [Workers -> Seq(States)]
      /\ succs \in [Workers -> SUBSET States]
      /\ wpc \in [Workers -> {"claim", "chunk", "insert", "joined"}]
  BY DEF TypeOK
<1> DEFINE s == Head(work[w])
<1>1. /\ wpc[w] = "chunk" /\ work[w] # << >>
      /\ UNCHANGED <<fps, discovered, capped, cursor, out>>
  BY DEF TakeState
<1>2. work[w] \in Seq(States) /\ s \in States
  BY <1>0, <1>1, TailFacts
<1>3. CASE s \in model.stepError \/ (model.step[s] = << >> /\ cfg.deadlock)
  <2>1. stop' = TRUE /\ Abandon(w)
    BY <1>3 DEF TakeState
  <2>2. ~ Expandable(s)
    BY <1>3 DEF Expandable
  <2>3. QED
    BY <1>1, <1>2, <2>1, <2>2, AbandonFacts
<1>4. CASE ~ (s \in model.stepError \/ (model.step[s] = << >> /\ cfg.deadlock))
  <2>1. /\ work' = [work EXCEPT ![w] = Tail(work[w])]
        /\ UNCHANGED <<stop, fresh>>
        /\ \/ AtBound /\ UNCHANGED <<wpc, succs>>
           \/ /\ ~ AtBound
              /\ succs' = [succs EXCEPT ![w] = Range(model.step[s])]
              /\ wpc' = [wpc EXCEPT ![w] = "insert"]
    BY <1>4 DEF TakeState
  <2>2. Expandable(s)
    BY <1>4 DEF Expandable
  <2> HIDE DEF s
  <2>3. /\ work'[w] = Tail(work[w])
        /\ \/ AtBound /\ wpc'[w] = wpc[w] /\ succs'[w] = succs[w]
           \/ ~ AtBound /\ wpc'[w] = "insert" /\ succs'[w] = Range(model.step[s])
    BY <1>0, <2>1
  <2>4. QED
    BY <1>1, <1>2, <2>1, <2>2, <2>3 DEF s
<1>5. QED
  BY <1>3, <1>4

\* Looking at a successor.
LEMMA InsertOwn ==
  ASSUME TypeOK, NEW w \in Workers, InsertSuccessor(w)
  PROVE  /\ wpc[w] = "insert"
         /\ UNCHANGED <<discovered, capped, cursor>>
         /\ \E s \in succs[w] :
              /\ s \in States
              /\ fps' = fps \cup {fp[s]}
              /\ \/ /\ Fresh(s) /\ Bad(s)
                    /\ stop' = TRUE
                    /\ wpc'[w] = "joined" /\ work'[w] = << >> /\ succs'[w] = {} /\ fresh'[w] = 0
                    /\ out'[w] = out[w]
                 \/ /\ stop' = stop
                    /\ wpc'[w] = wpc[w] /\ work'[w] = work[w] /\ succs'[w] = succs[w] \ {s}
                    /\ \/ ~ Fresh(s) /\ fresh'[w] = fresh[w] /\ out'[w] = out[w]
                       \/ /\ Fresh(s) /\ ~ Bad(s)
                          /\ fresh'[w] = fresh[w] + 1
                          /\ out'[w] = Append(out[w], s)
<1>0. /\ succs \in [Workers -> SUBSET States]
      /\ fresh \in [Workers -> Nat]
      /\ out \in [Workers -> Seq(States)]
  BY DEF TypeOK
<1>1. wpc[w] = "insert" /\ UNCHANGED <<discovered, capped, cursor>>
  BY DEF InsertSuccessor
<1>2. PICK s \in succs[w] :
        /\ fps' = fps \cup {fp[s]}
        /\ \/ Fresh(s) /\ Bad(s) /\ stop' = TRUE /\ Abandon(w) /\ UNCHANGED out
           \/ /\ ~ (Fresh(s) /\ Bad(s))
              /\ succs' = [succs EXCEPT ![w] = succs[w] \ {s}]
              /\ UNCHANGED <<stop, wpc, work>>
              /\ \/ ~ Fresh(s) /\ UNCHANGED <<fresh, out>>
                 \/ /\ Fresh(s)
                    /\ fresh' = [fresh EXCEPT ![w] = fresh[w] + 1]
                    /\ out' = [out EXCEPT ![w] = Append(out[w], s)]
  BY DEF InsertSuccessor
<1>3. s \in States
  BY <1>0
<1>4. CASE Fresh(s) /\ Bad(s) /\ stop' = TRUE /\ Abandon(w) /\ UNCHANGED out
  BY <1>1, <1>2, <1>3, <1>4, AbandonFacts
<1>5. CASE ~ (Fresh(s) /\ Bad(s))
  <2>1. /\ UNCHANGED <<stop, wpc, work>> /\ succs'[w] = succs[w] \ {s}
        /\ \/ ~ Fresh(s) /\ fresh'[w] = fresh[w] /\ out'[w] = out[w]
           \/ Fresh(s) /\ ~ Bad(s) /\ fresh'[w] = fresh[w] + 1 /\ out'[w] = Append(out[w], s)
    BY <1>0, <1>2, <1>5
  <2>2. QED
    BY <1>1, <1>2, <1>3, <2>1
<1>6. QED
  BY <1>2, <1>4, <1>5

\* Counting what was fresh.
LEMMA CountOwn ==
  ASSUME TypeOK, NEW w \in Workers, CountFresh(w)
  PROVE  /\ wpc[w] = "insert" /\ succs[w] = {}
         /\ UNCHANGED <<fps, cursor>>
         /\ out'[w] = out[w]
         /\ discovered' = discovered + fresh[w]
         /\ fresh'[w] = 0 /\ succs'[w] = {}
         /\ \/ /\ fresh[w] > 0 /\ Reached(cfg.maxStates, discovered')
               /\ capped' = TRUE /\ stop' = TRUE
               /\ wpc'[w] = "joined" /\ work'[w] = << >>
            \/ /\ ~ (fresh[w] > 0 /\ Reached(cfg.maxStates, discovered'))
               /\ UNCHANGED <<capped, stop>>
               /\ wpc'[w] = "chunk" /\ work'[w] = work[w]
<1>0. /\ fresh \in [Workers -> Nat]
      /\ wpc \in [Workers -> {"claim", "chunk", "insert", "joined"}]
  BY DEF TypeOK
<1>1. /\ wpc[w] = "insert" /\ succs[w] = {} /\ UNCHANGED <<fps, cursor, out>>
      /\ discovered' = discovered + fresh[w]
  BY DEF CountFresh
<1>2. CASE fresh[w] > 0 /\ Reached(cfg.maxStates, discovered')
  <2>1. capped' = TRUE /\ stop' = TRUE /\ Abandon(w)
    BY <1>2 DEF CountFresh
  <2>2. QED
    BY <1>1, <1>2, <2>1, AbandonFacts
<1>3. CASE ~ (fresh[w] > 0 /\ Reached(cfg.maxStates, discovered'))
  <2>1. /\ wpc' = [wpc EXCEPT ![w] = "chunk"]
        /\ fresh' = [fresh EXCEPT ![w] = 0]
        /\ UNCHANGED <<capped, stop, work, succs>>
    BY <1>3 DEF CountFresh
  <2>2. wpc'[w] = "chunk" /\ fresh'[w] = 0
    BY <1>0, <2>1
  <2>3. QED
    BY <1>1, <1>3, <2>1, <2>2
<1>4. QED
  BY <1>2, <1>3

\* Finishing a chunk.
LEMMA DoneOwn ==
  ASSUME TypeOK, NEW w \in Workers, ChunkDone(w)
  PROVE  /\ wpc[w] = "chunk" /\ wpc'[w] = "claim" /\ work[w] = << >>
         /\ UNCHANGED <<fps, discovered, stop, capped, cursor>>
         /\ work'[w] = work[w] /\ succs'[w] = succs[w] /\ fresh'[w] = fresh[w] /\ out'[w] = out[w]
BY DEF ChunkDone, TypeOK

-----------------------------------------------------------------------------
(***************************************************************************)
(* Workers work during a level only.                                       *)
(***************************************************************************)
LEMMA Working ==
  ASSUME TypeOK, WorkersRest, NEW w \in Workers, Step(w)
  PROVE  pc = "work" /\ pc' = "work" /\ wpc[w] # "joined"
<1>1. wpc[w] # "joined"
  BY ClaimOwn, SeeStopOwn, TakeOwn, InsertOwn, CountOwn, DoneOwn DEF Step
<1>2. QED
  BY <1>1, StepOthers DEF WorkersRest

\* The workers' variables outside of their own steps.
LEMMA RestStep ==
  ASSUME TypeOK, WorkersRest, [Next]_vars
  PROVE  WorkersRest'
<1>1. CASE Spawn
  <2>1. /\ pc = "level" /\ pc' = "work" /\ UNCHANGED <<work, succs, fresh>>
    BY <1>1 DEF Spawn
  <2>2. \A w \in Workers : work[w] = << >> /\ succs[w] = {} /\ fresh[w] = 0
    BY <2>1 DEF WorkersRest
  <2>3. QED
    BY <2>1, <2>2 DEF WorkersRest
<1>2. ASSUME NEW w \in Workers, Step(w) PROVE WorkersRest'
  <2>1. pc = "work" /\ pc' = "work"
    BY <1>2, Working
  <2>2. /\ wpc'[w] \in {"claim", "joined"} => work'[w] = << >>
        /\ wpc'[w] # "insert" => succs'[w] = {} /\ fresh'[w] = 0
    <3> /\ wpc[w] \in {"claim", "joined"} => work[w] = << >>
        /\ wpc[w] # "insert" => succs[w] = {} /\ fresh[w] = 0
      BY DEF WorkersRest
    <3>1. CASE Claim(w)
      BY <3>1, ClaimOwn
    <3>2. CASE SeeStop(w)
      BY <3>2, SeeStopOwn
    <3>3. CASE TakeState(w)
      BY <3>3, TakeOwn
    <3>4. CASE InsertSuccessor(w)
      BY <3>4, InsertOwn
    <3>5. CASE CountFresh(w)
      BY <3>5, CountOwn
    <3>6. CASE ChunkDone(w)
      BY <3>6, DoneOwn
    <3>7. QED
      BY <1>2, <3>1, <3>2, <3>3, <3>4, <3>5, <3>6 DEF Step
  <2>3. QED
    BY <1>2, <2>1, <2>2, StepOthers DEF WorkersRest
<1>3. CASE EnumerateInit \/ AdmitInitial \/ InitDone \/ ReportPass
  <2>1. pc # "work" /\ pc' # "work" /\ UNCHANGED <<wpc, work, succs, fresh>>
    BY <1>3 DEF EnumerateInit, AdmitInitial, InitDone, ReportPass, Return, workerVars
  <2>2. QED
    BY <2>1 DEF WorkersRest
<1>4. CASE JoinStopped \/ JoinLevel
  <2>1. /\ \A w \in Workers : wpc[w] = "joined"
        /\ UNCHANGED <<wpc, work, succs, fresh>>
    BY <1>4 DEF JoinStopped, JoinLevel, AllJoined, workerVars
  <2>2. QED
    BY <2>1 DEF WorkersRest
<1>5. CASE UNCHANGED vars
  BY <1>5 DEF vars, workerVars, WorkersRest
<1>6. QED
  BY <1>1, <1>2, <1>3, <1>4, <1>5 DEF Next, Coordinate, Returned

-----------------------------------------------------------------------------
(***************************************************************************)
(* No fingerprint is listed twice.                                         *)
(***************************************************************************)
LEMMA FpsOnlyGrow ==
  ASSUME TypeOK, NEW w \in Workers, Step(w)
  PROVE  fps \subseteq fps'
BY ClaimOwn, SeeStopOwn, TakeOwn, InsertOwn, CountOwn, DoneOwn DEF Step

\* The initial states that are listed.
LEMMA AdmitFacts ==
  ASSUME TypeOK, AdmitInitial
  PROVE  /\ Head(todo) \in States /\ todo \in Seq(States) /\ todo # << >> /\ pc = "init"
         /\ fps' = fps \cup {fp[Head(todo)]}
         /\ UNCHANGED <<model, cfg, fp, stop, capped, depth, cursor, wpc, work, succs, fresh, out>>
         /\ \/ /\ Seen(Head(todo)) /\ todo' = Tail(todo)
               /\ UNCHANGED <<pc, discovered, frontier, result>>
            \/ /\ ~ Seen(Head(todo)) /\ Bad(Head(todo))
               /\ Return("rerun", 0, 0)
               /\ UNCHANGED <<todo, discovered, frontier>>
            \/ /\ ~ Seen(Head(todo)) /\ ~ Bad(Head(todo))
               /\ frontier' = Append(frontier, Head(todo))
               /\ discovered' = discovered + 1
               /\ todo' = Tail(todo)
               /\ \/ /\ Reached(cfg.maxStates, discovered')
                     /\ Return("incomplete", discovered', 0)
                  \/ /\ ~ Reached(cfg.maxStates, discovered')
                     /\ UNCHANGED <<pc, result>>
<1>1. todo # << >> /\ pc = "init" /\ todo \in Seq(States)
  BY DEF AdmitInitial, TypeOK
<1>2. Head(todo) \in States
  BY <1>1, TailFacts
<1>3. QED
  BY <1>1, <1>2 DEF AdmitInitial, Fresh, Seen, problem, workerVars

\* The frontier stays without repetition.
LEMMA FrontierStep ==
  ASSUME TypeOK, WorkersRest, FrontierOnce, OutOnce, [Next]_vars
  PROVE  FrontierOnce'
<1>0. frontier \in Seq(States) /\ Len(frontier) \in Nat
  BY DEF TypeOK
<1>1. CASE AdmitInitial
  <2> DEFINE s == Head(todo)
  <2>1. s \in States /\ fps' = fps \cup {fp[s]} /\ fp' = fp
    BY <1>1, AdmitFacts
  <2>2. (frontier' = frontier) \/ (~ Seen(s) /\ frontier' = Append(frontier, s))
    BY <1>1, AdmitFacts
  <2> HIDE DEF s
  <2>3. CASE frontier' = frontier
    BY <2>1, <2>3 DEF FrontierOnce
  <2>4. CASE ~ Seen(s) /\ frontier' = Append(frontier, s)
    <3>1. /\ Len(frontier') = Len(frontier) + 1
          /\ frontier'[Len(frontier) + 1] = s
          /\ \A k \in 1 .. Len(frontier) : frontier'[k] = frontier[k]
      BY <1>0, <2>1, <2>4, AppendFacts
    <3>2. \A k \in 1 .. Len(frontier) : fp[frontier[k]] # fp[s]
      BY <2>4 DEF FrontierOnce, Seen
    <3>3. \A k \in 1 .. Len(frontier) + 1 : k \in 1 .. Len(frontier) \/ k = Len(frontier) + 1
      BY <1>0
    <3>4. QED
      BY <2>1, <3>1, <3>2, <3>3 DEF FrontierOnce
  <2>5. QED
    BY <2>2, <2>3, <2>4
<1>2. CASE JoinLevel
  <2>1. frontier' = Buffers /\ UNCHANGED <<fps, fp>> /\ pc = "work"
    BY <1>2 DEF JoinLevel, AllJoined, problem
  <2>2. ASSUME NEW i \in 1 .. Len(Buffers), NEW j \in 1 .. Len(Buffers)
        PROVE  /\ fp[Buffers[i]] \in fps
               /\ fp[Buffers[i]] = fp[Buffers[j]] => i = j
    <3>1. PICK v, w \in Workers : \E k \in 1 .. Len(out[v]) : \E l \in 1 .. Len(out[w]) :
            /\ Buffers[i] = out[v][k]
            /\ Buffers[j] = out[w][l]
            /\ v = w /\ k = l => i = j
      BY BuffersFacts DEF TypeOK
    <3>2. QED
      BY <2>1, <3>1 DEF OutOnce
  <2>3. QED
    BY <2>1, <2>2 DEF FrontierOnce
<1>3. ASSUME NEW w \in Workers, Step(w) PROVE FrontierOnce'
  BY <1>3, StepOthers, FpsOnlyGrow DEF FrontierOnce
<1>4. CASE EnumerateInit \/ InitDone \/ Spawn \/ ReportPass \/ JoinStopped \/ UNCHANGED vars
  <2>1. UNCHANGED <<frontier, fps, fp>>
    BY <1>4 DEF EnumerateInit, InitDone, Spawn, ReportPass, JoinStopped, vars, problem, levelVars
  <2>2. QED
    BY <2>1 DEF FrontierOnce
<1>5. QED
  BY <1>1, <1>2, <1>3, <1>4 DEF Next, Coordinate, Returned

\* The buffers stay without repetition.
LEMMA OutStep ==
  ASSUME TypeOK, WorkersRest, FrontierOnce, OutOnce, [Next]_vars
  PROVE  OutOnce'
<1>0. out \in [Workers -> Seq(States)] /\ frontier \in Seq(States)
  BY DEF TypeOK
<1>1. CASE Spawn
  <2>1. \A w \in Workers : Len(out'[w]) = 0
    BY <1>1, EmptyFacts DEF Spawn
  <2>2. QED
    BY <2>1 DEF OutOnce
<1>2. ASSUME NEW w \in Workers, Step(w) PROVE OutOnce'
  <2>1. /\ pc = "work" /\ fps \subseteq fps' /\ frontier' = frontier /\ fp' = fp
        /\ \A v \in Workers : v # w => out'[v] = out[v]
    BY <1>2, Working, FpsOnlyGrow, StepOthers
  <2>2. CASE out'[w] = out[w]
    <3>1. \A v \in Workers : out'[v] = out[v]
      BY <2>1, <2>2
    <3>2. QED
      BY <2>1, <3>1 DEF OutOnce
  <2>3. CASE InsertSuccessor(w) /\ out'[w] # out[w]
    <3>1. PICK s \in States : /\ fps' = fps \cup {fp[s]} /\ fp[s] \notin fps
                              /\ out'[w] = Append(out[w], s)
      BY <2>3, InsertOwn DEF Fresh
    <3>2. /\ Len(out[w]) \in Nat
          /\ Len(out'[w]) = Len(out[w]) + 1
          /\ out'[w][Len(out[w]) + 1] = s
          /\ \A k \in 1 .. Len(out[w]) : out'[w][k] = out[w][k]
      BY <1>0, <3>1, AppendFacts
    <3>3. ASSUME NEW v \in Workers, NEW i \in 1 .. Len(out'[v])
          PROVE  \/ i \in 1 .. Len(out[v]) /\ out'[v][i] = out[v][i]
                 \/ v = w /\ i = Len(out[w]) + 1 /\ out'[v][i] = s
      BY <2>1, <3>2
    <3>4. \A v \in Workers : \A i \in 1 .. Len(out[v]) : fp[out[v][i]] \in fps /\ fp[out[v][i]] # fp[s]
      BY <2>1, <3>1 DEF OutOnce
    <3>5. \A j \in 1 .. Len(frontier) : fp[frontier[j]] # fp[s]
      BY <3>1 DEF FrontierOnce
    <3>6. ASSUME NEW v \in Workers, NEW i \in 1 .. Len(out'[v])
          PROVE  /\ fp[out'[v][i]] \in fps'
                 /\ \A j \in 1 .. Len(frontier) : fp[frontier[j]] # fp[out'[v][i]]
      BY <2>1, <3>1, <3>3, <3>5 DEF OutOnce
    <3>7. ASSUME NEW v \in Workers, NEW i \in 1 .. Len(out'[v]),
                 NEW u \in Workers, NEW j \in 1 .. Len(out'[u]),
                 fp[out'[u][j]] = fp[out'[v][i]]
          PROVE  u = v /\ j = i
      <4>1. CASE i \in 1 .. Len(out[v]) /\ out'[v][i] = out[v][i]
        <5>1. j \in 1 .. Len(out[u]) /\ out'[u][j] = out[u][j]
          BY <3>3, <3>4, <3>7, <4>1
        <5>2. QED
          BY <2>1, <3>7, <4>1, <5>1 DEF OutOnce
      <4>2. CASE v = w /\ i = Len(out[w]) + 1 /\ out'[v][i] = s
        <5>1. u = w /\ j = Len(out[w]) + 1
          BY <3>3, <3>4, <3>7, <4>2
        <5>2. QED
          BY <4>2, <5>1
      <4>3. QED
        BY <3>3, <4>1, <4>2
    <3>8. QED
      BY <2>1, <3>6, <3>7 DEF OutOnce
  <2>4. QED
    BY <1>2, <2>2, <2>3, ClaimOwn, SeeStopOwn, TakeOwn, CountOwn, DoneOwn DEF Step
<1>3. CASE EnumerateInit \/ AdmitInitial \/ InitDone \/ ReportPass \/ JoinStopped \/ JoinLevel
  <2>1. pc' # "work"
    BY <1>3 DEF EnumerateInit, AdmitInitial, InitDone, ReportPass, JoinStopped, JoinLevel, Return
  <2>2. QED
    BY <2>1 DEF OutOnce
<1>4. CASE UNCHANGED vars
  BY <1>4 DEF vars, problem, levelVars, workerVars, OutOnce
<1>5. QED
  BY <1>1, <1>2, <1>3, <1>4 DEF Next, Coordinate, Returned

\* What the workers hold stays apart.
LEMMA WorkStep ==
  ASSUME TypeOK, WorkersRest, FrontierOnce, WorkOnce, [Next]_vars
  PROVE  WorkOnce'
<1>0. work \in [Workers -> Seq(States)] /\ frontier \in Seq(States)
  BY DEF TypeOK
<1>1. CASE Spawn
  <2>1. \A w \in Workers : work'[w] = << >>
    BY <1>1 DEF Spawn, WorkersRest
  <2>2. Range(<< >>) = {}
    BY DEF Range
  <2>3. QED
    BY <2>1, <2>2 DEF WorkOnce
<1>2. ASSUME NEW w \in Workers, Step(w) PROVE WorkOnce'
  <2>1. /\ pc = "work" /\ frontier' = frontier
        /\ \A v \in Workers : v # w => work'[v] = work[v]
    BY <1>2, Working, StepOthers
  <2>2. CASE cursor' = cursor /\ Range(work'[w]) \subseteq Range(work[w])
    <3>1. \A v \in Workers : Range(work'[v]) \subseteq Range(work[v])
      BY <2>1, <2>2
    <3>2. ASSUME NEW v \in Workers, NEW s \in Range(work'[v])
          PROVE  \E i \in 1 .. Len(frontier') : i <= cursor' * Chunk /\ s = frontier'[i]
      <4>1. PICK i \in 1 .. Len(frontier) : i <= cursor * Chunk /\ s = frontier[i]
        BY <2>1, <3>1 DEF WorkOnce
      <4>2. QED
        BY <2>1, <2>2, <4>1
    <3>3. ASSUME NEW v \in Workers, NEW x \in Workers, v # x
          PROVE  Range(work'[v]) \cap Range(work'[x]) = {}
      <4>1. Range(work[v]) \cap Range(work[x]) = {}
        BY <2>1, <3>3 DEF WorkOnce
      <4>2. QED
        BY <3>1, <4>1
    <3>4. QED
      BY <3>2, <3>3 DEF WorkOnce
  <2>3. CASE Claim(w)
    <3> DEFINE lo == cursor * Chunk
               up == cursor' * Chunk
    <3>1. lo \in Nat /\ up \in Nat /\ lo < up /\ Len(frontier) \in Nat
      BY <2>3, ClaimOwn
    <3>2. (Range(work'[w]) = Range(work[w]))
          \/ \A s \in Range(work'[w]) : \E i \in 1 .. Len(frontier) : lo < i /\ i <= up /\ s = frontier[i]
      <4>1. CASE work'[w] = work[w]
        BY <4>1
      <4>2. CASE work'[w] # work[w]
        <5>1. PICK hi \in Nat :
                /\ hi <= Len(frontier) /\ hi <= up
                /\ Range(work'[w]) = {frontier[k] : k \in lo + 1 .. hi}
          BY <2>3, <4>2, ClaimOwn
        <5> HIDE DEF lo, up
        <5>2. \A k \in lo + 1 .. hi : k \in 1 .. Len(frontier) /\ lo < k /\ k <= up
          BY <3>1, <5>1
        <5>3. QED
          BY <5>1, <5>2
      <4>3. QED
        BY <4>1, <4>2
    <3>3. \A v \in Workers : \A s \in Range(work[v]) :
            \E i \in 1 .. Len(frontier) : i <= lo /\ s = frontier[i]
      BY <2>1 DEF WorkOnce
    <3> HIDE DEF lo, up
    <3>5. ASSUME NEW v \in Workers, NEW s \in Range(work'[v])
          PROVE  \E i \in 1 .. Len(frontier) : i <= up /\ s = frontier[i]
      <4>1. CASE Range(work'[v]) = Range(work[v])
        <5>1. PICK i \in 1 .. Len(frontier) : i <= lo /\ s = frontier[i]
          BY <3>3, <4>1
        <5>2. i <= up
          BY <3>1, <5>1
        <5>3. QED
          BY <5>1, <5>2
      <4>2. CASE ~ (Range(work'[v]) = Range(work[v]))
        <5>1. v = w
          BY <2>1, <4>2
        <5>2. QED
          BY <3>2, <4>2, <5>1
      <4>3. QED
        BY <4>1, <4>2
    <3>6. ASSUME NEW v \in Workers, v # w, NEW s \in Range(work'[w])
          PROVE  s \notin Range(work[v])
      <4>1. CASE Range(work'[w]) = Range(work[w])
        BY <2>1, <3>6, <4>1 DEF WorkOnce
      <4>2. CASE ~ (Range(work'[w]) = Range(work[w]))
        <5>1. PICK i \in 1 .. Len(frontier) : lo < i /\ s = frontier[i]
          BY <3>2, <3>6, <4>2
        <5>2. SUFFICES ASSUME s \in Range(work[v]) PROVE FALSE
          OBVIOUS
        <5>3. PICK j \in 1 .. Len(frontier) : j <= lo /\ s = frontier[j]
          BY <3>3, <5>2
        <5>4. i = j
          BY <5>1, <5>3 DEF FrontierOnce
        <5>5. QED
          BY <3>1, <5>1, <5>3, <5>4
      <4>3. QED
        BY <4>1, <4>2
    <3>7. ASSUME NEW u \in Workers, NEW v \in Workers, u # v
          PROVE  Range(work'[u]) \cap Range(work'[v]) = {}
      <4>1. CASE u # w /\ v # w
        BY <2>1, <3>7, <4>1 DEF WorkOnce
      <4>2. CASE u = w \/ v = w
        BY <2>1, <3>6, <3>7, <4>2
      <4>3. QED
        BY <4>1, <4>2
    <3>8. QED
      BY <2>1, <3>5, <3>7 DEF WorkOnce, up
  <2>4. ASSUME ~ Claim(w) PROVE cursor' = cursor /\ Range(work'[w]) \subseteq Range(work[w])
    <3>1. Range(<< >>) = {}
      BY DEF Range
    <3>2. CASE TakeState(w)
      <4>1. Range(Tail(work[w])) \subseteq Range(work[w])
        <5>1. work[w] \in Seq(States) /\ work[w] # << >>
          BY <3>2, TakeOwn
        <5>2. QED
          BY <5>1, TailFacts
      <4>2. QED
        BY <3>1, <3>2, <4>1, TakeOwn
    <3>3. CASE ~ TakeState(w)
      BY <1>2, <2>4, <3>1, <3>3, SeeStopOwn, InsertOwn, CountOwn, DoneOwn DEF Step
    <3>4. QED
      BY <3>2, <3>3
  <2>5. QED
    BY <2>2, <2>3, <2>4
<1>3. CASE EnumerateInit \/ AdmitInitial \/ InitDone \/ ReportPass \/ JoinStopped \/ JoinLevel
  <2>1. pc' # "work"
    BY <1>3 DEF EnumerateInit, AdmitInitial, InitDone, ReportPass, JoinStopped, JoinLevel, Return
  <2>2. QED
    BY <2>1 DEF WorkOnce
<1>4. CASE UNCHANGED vars
  BY <1>4 DEF vars, problem, levelVars, workerVars, WorkOnce
<1>5. QED
  BY <1>1, <1>2, <1>3, <1>4 DEF Next, Coordinate, Returned

-----------------------------------------------------------------------------
(***************************************************************************)
(* Everything listed is reached.                                           *)
(***************************************************************************)
LEMMA NextInScope ==
  ASSUME TypeOK, InScope(cfg, depth), ~ AtBound
  PROVE  InScope(cfg, depth + 1)
<1>1. depth \in Nat /\ cfg.maxSteps \in Int
  BY ConfigFacts DEF TypeOK
<1>2. QED
  BY <1>1 DEF InScope, AtBound, Reached

\* The states of a chunk are as far away as the level.
LEMMA WorkIsReached ==
  ASSUME TypeOK, WorkOnce, ListedIsReached, pc = "work",
         NEW w \in Workers, NEW s \in Range(work[w])
  PROVE  /\ s \in Layer(model, depth)
         /\ Range(model.step[s]) \subseteq Layer(model, depth + 1)
<1>1. s \in Range(frontier)
  <2>1. frontier \in Seq(States)
    BY DEF TypeOK
  <2>2. PICK i \in 1 .. Len(frontier) : s = frontier[i]
    BY DEF WorkOnce
  <2>3. QED
    BY <2>1, <2>2 DEF Range
<1>2. s \in Layer(model, depth)
  BY <1>1 DEF ListedIsReached
<1>3. model \in Models /\ depth \in Nat
  BY DEF TypeOK
<1>4. Layer(model, depth + 1) = Image(model, Layer(model, depth))
  BY <1>3, LayersEquations
<1>5. QED
  BY <1>2, <1>4 DEF Image

\* What is listed is of the layer it is listed for.
LEMMA ReachedStep ==
  ASSUME TypeOK, WorkersRest, WorkOnce, ListedIsReached, [Next]_vars
  PROVE  ListedIsReached'
<1>0. /\ model \in Models /\ depth \in Nat /\ InScope(cfg, depth) /\ frontier \in Seq(States)
      /\ out \in [Workers -> Seq(States)]
  BY DEF TypeOK, ListedIsReached
<1>a. Range(<< >>) = {}
  BY DEF Range
<1>1. CASE EnumerateInit
  <2>1. /\ UNCHANGED <<model, cfg, frontier, depth>> /\ depth = 0
        /\ pc' = "done" \/ (pc' = "init" /\ todo' = model.init)
        /\ frontier = << >>
    BY <1>1 DEF EnumerateInit, Return, ListedIsReached, problem, levelVars
  <2>2. QED
    BY <1>0, <1>a, <2>1, LayersEquations DEF ListedIsReached
<1>2. CASE AdmitInitial
  <2> DEFINE s == Head(todo)
  <2>1. /\ UNCHANGED <<model, cfg, depth>> /\ pc = "init" /\ pc' \in {"init", "done"}
        /\ s \in States
        /\ todo' = todo \/ todo' = Tail(todo)
        /\ frontier' = frontier \/ frontier' = Append(frontier, s)
    BY <1>2, AdmitFacts DEF Return
  <2>2. Range(todo) = {s} \cup Range(Tail(todo))
    BY <1>2, AdmitFacts, TailFacts
  <2>3. Range(Append(frontier, s)) = Range(frontier) \cup {s}
    BY <1>0, <2>1, RangeOfAppend
  <2>4. depth = 0 /\ Range(todo) \subseteq Layer(model, 0) /\ Range(frontier) \subseteq Layer(model, 0)
    BY <2>1 DEF ListedIsReached
  <2> HIDE DEF s
  <2>5. Range(todo') \subseteq Layer(model, 0) /\ Range(frontier') \subseteq Layer(model, 0)
    BY <2>1, <2>2, <2>3, <2>4
  <2>6. QED
    BY <1>0, <2>1, <2>4, <2>5 DEF ListedIsReached
<1>3. CASE InitDone
  BY <1>3 DEF InitDone, ListedIsReached, problem, levelVars
<1>4. CASE Spawn
  <2>1. /\ UNCHANGED <<model, cfg, frontier, depth, succs>> /\ pc = "level" /\ pc' = "work"
        /\ \A w \in Workers : wpc'[w] = "claim" /\ out'[w] = << >>
    BY <1>4 DEF Spawn, problem, levelVars
  <2>2. \A w \in Workers : succs'[w] = {}
    BY <2>1 DEF WorkersRest
  <2>3. QED
    BY <1>a, <2>1, <2>2 DEF ListedIsReached
<1>5. CASE ReportPass \/ JoinStopped
  <2>1. UNCHANGED <<model, cfg, depth>> /\ pc' = "done"
    BY <1>5 DEF ReportPass, JoinStopped, Return, problem, levelVars
  <2>2. QED
    BY <2>1 DEF ListedIsReached
<1>6. CASE JoinLevel
  <2>1. pc = "work" /\ frontier' = Buffers /\ UNCHANGED <<model, cfg>>
    BY <1>6 DEF JoinLevel, AllJoined, problem
  <2>2. CASE AtBound
    <3>1. depth' = depth /\ pc' = "done"
      BY <1>6, <2>2 DEF JoinLevel, Return
    <3>2. QED
      BY <1>0, <2>1, <3>1 DEF ListedIsReached
  <2>3. CASE ~ AtBound
    <3>1. depth' = NextDepth /\ pc' = "level"
      BY <1>6, <2>3 DEF JoinLevel
    <3>2. Range(Buffers) = UNION {Range(out[w]) : w \in Workers}
      BY <1>0, BuffersFacts
    <3>3. Range(Buffers) \subseteq Layer(model, depth + 1)
      BY <2>1, <3>2 DEF ListedIsReached
    <3>4. Range(Buffers) \subseteq Layer(model, depth')
      BY <1>a, <3>1, <3>3 DEF NextDepth
    <3>5. InScope(cfg, depth')
      BY <1>0, <2>3, <3>1, NextInScope DEF NextDepth
    <3>6. QED
      BY <2>1, <3>1, <3>4, <3>5 DEF ListedIsReached
  <2>4. QED
    BY <2>2, <2>3
<1>7. ASSUME NEW w \in Workers, Step(w) PROVE ListedIsReached'
  <2>1. /\ pc = "work" /\ pc' = "work" /\ UNCHANGED <<model, cfg, frontier, depth>>
        /\ \A v \in Workers : v # w =>
             out'[v] = out[v] /\ succs'[v] = succs[v] /\ wpc'[v] = wpc[v]
    BY <1>7, Working, StepOthers
  <2>2. /\ Range(out[w]) \subseteq Layer(model, depth + 1)
        /\ succs[w] \subseteq Layer(model, depth + 1)
        /\ wpc[w] = "insert" \/ out[w] # << >> => ~ AtBound
    BY <2>1 DEF ListedIsReached
  <2>3. /\ Range(out'[w]) \subseteq Layer(model, depth + 1)
        /\ succs'[w] \subseteq Layer(model, depth + 1)
        /\ wpc'[w] = "insert" \/ out'[w] # << >> => ~ AtBound
    <3>1. CASE Claim(w) \/ SeeStop(w) \/ CountFresh(w) \/ ChunkDone(w)
      BY <2>2, <3>1, ClaimOwn, SeeStopOwn, CountOwn, DoneOwn
    <3>2. CASE TakeState(w)
      <4>1. Head(work[w]) \in Range(work[w])
        <5>1. work[w] \in Seq(States) /\ work[w] # << >>
          BY <3>2, TakeOwn
        <5>2. QED
          BY <5>1, TailFacts
      <4>2. Range(model.step[Head(work[w])]) \subseteq Layer(model, depth + 1)
        BY <2>1, <4>1, WorkIsReached
      <4>3. QED
        BY <2>2, <3>2, <4>2, TakeOwn
    <3>3. CASE InsertSuccessor(w)
      <4>1. PICK s \in succs[w] : /\ s \in States
                                  /\ out'[w] = out[w] \/ out'[w] = Append(out[w], s)
                                  /\ succs'[w] \subseteq succs[w]
                                  /\ wpc'[w] \in {wpc[w], "joined"}
        BY <3>3, InsertOwn
      <4>2. Range(Append(out[w], s)) = Range(out[w]) \cup {s}
        BY <1>0, <4>1, RangeOfAppend
      <4>3. Range(out'[w]) \subseteq Range(out[w]) \cup {s}
        BY <4>1, <4>2
      <4>4. wpc[w] = "insert"
        BY <3>3, InsertOwn
      <4>5. QED
        BY <2>2, <4>1, <4>3, <4>4
    <3>4. QED
      BY <1>7, <3>1, <3>2, <3>3 DEF Step
  <2>4. AtBound' = AtBound
    BY <2>1 DEF AtBound
  <2>5. QED
    BY <2>1, <2>3, <2>4 DEF ListedIsReached
<1>8. CASE UNCHANGED vars
  BY <1>8 DEF vars, problem, levelVars, workerVars, ListedIsReached, AtBound
<1>9. QED
  BY <1>1, <1>2, <1>3, <1>4, <1>5, <1>6, <1>7, <1>8 DEF Next, Coordinate, Returned

-----------------------------------------------------------------------------
(***************************************************************************)
(* The search is stopped for a reason.                                     *)
(***************************************************************************)
LEMMA FaultyAt ==
  ASSUME depth \in Nat, NEW n \in 0 .. depth + 1, NEW s \in Layer(model, n), InScope(cfg, n),
         Bad(s) \/ ~ Expandable(s)
  PROVE  Faulty
BY DEF Faulty, HoldsAt, ExpandsAt, Bad, Expandable

\* A stop keeps its reason.
LEMMA ReasonStep ==
  ASSUME TypeOK, WorkersRest, WorkOnce, ListedIsReached, StopHasReason, [Next]_vars
  PROVE  StopHasReason'
<1>0. depth \in Nat /\ depth \in 0 .. depth + 1 /\ depth + 1 \in 0 .. depth + 1 /\ InScope(cfg, depth)
  BY DEF TypeOK, ListedIsReached
<1>1. UNCHANGED <<model, cfg, depth>> => Faulty' = Faulty
  BY DEF Faulty
<1>2. CASE EnumerateInit
  <2>1. /\ UNCHANGED <<model, cfg, depth, stop, capped>> /\ ~ stop
        /\ \/ pc' = "done" /\ result'.kind = "rerun" /\ Faulty
           \/ pc' = "init" /\ result' = result /\ result.kind = "running"
    BY <1>2 DEF EnumerateInit, Return, Result, StopHasReason, problem, levelVars, Faulty
  <2>2. QED
    BY <1>1, <2>1 DEF StopHasReason
<1>3. CASE AdmitInitial
  <2> DEFINE s == Head(todo)
  <2>1. UNCHANGED <<model, cfg, depth, stop, capped>> /\ pc = "init" /\ ~ stop
    BY <1>3, AdmitFacts DEF StopHasReason
  <2>2. s \in Layer(model, 0) /\ depth = 0
    BY <1>3, <2>1, AdmitFacts, TailFacts DEF ListedIsReached
  <2>3. Bad(s) => Faulty
    BY <1>0, <2>2, FaultyAt
  <2>4. \/ pc' = pc /\ result' = result
        \/ pc' = "done" /\ result'.kind = "rerun" /\ Bad(s)
        \/ pc' = "done" /\ result'.kind = "incomplete"
    BY <1>3, AdmitFacts DEF Return, Result
  <2>5. QED
    BY <1>1, <2>1, <2>3, <2>4 DEF StopHasReason
<1>4. CASE InitDone \/ Spawn
  <2>1. UNCHANGED <<model, cfg, depth, stop, capped, result>> /\ ~ stop /\ pc # "done"
    BY <1>4 DEF InitDone, Spawn, StopHasReason, problem, levelVars
  <2>2. QED
    BY <1>1, <2>1 DEF StopHasReason
<1>5. CASE ReportPass \/ JoinStopped
  <2>1. /\ UNCHANGED <<model, cfg, depth, stop, capped>> /\ pc' = "done"
        /\ result'.kind = "rerun" => stop /\ ~ capped
    BY <1>5 DEF ReportPass, JoinStopped, Return, Result, problem, levelVars
  <2>2. QED
    BY <1>1, <2>1 DEF StopHasReason
<1>6. CASE JoinLevel
  <2>1. /\ ~ stop /\ stop' = stop /\ pc = "work" /\ pc' \in {"level", "done"}
        /\ (pc' = "level" /\ result' = result) \/ (pc' = "done" /\ result'.kind = "pass")
    BY <1>6 DEF JoinLevel, AllJoined, Return, Result
  <2>2. QED
    BY <2>1 DEF StopHasReason
<1>7. ASSUME NEW w \in Workers, Step(w) PROVE StopHasReason'
  <2>1. /\ pc = "work" /\ pc' = "work" /\ UNCHANGED <<model, cfg, frontier, depth, result>>
        /\ result.kind = "running"
    BY <1>7, Working, StepOthers DEF StopHasReason
  <2>2. stop' /\ ~ capped' => Faulty
    <3>1. CASE Claim(w) \/ SeeStop(w) \/ CountFresh(w) \/ ChunkDone(w)
      BY <3>1, ClaimOwn, SeeStopOwn, CountOwn, DoneOwn DEF StopHasReason
    <3>2. CASE TakeState(w)
      <4>1. Head(work[w]) \in Range(work[w])
        <5>1. work[w] \in Seq(States) /\ work[w] # << >>
          BY <3>2, TakeOwn
        <5>2. QED
          BY <5>1, TailFacts
      <4>2. Head(work[w]) \in Layer(model, depth)
        BY <2>1, <4>1, WorkIsReached
      <4>3. ~ Expandable(Head(work[w])) => Faulty
        BY <1>0, <4>2, FaultyAt
      <4>4. QED
        BY <3>2, <4>3, TakeOwn DEF StopHasReason
    <3>3. CASE InsertSuccessor(w)
      <4>1. PICK s \in succs[w] : stop' = stop \/ Bad(s)
        BY <3>3, InsertOwn
      <4>2. s \in Layer(model, depth + 1) /\ InScope(cfg, depth + 1)
        BY <1>0, <2>1, <3>3, InsertOwn, NextInScope DEF ListedIsReached
      <4>3. Bad(s) => Faulty
        BY <1>0, <4>2, FaultyAt
      <4>4. QED
        BY <3>3, <4>1, <4>3, InsertOwn DEF StopHasReason
    <3>4. QED
      BY <1>7, <3>1, <3>2, <3>3 DEF Step
  <2>3. QED
    BY <1>1, <2>1, <2>2 DEF StopHasReason
<1>8. CASE UNCHANGED vars
  BY <1>1, <1>8 DEF vars, problem, levelVars, StopHasReason
<1>9. QED
  BY <1>2, <1>3, <1>4, <1>5, <1>6, <1>7, <1>8 DEF Next, Coordinate, Returned

-----------------------------------------------------------------------------
(***************************************************************************)
(* Nothing is skipped: what a worker gives up it has looked at.            *)
(***************************************************************************)
LookedNext(s) ==
  /\ Expandable(s)
  /\ ~ AtBound =>
       \A t \in Range(model.step[s]) : fp[t] \in fps' \/ \E w \in Workers : t \in succs'[w]

\* What was looked at stays so.
LEMMA LookedStays ==
  ASSUME TypeOK, fps \subseteq fps',
         \A w \in Workers : \A t \in succs[w] : t \in succs'[w] \/ fp[t] \in fps',
         NEW s, Looked(s)
  PROVE  LookedNext(s)
BY DEF Looked, LookedNext

\* A state that was claimed is held, or was looked at.
LEMMA SkippedStep ==
  ASSUME TypeOK, WorkersRest, WorkOnce, NothingSkipped, [Next]_vars
  PROVE  NothingSkipped'
<1>0. work \in [Workers -> Seq(States)] /\ frontier \in Seq(States) /\ Len(frontier) \in Nat
  BY DEF TypeOK
<1>1. CASE Spawn
  <2>1. /\ cursor' = 0 /\ frontier' = frontier
        /\ \A w \in Workers : wpc'[w] = "claim"
    BY <1>1 DEF Spawn, levelVars
  <2>2. cursor' * Chunk = 0
    BY <2>1, ParallelAssumption
  <2>3. \A i \in 1 .. Len(frontier) : ~ (i <= cursor' * Chunk)
    BY <1>0, <2>2
  <2>4. QED
    BY <2>1, <2>3 DEF NothingSkipped
<1>2. ASSUME NEW w \in Workers, Step(w) PROVE NothingSkipped'
  <2>1. /\ pc = "work" /\ UNCHANGED <<model, cfg, fp, frontier, depth>>
        /\ fps \subseteq fps'
        /\ \A v \in Workers : v # w =>
             wpc'[v] = wpc[v] /\ work'[v] = work[v] /\ succs'[v] = succs[v]
    BY <1>2, Working, StepOthers, FpsOnlyGrow
  <2>2. SUFFICES ASSUME ~ stop'
                 PROVE  /\ \A i \in 1 .. Len(frontier) :
                             i <= cursor' * Chunk =>
                               \/ LookedNext(frontier[i])
                               \/ \E v \in Workers : frontier[i] \in Range(work'[v])
                        /\ \A v \in Workers : wpc'[v] = "joined" => Len(frontier) <= cursor' * Chunk
    <3>1. ASSUME NEW s PROVE LookedNext(s) => Looked(s)'
      BY <2>1 DEF LookedNext, Looked, Expandable, AtBound
    <3>2. \A i : frontier'[i] = frontier[i]
      BY <2>1
    <3>3. QED
      BY <2>1, <3>1, <3>2 DEF NothingSkipped
  <2>3. ~ stop
    BY <1>2, <2>2, ClaimOwn, SeeStopOwn, TakeOwn, InsertOwn, CountOwn, DoneOwn DEF Step
  <2>4. /\ \A i \in 1 .. Len(frontier) :
             i <= cursor * Chunk =>
               Looked(frontier[i]) \/ \E v \in Workers : frontier[i] \in Range(work[v])
        /\ \A v \in Workers : wpc[v] = "joined" => Len(frontier) <= cursor * Chunk
    BY <2>1, <2>3 DEF NothingSkipped
  <2>5. \A t \in succs[w] : t \in succs'[w] \/ fp[t] \in fps'
    <3>1. CASE Claim(w)
      BY <3>1, ClaimOwn
    <3>2. CASE TakeState(w)
      BY <3>2, TakeOwn DEF WorkersRest
    <3>3. CASE InsertSuccessor(w)
      BY <2>2, <3>3, InsertOwn
    <3>4. CASE SeeStop(w) \/ CountFresh(w) \/ ChunkDone(w)
      BY <3>4, SeeStopOwn, CountOwn, DoneOwn
    <3>5. QED
      BY <1>2, <3>1, <3>2, <3>3, <3>4 DEF Step
  <2>6. \A s : Looked(s) => LookedNext(s)
    <3>1. \A v \in Workers : \A t \in succs[v] : t \in succs'[v] \/ fp[t] \in fps'
      BY <2>1, <2>5
    <3>2. QED
      BY <2>1, <3>1, LookedStays
  <2>7. CASE Claim(w)
    <3> DEFINE lo == cursor * Chunk
               up == cursor' * Chunk
    <3>1. lo \in Nat /\ up \in Nat /\ lo < up
      BY <2>7, ClaimOwn
    <3>2. CASE /\ wpc'[w] = "joined" /\ work'[w] = work[w]
               /\ Len(frontier) <= lo
      <4>1. \A v \in Workers : work'[v] = work[v]
        BY <2>1, <3>2
      <4>2. Len(frontier) <= up /\ \A i \in 1 .. Len(frontier) : i <= lo
        BY <1>0, <3>1, <3>2
      <4>3. QED
        BY <2>4, <2>6, <4>1, <4>2
    <3>3. CASE wpc'[w] # "joined"
      <4>1. wpc[w] = "claim" /\ wpc'[w] = "chunk" /\ Range(work[w]) = {}
        BY <2>7, <3>3, ClaimOwn DEF WorkersRest, Range
      <4>2. PICK hi \in Nat :
              /\ lo < hi /\ hi <= Len(frontier)
              /\ up = hi \/ hi = Len(frontier)
              /\ Range(work'[w]) = {frontier[k] : k \in lo + 1 .. hi}
        BY <2>7, <3>3, ClaimOwn
      <4>3. ASSUME NEW i \in 1 .. Len(frontier), i <= up, ~ (i <= lo)
            PROVE  frontier[i] \in Range(work'[w])
        <5> HIDE DEF lo, up
        <5>1. i \in lo + 1 .. hi
          BY <1>0, <3>1, <4>2, <4>3
        <5>2. QED
          BY <4>2, <5>1
      <4>4. ASSUME NEW v \in Workers, wpc'[v] = "joined" PROVE Len(frontier) <= up
        <5>1. Len(frontier) <= lo
          BY <2>1, <2>4, <4>1, <4>4
        <5> HIDE DEF lo, up
        <5>2. QED
          BY <1>0, <3>1, <5>1
      <4>5. ASSUME NEW i \in 1 .. Len(frontier), i <= lo
            PROVE  LookedNext(frontier[i]) \/ \E v \in Workers : frontier[i] \in Range(work'[v])
        <5>1. CASE Looked(frontier[i])
          BY <2>6, <5>1
        <5>2. CASE ~ Looked(frontier[i])
          <6>1. PICK v \in Workers : frontier[i] \in Range(work[v])
            BY <2>4, <4>5, <5>2
          <6>2. v # w
            BY <4>1, <6>1
          <6>3. QED
            BY <2>1, <6>1, <6>2
        <5>3. QED
          BY <5>1, <5>2
      <4>6. QED
        BY <4>3, <4>4, <4>5
    <3>4. QED
      BY <2>7, <3>2, <3>3, ClaimOwn
  <2>8. CASE TakeState(w)
    <3> DEFINE s == Head(work[w])
    <3>1. /\ cursor' = cursor /\ Expandable(s) /\ fps' = fps
          /\ work'[w] = Tail(work[w]) /\ wpc'[w] \in {"chunk", "insert"}
          /\ ~ AtBound => succs'[w] = Range(model.step[s])
      BY <2>2, <2>8, TakeOwn
    <3>2. LookedNext(s)
      BY <3>1 DEF LookedNext
    <3>3. Range(work[w]) = {s} \cup Range(work'[w])
      <4>1. work[w] \in Seq(States) /\ work[w] # << >>
        BY <2>8, TakeOwn
      <4>2. QED
        BY <3>1, <4>1, TailFacts
    <3> HIDE DEF s
    <3>4. ASSUME NEW v \in Workers, NEW x \in Range(work[v])
          PROVE  LookedNext(x) \/ \E u \in Workers : x \in Range(work'[u])
      <4>1. CASE v = w
        BY <3>2, <3>3, <4>1
      <4>2. CASE v # w
        BY <2>1, <4>2
      <4>3. QED
        BY <4>1, <4>2
    <3>5. QED
      BY <2>1, <2>4, <2>6, <3>1, <3>4
  <2>9. CASE SeeStop(w) \/ InsertSuccessor(w) \/ CountFresh(w) \/ ChunkDone(w)
    <3>1. cursor' = cursor /\ work'[w] = work[w] /\ (wpc'[w] = "joined" => wpc[w] = "joined")
      BY <2>2, <2>3, <2>9, SeeStopOwn, InsertOwn, CountOwn, DoneOwn
    <3>2. \A v \in Workers : work'[v] = work[v] /\ (wpc'[v] = "joined" => wpc[v] = "joined")
      BY <2>1, <3>1
    <3>3. QED
      BY <1>0, <2>4, <2>6, <3>1, <3>2
  <2>10. QED
    BY <1>2, <2>7, <2>8, <2>9 DEF Step
<1>3. CASE EnumerateInit \/ AdmitInitial \/ InitDone \/ ReportPass \/ JoinStopped \/ JoinLevel
  <2>1. pc' # "work"
    BY <1>3 DEF EnumerateInit, AdmitInitial, InitDone, ReportPass, JoinStopped, JoinLevel, Return
  <2>2. QED
    BY <2>1 DEF NothingSkipped
<1>4. CASE UNCHANGED vars
  BY <1>4 DEF vars, problem, levelVars, workerVars, NothingSkipped, Looked, Expandable, AtBound
<1>5. QED
  BY <1>1, <1>2, <1>3, <1>4 DEF Next, Coordinate, Returned

\* When all have joined and nobody was stopped, the whole level is looked at.
LEMMA LevelLooked ==
  ASSUME TypeOK, WorkersRest, NothingSkipped, AllJoined, ~ stop
  PROVE  \A s \in Range(frontier) :
           /\ Expandable(s)
           /\ ~ AtBound => \A t \in Range(model.step[s]) : Seen(t)
<1>1. pc = "work" /\ \A w \in Workers : wpc[w] = "joined"
  BY DEF AllJoined
<1>2. \A w \in Workers : Range(work[w]) = {} /\ succs[w] = {}
  BY <1>1 DEF WorkersRest, Range
<1>3. frontier \in Seq(States) /\ Len(frontier) \in Nat /\ cursor * Chunk \in Nat
  BY ChunkFacts DEF TypeOK
<1>4. Len(frontier) <= cursor * Chunk
  BY <1>1, StateFacts DEF NothingSkipped
<1>5. ASSUME NEW i \in 1 .. Len(frontier) PROVE Looked(frontier[i])
  <2>1. i <= cursor * Chunk
    BY <1>3, <1>4
  <2>2. QED
    BY <1>1, <1>2, <2>1 DEF NothingSkipped
<1>6. \A i \in 1 .. Len(frontier) :
        /\ Expandable(frontier[i])
        /\ ~ AtBound => \A t \in Range(model.step[frontier[i]]) : Seen(t)
  BY <1>2, <1>5 DEF Looked, Seen
<1>7. \A s \in Range(frontier) : \E i \in 1 .. Len(frontier) : s = frontier[i]
  BY <1>3 DEF Range
<1>8. QED
  BY <1>6, <1>7

-----------------------------------------------------------------------------
(***************************************************************************)
(* The invariant, and the first of what follows from it.                   *)
(***************************************************************************)
LEMMA InvInit == Init => IInv
<1> SUFFICES ASSUME Init PROVE IInv
  OBVIOUS
<1>1. TypeOK
  BY TypeInit
<1>2. Len(<< >>) = 0 /\ Range(<< >>) = {}
  BY EmptyFacts DEF Range
<1>3. WorkersRest /\ OutOnce /\ WorkOnce /\ StopHasReason /\ NothingSkipped
  BY DEF Init, WorkersRest, OutOnce, WorkOnce, StopHasReason, NothingSkipped, Result
<1>4. FrontierOnce
  BY <1>2 DEF Init, FrontierOnce
<1>5. InScope(cfg, 0)
  BY <1>1, ConfigFacts DEF InScope, TypeOK, NoBound
<1>6. ListedIsReached
  BY <1>2, <1>5 DEF Init, ListedIsReached
<1>7. QED
  BY <1>1, <1>3, <1>4, <1>6 DEF IInv

\* Every step keeps the invariant.
LEMMA InvStep ==
  ASSUME IInv, [Next]_vars
  PROVE  IInv'
BY TypeStep, RestStep, FrontierStep, OutStep, WorkStep, ReachedStep, ReasonStep, SkippedStep
DEF IInv

\* The invariant is one of the specification.
LEMMA Inductive == Spec => []IInv
<1>1. Init => IInv
  BY InvInit
<1>2. IInv /\ [Next]_vars => IInv'
  BY InvStep
<1>3. QED
  BY <1>1, <1>2, PTL DEF Spec

(***************************************************************************)
(* No state is worked on or listed twice in a level, by two workers or by  *)
(* one, however they interleave.                                           *)
(***************************************************************************)
THEOREM EveryStateOnceAlways == Spec => []EveryStateOnce
<1>1. ASSUME IInv PROVE EveryStateOnce
  <2>1. TypeOK /\ FrontierOnce /\ OutOnce /\ WorkOnce
    BY <1>1 DEF IInv
  <2>2. out \in [Workers -> Seq(States)] /\ frontier \in Seq(States)
    BY <2>1 DEF TypeOK
  <2>3. SUFFICES ASSUME pc = "work" PROVE EveryStateOnce
    BY DEF EveryStateOnce
  <2>4. ASSUME NEW v \in Workers, NEW w \in Workers, v # w
        PROVE  Range(work[v]) \cap Range(work[w]) = {} /\ Range(out[v]) \cap Range(out[w]) = {}
    <3>1. Range(work[v]) \cap Range(work[w]) = {}
      BY <2>1, <2>3, <2>4 DEF WorkOnce
    <3>2. \A s \in Range(out[v]) : s \notin Range(out[w])
      BY <2>1, <2>2, <2>3, <2>4 DEF OutOnce, Range
    <3>3. QED
      BY <3>1, <3>2
  <2>5. ASSUME NEW w \in Workers
        PROVE  IsInjective(out[w]) /\ Range(out[w]) \cap Range(frontier) = {}
    <3>1. IsInjective(out[w])
      BY <2>1, <2>2, <2>3 DEF OutOnce, IsInjective
    <3>2. \A s \in Range(out[w]) : s \notin Range(frontier)
      BY <2>1, <2>2, <2>3 DEF OutOnce, Range
    <3>3. QED
      BY <3>1, <3>2
  <2>6. QED
    BY <2>4, <2>5 DEF EveryStateOnce
<1>2. QED
  BY <1>1, Inductive, PTL

(***************************************************************************)
(* A rerun has something to report, no matter whether states collide: the  *)
(* program has an error, a violation or a deadlock within the step bound.  *)
(***************************************************************************)
THEOREM RerunIsNeededAlways ==
  ASSUME HorizonSuffices
  PROVE  Spec => []RerunIsNeeded
<1>1. ASSUME IInv, result.kind = "rerun" PROVE ~ Clean
  <2>1. Faulty /\ model \in Models /\ cfg \in Configs /\ depth \in Nat
    BY <1>1 DEF IInv, StopHasReason, TypeOK
  <2>2. CASE model.initError
    BY <2>2 DEF Clean
  <2>3. CASE ~ model.initError
    <3>1. PICK n \in 0 .. depth + 1 :
            InScope(cfg, n) /\ ~ (HoldsAt(model, n) /\ ExpandsAt(model, cfg, n))
      BY <2>1, <2>3 DEF Faulty
    <3>2. PICK s \in Layer(model, n) : Bad(s) \/ ~ Expandable(s)
      BY <3>1 DEF HoldsAt, ExpandsAt, Bad, Expandable
    <3>3. n \in Nat
      BY <2>1
    <3>4. PICK k \in 0 .. Horizon : k <= n /\ s \in Layer(model, k)
      BY <2>1, <3>3 DEF HorizonSuffices
    <3>5. InScope(cfg, k)
      <4>1. cfg.maxSteps \in Int /\ k \in Int
        BY <2>1, ConfigFacts
      <4>2. QED
        BY <3>1, <3>3, <3>4, <4>1 DEF InScope
    <3>6. ~ (HoldsAt(model, k) /\ ExpandsAt(model, cfg, k))
      BY <3>2, <3>4 DEF HoldsAt, ExpandsAt, Bad, Expandable
    <3>7. QED
      BY <3>5, <3>6 DEF Clean
  <2>4. QED
    BY <2>2, <2>3
<1>2. IInv => RerunIsNeeded
  BY <1>1 DEF RerunIsNeeded
<1>3. QED
  BY <1>2, Inductive, PTL

-----------------------------------------------------------------------------
(***************************************************************************)
(* Without collisions a level is a layer.                                  *)
(***************************************************************************)
LEMMA UptoFacts ==
  ASSUME model \in Models, NEW n \in Nat
  PROVE  /\ Upto(n) \subseteq States
         /\ Layer(model, n) \subseteq Upto(n)
         /\ Upto(n + 1) = Upto(n) \cup Layer(model, n + 1)
         /\ Upto(0) = Layer(model, 0)
         /\ Upto(0 - 1) = {}
<1>1. Upto(n) \subseteq States
  <2>1. \A k \in 0 .. n : Layer(model, k) \subseteq States
    BY LayersInStates
  <2>2. QED
    BY <2>1 DEF Upto
<1>2. Layer(model, n) \subseteq Upto(n)
  BY DEF Upto
<1>3. Upto(n + 1) = Upto(n) \cup Layer(model, n + 1)
  <2>1. 0 .. n + 1 = (0 .. n) \cup {n + 1}
    OBVIOUS
  <2>2. QED
    BY <2>1 DEF Upto
<1>4. Upto(0) = Layer(model, 0)
  <2>1. 0 .. 0 = {0}
    OBVIOUS
  <2>2. QED
    BY <2>1 DEF Upto
<1>5. Upto(0 - 1) = {}
  BY DEF Upto
<1>6. QED
  BY <1>1, <1>2, <1>3, <1>4, <1>5

\* A state is seen if and only if a state with its fingerprint is.
LEMMA SeenFacts ==
  ASSUME TypeOK, IsInjective(fp), NEW S \in SUBSET States, NEW t \in States, Seen(t),
         \A f \in fps : \E s \in S : f = fp[s]
  PROVE  t \in S
<1>1. fp \in [States -> Nat]
  BY ParallelAssumption DEF TypeOK
<1>2. PICK s \in S : fp[t] = fp[s]
  BY DEF Seen
<1>3. s = t
  BY <1>1, <1>2 DEF IsInjective
<1>4. QED
  BY <1>3

(***************************************************************************)
(* When a level ends undisturbed, the buffers hold what is new in the next *)
(* layer.                                                                  *)
(***************************************************************************)
Listed == UNION {Range(out[w]) : w \in Workers}

\* A level that is done has been explored.
LEMMA LevelExplored ==
  ASSUME IInv, IsInjective(fp), LayersSeen, NextLayerSeen, AllJoined, ~ stop
  PROVE  /\ Listed \subseteq Layer(model, depth + 1)
         /\ Listed \cap Upto(depth) = {}
         /\ \A s \in Listed : Seen(s) /\ model.invs[s] = "holds"
         /\ \A f \in fps : \E s \in Upto(depth) \cup Listed : f = fp[s]
         /\ \A s \in Upto(depth) : Expandable(s)
         /\ AtBound => Listed = {}
         /\ ~ AtBound =>
              /\ \A s \in Upto(depth) : Range(model.step[s]) \subseteq Upto(depth) \cup Listed
              /\ Layer(model, depth + 1) \subseteq Upto(depth) \cup Listed
<1>0. /\ TypeOK /\ WorkersRest /\ OutOnce /\ ListedIsReached /\ NothingSkipped
      /\ pc = "work" /\ model \in Models /\ depth \in Nat
      /\ out \in [Workers -> Seq(States)]
  BY DEF IInv, TypeOK, AllJoined
<1>1. \A w \in Workers : \A s \in Range(out[w]) :
        /\ s \in Layer(model, depth + 1)
        /\ Seen(s)
        /\ s \notin Upto(depth) /\ model.invs[s] = "holds"
        /\ ~ AtBound
  <2>1. SUFFICES ASSUME NEW w \in Workers, NEW s \in Range(out[w])
                 PROVE  /\ s \in Layer(model, depth + 1)
                        /\ Seen(s)
                        /\ s \notin Upto(depth) /\ model.invs[s] = "holds"
                        /\ ~ AtBound
    OBVIOUS
  <2>2. PICK i \in 1 .. Len(out[w]) : s = out[w][i]
    BY <1>0 DEF Range
  <2>3. Seen(s)
    BY <1>0, <2>2 DEF OutOnce, Seen
  <2>4. out[w] # << >>
    BY DEF Range
  <2>5. s \in Layer(model, depth + 1) /\ ~ AtBound
    BY <1>0, <2>4 DEF ListedIsReached
  <2>6. QED
    BY <1>0, <2>3, <2>5 DEF NextLayerSeen
<1>2. /\ Listed \subseteq Layer(model, depth + 1)
      /\ Listed \cap Upto(depth) = {}
      /\ \A s \in Listed : Seen(s) /\ model.invs[s] = "holds"
      /\ AtBound => Listed = {}
  BY <1>1 DEF Listed
<1>3. \A f \in fps : \E s \in Upto(depth) \cup Listed : f = fp[s]
  BY <1>0 DEF NextLayerSeen, Listed
<1>4. \A s \in Range(frontier) :
        Expandable(s) /\ (~ AtBound => \A t \in Range(model.step[s]) : Seen(t))
  BY <1>0, LevelLooked
<1>5. \A s \in Upto(depth) :
        s \in Range(frontier) \/ (Expandable(s) /\ Range(model.step[s]) \subseteq Upto(depth))
  BY <1>0 DEF LayersSeen
<1>6. Upto(depth) \subseteq States /\ Listed \subseteq States /\ Layer(model, depth) \subseteq Upto(depth)
  BY <1>0, <1>2, UptoFacts, LayersInStates
<1>7. ASSUME ~ AtBound, NEW s \in Upto(depth)
      PROVE  Range(model.step[s]) \subseteq Upto(depth) \cup Listed
  <2>1. CASE Range(model.step[s]) \subseteq Upto(depth)
    BY <2>1
  <2>2. CASE s \in Range(frontier)
    <3>1. ASSUME NEW t \in Range(model.step[s]) PROVE t \in Upto(depth) \cup Listed
      <4>1. t \in States /\ Seen(t)
        BY <1>0, <1>4, <1>6, <1>7, <2>2, StateFacts
      <4>2. Upto(depth) \cup Listed \in SUBSET States
        BY <1>6
      <4>3. QED
        BY <1>0, <1>3, <4>1, <4>2, SeenFacts
    <3>2. QED
      BY <3>1
  <2>3. QED
    BY <1>5, <2>1, <2>2
<1>8. ASSUME ~ AtBound, NEW t \in Layer(model, depth + 1) PROVE t \in Upto(depth) \cup Listed
  <2>1. PICK s \in Layer(model, depth) : t \in Range(model.step[s])
    BY <1>0, LayersComeFrom
  <2>2. QED
    BY <1>6, <1>7, <1>8, <2>1
<1>9. QED
  BY <1>2, <1>3, <1>4, <1>5, <1>7, <1>8

ExactParts == RootsSeen /\ LayersSeen /\ NextLayerSeen /\ DepthIsNeeded /\ PassSawAll

\* The level after one that ends undisturbed.
LEMMA JoinExact ==
  ASSUME IInv, IsInjective(fp), ExactParts, JoinLevel
  PROVE  ExactParts'
<1> DEFINE U == Upto(depth)
<1>0. /\ TypeOK /\ model \in Models /\ depth \in Nat /\ out \in [Workers -> Seq(States)]
      /\ AllJoined /\ ~ stop /\ LayersSeen /\ NextLayerSeen /\ DepthIsNeeded
      /\ UNCHANGED <<model, cfg, fp, fps>>
      /\ frontier' = Buffers
  BY DEF IInv, TypeOK, JoinLevel, ExactParts, problem
<1>1. /\ Listed \subseteq Layer(model, depth + 1)
      /\ Listed \cap U = {}
      /\ \A s \in Listed : Seen(s) /\ model.invs[s] = "holds"
      /\ \A f \in fps : \E s \in U \cup Listed : f = fp[s]
      /\ \A s \in U : Expandable(s)
      /\ AtBound => Listed = {}
      /\ ~ AtBound =>
           /\ \A s \in U : Range(model.step[s]) \subseteq U \cup Listed
           /\ Layer(model, depth + 1) \subseteq U \cup Listed
  BY <1>0, LevelExplored
<1>2. Range(Buffers) = Listed /\ Buffers \in Seq(States)
  BY <1>0, BuffersFacts DEF Listed
<1>3. /\ \A s \in U : Seen(s) /\ model.invs[s] = "holds"
      /\ Upto(depth + 1) = U \cup Layer(model, depth + 1)
      /\ Layer(model, depth) \subseteq U
  BY <1>0, UptoFacts DEF LayersSeen, AllJoined
<1> HIDE DEF U
<1>4. \A s : (Seen(s)' <=> Seen(s)) /\ (Expandable(s)' <=> Expandable(s))
  BY <1>0 DEF Seen, Expandable
<1>5. CASE AtBound
  <2>1. /\ pc' = "done" /\ depth' = depth
        /\ result' = Result("pass", Cardinality(fps), depth)
    BY <1>5 DEF JoinLevel, Return
  <2>2. Upto(depth)' = U
    BY <1>0, <2>1 DEF Upto, U
  <2>3. AtBound'
    BY <1>0, <1>5, <2>1 DEF AtBound
  <2>4. fps = {fp[s] : s \in U}
    BY <1>1, <1>3, <1>5 DEF Seen
  <2>5. PassSawAll'
    BY <1>0, <1>1, <1>3, <2>1, <2>2, <2>3, <2>4 DEF PassSawAll, Result, Expandable
  <2>6. DepthIsNeeded'
    BY <1>0, <2>1 DEF DepthIsNeeded, Upto
  <2>7. QED
    BY <2>1, <2>5, <2>6 DEF ExactParts, RootsSeen, LayersSeen, NextLayerSeen
<1>6. CASE ~ AtBound /\ Buffers = << >>
  <2>1. /\ pc' = "level" /\ depth' = depth /\ result' = result
    BY <1>6 DEF JoinLevel, NextDepth
  <2>2. result.kind = "running"
    BY <1>0 DEF IInv, StopHasReason, AllJoined
  <2>3. Listed = {}
    BY <1>2, <1>6 DEF Range
  <2>4. Upto(depth)' = U
    BY <1>0, <2>1 DEF Upto, U
  <2>5. \A s \in U : /\ fp[s] \in fps
                     /\ model.invs[s] = "holds"
                     /\ Expandable(s)
                     /\ Range(model.step[s]) \subseteq U
    BY <1>1, <1>3, <1>6, <2>3 DEF Seen
  <2>6. \A f \in fps : \E s \in U : f = fp[s]
    BY <1>1, <2>3
  <2>7. LayersSeen'
    BY <1>0, <1>6, <2>1, <2>4, <2>5, <2>6 DEF LayersSeen, Seen, Expandable
  <2>8. DepthIsNeeded'
    BY <1>0, <2>1 DEF DepthIsNeeded, Upto
  <2>9. QED
    BY <2>1, <2>2, <2>7, <2>8 DEF ExactParts, RootsSeen, NextLayerSeen, PassSawAll
<1>7. CASE ~ AtBound /\ Buffers # << >>
  <2>1. /\ pc' = "level" /\ depth' = depth + 1 /\ result' = result
    BY <1>7 DEF JoinLevel, NextDepth
  <2>2. result.kind = "running"
    BY <1>0 DEF IInv, StopHasReason, AllJoined
  <2>3. Upto(depth + 1) = U \cup Listed
    BY <1>1, <1>3, <1>7
  <2>4. Upto(depth)' = U \cup Listed
    <3>1. Upto(depth)' = Upto(depth + 1)
      BY <1>0, <2>1 DEF Upto
    <3>2. QED
      BY <2>3, <3>1
  <2>5. Upto(depth - 1)' = U
    <3>1. (depth + 1) - 1 = depth
      BY <1>0
    <3>2. QED
      BY <1>0, <2>1, <3>1 DEF Upto, U
  <2>6. Layer(model, depth)' = Layer(model, depth + 1)
    BY <1>0, <2>1
  <2>7. Listed = Layer(model, depth + 1) \ U
    BY <1>1, <1>7
  <2>8. \A s \in U : Range(model.step[s]) \subseteq U \cup Listed
    BY <1>1, <1>7
  <2>9. \A s \in U \cup Listed : fp[s] \in fps /\ model.invs[s] = "holds"
    BY <1>1, <1>3 DEF Seen
  <2>10. LayersSeen'
    BY <1>0, <1>1, <1>2, <2>1, <2>4, <2>5, <2>6, <2>7, <2>8, <2>9 DEF LayersSeen, Seen, Expandable
  <2>11. Listed # {}
    <3>1. Len(Buffers) # 0
      BY <1>2, <1>7
    <3>2. Buffers[1] \in Range(Buffers)
      BY <1>2, <3>1, ElementFacts DEF Range
    <3>3. QED
      BY <1>2, <3>2
  <2>12. DepthIsNeeded'
    BY <2>5, <2>6, <2>7, <2>11 DEF DepthIsNeeded
  <2>13. QED
    BY <2>1, <2>2, <2>10, <2>12 DEF ExactParts, RootsSeen, NextLayerSeen, PassSawAll
<1>8. QED
  BY <1>5, <1>6, <1>7

\* The initial states.
LEMMA RootsExact ==
  ASSUME IInv, IsInjective(fp), ExactParts, EnumerateInit \/ AdmitInitial \/ InitDone
  PROVE  ExactParts'
<1>0. /\ TypeOK /\ ListedIsReached /\ FrontierOnce /\ model \in Models
      /\ frontier \in Seq(States) /\ RootsSeen /\ DepthIsNeeded
      /\ UNCHANGED <<model, cfg, fp, depth>>
      /\ pc \in {"start", "init"} /\ depth = 0 /\ depth' = 0 /\ result.kind = "running"
  BY AdmitFacts DEF IInv, TypeOK, ExactParts, EnumerateInit, InitDone, problem, levelVars,
                    ListedIsReached, StopHasReason
<1>1. DepthIsNeeded'
  BY <1>0 DEF DepthIsNeeded
<1>a. Range(<< >>) = {}
  BY DEF Range
<1>2. CASE EnumerateInit
  <2>1. /\ pc = "start" /\ frontier' = frontier /\ fps' = fps
        /\ \/ pc' = "done" /\ result'.kind = "rerun"
           \/ pc' = "init" /\ todo' = model.init /\ result' = result
    BY <1>2 DEF EnumerateInit, Return, Result, levelVars
  <2>2. frontier = << >> /\ fps = {} /\ Layer(model, 0) = Range(model.init)
    BY <1>0, <2>1, LayersEquations DEF ListedIsReached
  <2>3. RootsSeen'
    BY <1>0, <1>a, <2>1, <2>2 DEF RootsSeen
  <2>4. QED
    BY <1>0, <1>1, <2>1, <2>3 DEF ExactParts, LayersSeen, NextLayerSeen, PassSawAll
<1>3. CASE AdmitInitial
  <2> DEFINE s == Head(todo)
  <2>1. /\ pc = "init" /\ s \in States /\ fps' = fps \cup {fp[s]}
        /\ \/ /\ Seen(s) /\ todo' = Tail(todo) /\ frontier' = frontier
              /\ UNCHANGED <<pc, result>>
           \/ pc' = "done" /\ result'.kind = "rerun"
           \/ /\ ~ Bad(s) /\ frontier' = Append(frontier, s) /\ todo' = Tail(todo)
              /\ \/ pc' = "done" /\ result'.kind = "incomplete"
                 \/ UNCHANGED <<pc, result>>
    BY <1>0, <1>3, AdmitFacts DEF Return, Result
  <2>2. Range(todo) = {s} \cup Range(Tail(todo))
    BY <1>0, <1>3, AdmitFacts, TailFacts
  <2>3. Range(Append(frontier, s)) = Range(frontier) \cup {s}
    BY <1>0, <2>1, RangeOfAppend
  <2>4. /\ \A x \in Layer(model, 0) : x \in Range(todo) \/ fp[x] \in fps
        /\ \A f \in fps : \E x \in Range(frontier) : f = fp[x]
        /\ \A x \in Range(frontier) : model.invs[x] = "holds"
    BY <1>0, <2>1 DEF RootsSeen, Seen
  <2> HIDE DEF s
  <2>7. ASSUME pc' = "init" PROVE RootsSeen'
    <3>1. CASE Seen(s) /\ todo' = Tail(todo) /\ frontier' = frontier
      BY <1>0, <2>1, <2>2, <2>4, <3>1 DEF RootsSeen, Seen
    <3>2. CASE ~ Bad(s) /\ frontier' = Append(frontier, s) /\ todo' = Tail(todo)
      BY <1>0, <2>1, <2>2, <2>3, <2>4, <3>2 DEF RootsSeen, Seen, Bad
    <3>3. QED
      BY <2>1, <2>7, <3>1, <3>2
  <2>8. pc' \in {"init", "done"} /\ result'.kind # "pass"
    BY <1>0, <2>1
  <2>9. QED
    BY <1>1, <2>7, <2>8 DEF ExactParts, RootsSeen, LayersSeen, NextLayerSeen, PassSawAll
<1>4. CASE InitDone
  <2>1. /\ pc = "init" /\ pc' = "level" /\ todo = << >>
        /\ UNCHANGED <<frontier, fps, result>>
    BY <1>4 DEF InitDone, levelVars
  <2>2. Upto(0) = Layer(model, 0) /\ Upto(0 - 1) = {} /\ Layer(model, 0) \subseteq States
    BY <1>0, UptoFacts, LayersInStates
  <2>3. \A x \in Layer(model, 0) : Seen(x)
    BY <1>0, <1>a, <2>1 DEF RootsSeen
  <2>4. Range(frontier) \subseteq Layer(model, 0)
    BY <1>0, <2>1 DEF ListedIsReached
  <2>5. \A f \in fps : \E x \in Range(frontier) : f = fp[x]
    BY <1>0, <2>1 DEF RootsSeen
  <2>6. Range(frontier) = Layer(model, 0)
    <3>1. Range(frontier) \in SUBSET States
      BY <2>2, <2>4
    <3>2. \A x \in Layer(model, 0) : x \in Range(frontier)
      BY <1>0, <2>2, <2>3, <2>5, <3>1, SeenFacts
    <3>3. QED
      BY <2>4, <3>2
  <2>7. \A x \in Range(frontier) : model.invs[x] = "holds"
    BY <1>0, <2>1 DEF RootsSeen
  <2>8. Upto(depth)' = Layer(model, 0) /\ Upto(depth - 1)' = {} /\ Layer(model, depth)' = Layer(model, 0)
    BY <1>0, <2>2 DEF Upto
  <2>9. LayersSeen'
    BY <1>0, <2>1, <2>3, <2>5, <2>6, <2>7, <2>8 DEF LayersSeen, Seen
  <2>10. QED
    BY <1>0, <1>1, <2>1, <2>9 DEF ExactParts, RootsSeen, NextLayerSeen, PassSawAll
<1>5. QED
  BY <1>2, <1>3, <1>4

\* The other steps.
LEMMA ExactStep ==
  ASSUME IInv, IsInjective(fp), ExactParts, [Next]_vars
  PROVE  ExactParts'
<1>0. /\ TypeOK /\ WorkersRest /\ ListedIsReached /\ model \in Models /\ depth \in Nat
      /\ out \in [Workers -> Seq(States)] /\ succs \in [Workers -> SUBSET States]
      /\ RootsSeen /\ LayersSeen /\ NextLayerSeen /\ DepthIsNeeded /\ PassSawAll
      /\ pc # "done" => result.kind = "running"
  BY DEF IInv, TypeOK, ExactParts, StopHasReason
<1>a. Range(<< >>) = {}
  BY DEF Range
<1>1. CASE EnumerateInit \/ AdmitInitial \/ InitDone
  BY <1>1, RootsExact
<1>2. CASE JoinLevel
  BY <1>2, JoinExact
<1>3. CASE Spawn
  <2>1. /\ pc = "level" /\ pc' = "work" /\ frontier # << >>
        /\ UNCHANGED <<model, cfg, fp, fps, stop, frontier, depth, result>>
        /\ \A w \in Workers : out'[w] = << >>
    BY <1>3 DEF Spawn, problem, levelVars
  <2>2. DepthIsNeeded' /\ Upto(depth)' = Upto(depth) /\ Upto(depth - 1)' = Upto(depth - 1)
    BY <1>0, <2>1 DEF DepthIsNeeded, Upto
  <2>3. LayersSeen'
    BY <1>0, <2>1, <2>2 DEF LayersSeen, Seen, Expandable
  <2>4. \A f \in fps : \E s \in States : f = fp[s] /\ s \in Upto(depth)
    BY <1>0, <2>1, UptoFacts DEF LayersSeen
  <2>5. NextLayerSeen'
    BY <1>a, <2>1, <2>2, <2>4 DEF NextLayerSeen
  <2>6. QED
    BY <1>0, <2>1, <2>2, <2>3, <2>5 DEF ExactParts, RootsSeen, PassSawAll
<1>4. CASE ReportPass
  <2>1. /\ pc = "level" /\ pc' = "done" /\ frontier = << >>
        /\ UNCHANGED <<model, cfg, fp, fps, depth>>
        /\ result' = Result("pass", Cardinality(fps), depth)
    BY <1>4 DEF ReportPass, Return, problem, levelVars
  <2>2. DepthIsNeeded' /\ Upto(depth)' = Upto(depth)
    BY <1>0, <2>1 DEF DepthIsNeeded, Upto
  <2>3. \A s \in Upto(depth) :
          /\ fp[s] \in fps
          /\ model.invs[s] = "holds"
          /\ Expandable(s) /\ Range(model.step[s]) \subseteq Upto(depth)
    BY <1>0, <1>a, <2>1 DEF LayersSeen, Seen
  <2>4. fps = {fp[s] : s \in Upto(depth)}
    BY <1>0, <2>1, <2>3 DEF LayersSeen
  <2>5. PassSawAll'
    BY <2>1, <2>2, <2>3, <2>4 DEF PassSawAll, Result, Expandable
  <2>6. QED
    BY <2>1, <2>2, <2>5 DEF ExactParts, RootsSeen, LayersSeen, NextLayerSeen
<1>5. CASE JoinStopped
  <2>1. /\ pc' = "done" /\ UNCHANGED <<model, depth>> /\ result'.kind # "pass"
    BY <1>5 DEF JoinStopped, Return, Result, problem, levelVars
  <2>2. DepthIsNeeded'
    BY <1>0, <2>1 DEF DepthIsNeeded, Upto
  <2>3. QED
    BY <2>1, <2>2 DEF ExactParts, RootsSeen, LayersSeen, NextLayerSeen, PassSawAll
<1>6. ASSUME NEW w \in Workers, Step(w) PROVE ExactParts'
  <2>1. /\ pc = "work" /\ pc' = "work" /\ UNCHANGED <<model, cfg, fp, frontier, depth, result>>
        /\ fps \subseteq fps'
        /\ \A v \in Workers : v # w => out'[v] = out[v]
    BY <1>0, <1>6, Working, StepOthers, FpsOnlyGrow
  <2>2. DepthIsNeeded' /\ Upto(depth)' = Upto(depth) /\ Upto(depth - 1)' = Upto(depth - 1)
    BY <1>0, <2>1 DEF DepthIsNeeded, Upto
  <2>3. LayersSeen'
    BY <1>0, <2>1, <2>2 DEF LayersSeen, Seen, Expandable
  <2>4. /\ \A v \in Workers : \A s \in Range(out[v]) : s \notin Upto(depth) /\ model.invs[s] = "holds"
        /\ ~ stop =>
             \A f \in fps :
               \E s \in States :
                 f = fp[s] /\ (s \in Upto(depth) \/ \E v \in Workers : s \in Range(out[v]))
    BY <1>0, <2>1 DEF NextLayerSeen
  <2>5. NextLayerSeen'
    <3>1. CASE InsertSuccessor(w)
      <4>1. PICK s \in succs[w] :
              /\ s \in States
              /\ fps' = fps \cup {fp[s]}
              /\ \/ stop' = TRUE /\ out'[w] = out[w]
                 \/ stop' = stop /\ fp[s] \in fps /\ out'[w] = out[w]
                 \/ /\ stop' = stop /\ fp[s] \notin fps /\ model.invs[s] = "holds"
                    /\ out'[w] = Append(out[w], s)
        BY <1>0, <3>1, InsertOwn DEF Fresh, Bad
      <4>2. CASE out'[w] = out[w]
        <5>1. \A v \in Workers : out'[v] = out[v]
          BY <2>1, <4>2
        <5>2. CASE stop' = TRUE
          BY <2>1, <2>2, <2>4, <5>1, <5>2 DEF NextLayerSeen
        <5>3. CASE stop' = stop /\ fps' = fps
          BY <2>1, <2>2, <2>4, <5>1, <5>3 DEF NextLayerSeen
        <5>4. fp[s] \in fps => fps' = fps
          BY <4>1
        <5>5. Append(out[w], s) # out[w]
          <6>1. out[w] \in Seq(States)
            BY <1>0
          <6>2. Len(out[w]) \in Nat /\ Len(Append(out[w], s)) = Len(out[w]) + 1
            BY <4>1, <6>1, AppendFacts
          <6>3. QED
            BY <6>2
        <5>6. QED
          BY <4>1, <4>2, <5>2, <5>3, <5>4, <5>5
      <4>3. CASE /\ stop' = stop /\ fp[s] \notin fps /\ model.invs[s] = "holds"
                 /\ out'[w] = Append(out[w], s)
        <5>1. Range(out'[w]) = Range(out[w]) \cup {s}
          BY <1>0, <4>1, <4>3, RangeOfAppend
        <5>2. s \notin Upto(depth)
          BY <1>0, <2>1, <4>3 DEF LayersSeen, Seen
        <5>3. \A v \in Workers : \A x \in Range(out'[v]) :
                x \notin Upto(depth) /\ model.invs[x] = "holds"
          BY <2>1, <2>4, <4>3, <5>1, <5>2
        <5>4. \A v \in Workers : Range(out[v]) \subseteq Range(out'[v])
          BY <2>1, <5>1
        <5>5. ASSUME ~ stop, NEW f \in fps'
              PROVE  \E x \in States :
                       f = fp[x] /\ (x \in Upto(depth) \/ \E v \in Workers : x \in Range(out'[v]))
          <6>1. CASE f = fp[s]
            BY <4>1, <5>1, <6>1
          <6>2. CASE f \in fps
            BY <2>4, <5>4, <5>5, <6>2
          <6>3. QED
            BY <4>1, <6>1, <6>2
        <5>6. QED
          BY <2>1, <2>2, <4>3, <5>3, <5>5 DEF NextLayerSeen
      <4>4. QED
        BY <4>1, <4>2, <4>3
    <3>2. CASE ~ InsertSuccessor(w)
      <4>1. fps' = fps /\ out'[w] = out[w] /\ (stop => stop')
        BY <1>0, <1>6, <3>2, ClaimOwn, SeeStopOwn, TakeOwn, CountOwn, DoneOwn DEF Step
      <4>2. \A v \in Workers : out'[v] = out[v]
        BY <2>1, <4>1
      <4>3. QED
        BY <2>1, <2>2, <2>4, <4>1, <4>2 DEF NextLayerSeen
    <3>3. QED
      BY <3>1, <3>2
  <2>6. QED
    BY <1>0, <2>1, <2>2, <2>3, <2>5 DEF ExactParts, RootsSeen, PassSawAll
<1>7. CASE UNCHANGED vars
  <2>1. UNCHANGED <<model, cfg, fp, pc, todo, fps, stop, frontier, depth, out, result>>
    BY <1>7 DEF vars, problem, levelVars, workerVars
  <2>2. DepthIsNeeded' /\ Upto(depth)' = Upto(depth) /\ Upto(depth - 1)' = Upto(depth - 1)
    BY <1>0, <2>1 DEF DepthIsNeeded, Upto
  <2>3. RootsSeen'
    BY <1>0, <2>1 DEF RootsSeen, Seen
  <2>4. LayersSeen'
    BY <1>0, <2>1, <2>2 DEF LayersSeen, Seen, Expandable
  <2>5. NextLayerSeen'
    BY <1>0, <2>1, <2>2 DEF NextLayerSeen
  <2>6. PassSawAll'
    BY <1>0, <2>1, <2>2 DEF PassSawAll, Expandable, AtBound
  <2>7. QED
    BY <2>2, <2>3, <2>4, <2>5, <2>6 DEF ExactParts
<1>8. QED
  BY <1>1, <1>2, <1>3, <1>4, <1>5, <1>6, <1>7 DEF Next, Coordinate, Returned

\* Before the search nothing is omitted.
LEMMA ExactInit ==
  ASSUME Init
  PROVE  ExactParts
BY DEF Init, ExactParts, RootsSeen, LayersSeen, NextLayerSeen, DepthIsNeeded, PassSawAll, Result

\* It is an invariant of the specification.
LEMMA ExactInductive == Spec => [](IInv /\ ExactInv)
<1>1. Init => IInv /\ ExactInv
  BY InvInit, ExactInit DEF ExactInv, ExactParts
<1>2. ASSUME IInv, ExactInv, [Next]_vars PROVE IInv' /\ ExactInv'
  <2>1. fp' = fp
    <3>1. CASE AdmitInitial
      BY <1>2, <3>1, AdmitFacts DEF IInv
    <3>2. ASSUME NEW w \in Workers, Step(w) PROVE fp' = fp
      BY <1>2, <3>2, StepOthers DEF IInv
    <3>3. QED
      BY <1>2, <3>1, <3>2 DEF Next, Coordinate, EnumerateInit, InitDone, Spawn, ReportPass,
                              JoinStopped, JoinLevel, Returned, vars, problem
  <2>2. IsInjective(fp) => ExactParts'
    BY <1>2, ExactStep DEF ExactInv, ExactParts
  <2>3. ExactInv'
    BY <2>1, <2>2 DEF ExactInv, ExactParts
  <2>4. QED
    BY <1>2, <2>3, InvStep
<1>3. QED
  BY <1>1, <1>2, PTL DEF Spec

(***************************************************************************)
(* Without collisions the frontier is exactly the layer of its depth less  *)
(* what is nearer, however its predecessor was divided among workers.      *)
(***************************************************************************)
THEOREM LevelsAreLayersAlways == Spec => []LevelsAreLayers
<1>1. ASSUME ExactInv PROVE LevelsAreLayers
  BY <1>1 DEF ExactInv, LayersSeen, LevelsAreLayers, Upto
<1>2. QED
  BY <1>1, ExactInductive, PTL

\* What a Pass says, without collisions.
PassIsExact ==
  result.kind = "pass" /\ IsInjective(fp) =>
    PassIsExactOf(model, cfg, result.states, result.maxDepth)

\* Steps that stay in Upto(depth) do so from the initial states on.
LEMMA ClosedIsAll ==
  ASSUME model \in Models, depth \in Nat,
         \A s \in Upto(depth) : Range(model.step[s]) \subseteq Upto(depth),
         NEW n \in Nat
  PROVE  Layer(model, n) \subseteq Upto(depth)
<1> DEFINE Escapes == {k \in Nat : ~ (Layer(model, k) \subseteq Upto(depth))}
<1>1. SUFFICES ASSUME Escapes # {} PROVE FALSE
  BY <1>1
<1>2. Escapes \in SUBSET Nat
  OBVIOUS
<1>3. PICK k \in Escapes : \A j \in Escapes : k <= j
  <2> HIDE DEF Escapes
  <2>1. QED
    BY <1>1, <1>2, LeastNumber
<1>4. k \in Nat /\ \A j \in Nat : j < k => Layer(model, j) \subseteq Upto(depth)
  BY <1>3
<1>5. PICK s \in Layer(model, k) : s \notin Upto(depth)
  BY <1>3
<1>6. CASE k = 0
  BY <1>5, <1>6 DEF Upto
<1>7. CASE k # 0
  <2>1. k - 1 \in Nat /\ (k - 1) + 1 = k /\ k - 1 < k
    BY <1>4, <1>7
  <2>2. PICK t \in Layer(model, k - 1) : s \in Range(model.step[t])
    <3> DEFINE j == k - 1
    <3>1. j \in Nat /\ s \in Layer(model, j + 1)
      BY <1>5, <2>1
    <3> HIDE DEF j
    <3>2. \E t \in Layer(model, j) : s \in Range(model.step[t])
      BY <3>1, LayersComeFrom
    <3>3. QED
      BY <3>2 DEF j
  <2>3. t \in Upto(depth)
    BY <1>4, <2>1
  <2>4. QED
    BY <1>5, <2>2, <2>3
<1>8. QED
  BY <1>6, <1>7

\* By the layers seen when the search ends.
LEMMA ExactPass ==
  ASSUME IInv, ExactInv
  PROVE  PassIsExact
<1> DEFINE Reachable == ReachableIn(model, cfg)
<1>1. SUFFICES ASSUME result.kind = "pass", IsInjective(fp)
               PROVE  /\ \A n \in Nat : InScope(cfg, n) => HoldsAt(model, n) /\ ExpandsAt(model, cfg, n)
                      /\ IsFiniteSet(Reachable) /\ result.states = Cardinality(Reachable)
                      /\ Reachable = Upto(result.maxDepth)
                      /\ result.maxDepth = 0 \/ Reachable # Upto(result.maxDepth - 1)
  BY DEF PassIsExact, PassIsExactOf, Upto, Nearby
<1>2. /\ TypeOK /\ InScope(cfg, depth) /\ PassSawAll /\ DepthIsNeeded
      /\ model \in Models /\ cfg \in Configs /\ depth \in Nat
  BY <1>1 DEF IInv, TypeOK, ListedIsReached, ExactInv
<1>3. /\ result.maxDepth = depth
      /\ result.states = Cardinality(fps)
      /\ fps = {fp[s] : s \in Upto(depth)}
      /\ \A s \in Upto(depth) :
           /\ model.invs[s] = "holds"
           /\ Expandable(s)
           /\ AtBound \/ Range(model.step[s]) \subseteq Upto(depth)
  BY <1>1, <1>2 DEF PassSawAll
<1>4. ASSUME NEW n \in Nat, InScope(cfg, n) PROVE Layer(model, n) \subseteq Upto(depth)
  <2>1. CASE AtBound
    <3>1. n <= depth
      BY <1>2, <1>4, <2>1, ConfigFacts DEF AtBound, Reached, InScope
    <3>2. QED
      BY <1>2, <3>1 DEF Upto
  <2>2. CASE ~ AtBound
    BY <1>2, <1>3, <2>2, ClosedIsAll
  <2>3. QED
    BY <2>1, <2>2
<1>5. Reachable = Upto(depth)
  <2>1. Reachable \subseteq Upto(depth)
    BY <1>4 DEF ReachableIn
  <2>2. \A k \in 0 .. depth : k \in Nat /\ InScope(cfg, k)
    BY <1>2, ConfigFacts DEF InScope
  <2>3. Upto(depth) \subseteq Reachable
    BY <2>2 DEF ReachableIn, Upto
  <2>4. QED
    BY <2>1, <2>3
<1>6. \A n \in Nat : InScope(cfg, n) => HoldsAt(model, n) /\ ExpandsAt(model, cfg, n)
  BY <1>3, <1>4 DEF HoldsAt, ExpandsAt, Expandable
<1>7. IsFiniteSet(Upto(depth)) /\ Cardinality(fps) = Cardinality(Upto(depth))
  <2>1. Upto(depth) \subseteq States /\ fp \in [States -> Nat] /\ IsFiniteSet(fps)
    BY <1>2, UptoFacts, ParallelAssumption DEF TypeOK
  <2> DEFINE g == [s \in Upto(depth) |-> fp[s]]
  <2>2. \A s, t \in States : fp[s] = fp[t] => s = t
    BY <1>1, <2>1 DEF IsInjective
  <2>3. g \in Injection(Upto(depth), fps)
    BY <1>3, <2>1, <2>2 DEF Injection, IsInjective
  <2>4. g \in Surjection(Upto(depth), fps)
    BY <1>3, <2>1 DEF Surjection
  <2> HIDE DEF g
  <2>5. QED
    BY <2>1, <2>3, <2>4, FS_Injection
<1>8. depth = 0 \/ Reachable # Upto(depth - 1)
  <2>1. Layer(model, depth) \subseteq Upto(depth)
    BY <1>2, UptoFacts
  <2>2. QED
    BY <1>2, <1>5, <2>1 DEF DepthIsNeeded
<1>9. QED
  BY <1>3, <1>5, <1>6, <1>7, <1>8

(***************************************************************************)
(* What check_parallel returns when it finds nothing: without collisions   *)
(* every state within the step bound satisfies the invariants and can be   *)
(* expanded, and the two numbers it returns are the program's own, not the *)
(* schedule's: how many states there are, and how far away the last ones.  *)
(***************************************************************************)
THEOREM PassIsExactAlways == Spec => []PassIsExact
BY ExactPass, ExactInductive, PTL

-----------------------------------------------------------------------------
(***************************************************************************)
(* The overshoot: no state has more successors than MostSuccessors, which  *)
(* exists if the program has states and bounds the successors of a state.  *)
(***************************************************************************)
BranchingBounded ==
  /\ States # {}
  /\ \A m \in Models : \E b \in Nat : \A s \in States : Len(m.step[s]) <= b

\* The largest of the numbers of successors.
LEMMA MostFacts ==
  ASSUME model \in Models, BranchingBounded
  PROVE  /\ MostSuccessors \in Nat
         /\ \A s \in States : Len(model.step[s]) <= MostSuccessors
<1> DEFINE Lengths == {Len(model.step[s]) : s \in States}
           Uppers == {n \in Nat : \A l \in Lengths : l <= n}
<1>1. Lengths \subseteq Nat /\ Lengths # {}
  <2>1. \A s \in States : Len(model.step[s]) \in Nat
    BY ModelFacts
  <2>2. QED
    BY <2>1 DEF BranchingBounded
<1>2. Uppers \in SUBSET Nat /\ Uppers # {}
  BY DEF BranchingBounded
<1>3. PICK u \in Uppers : \A n \in Uppers : u <= n
  <2> HIDE DEF Uppers
  <2>1. QED
    BY <1>2, LeastNumber
<1>4. u \in Nat /\ \A l \in Lengths : l <= u
  BY <1>3
<1>5. u \in Lengths
  <2>1. SUFFICES ASSUME u \notin Lengths PROVE FALSE
    BY <2>1
  <2> HIDE DEF Lengths
  <2>2. \A l \in Lengths : l <= u - 1
    BY <1>1, <1>4, <2>1
  <2>3. u - 1 \in Nat
    <3>1. PICK l \in Lengths : l \in Nat
      BY <1>1
    <3>2. l <= u - 1
      BY <2>2
    <3>3. QED
      BY <1>4, <3>1, <3>2
  <2>4. u - 1 \in Uppers
    BY <2>2, <2>3
  <2>5. QED
    BY <1>3, <1>4, <2>4
<1>6. MostSuccessors \in Lengths /\ \A l \in Lengths : MostSuccessors >= l
  <2>1. MostSuccessors = Max(Lengths)
    BY DEF MostSuccessors
  <2> HIDE DEF Lengths
  <2>2. \E x \in Lengths : \A l \in Lengths : x >= l
    BY <1>1, <1>4, <1>5
  <2>3. QED
    BY <2>1, <2>2 DEF Max
<1>7. QED
  BY <1>1, <1>6

\* A list names no more states than it is long.
LEMMA NamesNoMore ==
  ASSUME NEW S, NEW q \in Seq(S)
  PROVE  IsFiniteSet(Range(q)) /\ Cardinality(Range(q)) <= Len(q)
<1>1. Len(q) \in Nat /\ q \in Surjection(1 .. Len(q), Range(q))
  BY DEF Surjection, Range
<1>2. IsFiniteSet(1 .. Len(q)) /\ Cardinality(1 .. Len(q)) = Len(q)
  <2>1. Len(q) \in Nat /\ Len(q) \in Int /\ 1 \in Int
    BY <1>1
  <2>2. IsFiniteSet(1 .. Len(q)) /\ Cardinality(1 .. Len(q)) = IF 1 > Len(q) THEN 0 ELSE Len(q) - 1 + 1
    BY <2>1, FS_Interval
  <2>3. QED
    BY <2>1, <2>2
<1>3. QED
  BY <1>1, <1>2, FS_Surjection

\* The workers that have joined.
LEMMA JoinedFacts ==
  ASSUME NEW J \in SUBSET Workers
  PROVE  /\ IsFiniteSet(J) /\ Cardinality(J) \in Nat
         /\ J # {} => Cardinality(J) >= 1
         /\ Cardinality(J) <= Threads
<1>1. Threads \in Nat /\ IsFiniteSet(Workers) /\ Cardinality(Workers) = Threads
  <2>1. Threads \in Nat \ {0} /\ 1 \in Int /\ Threads \in Int
    BY ParallelAssumption
  <2>2. IsFiniteSet(1 .. Threads) /\ Cardinality(1 .. Threads) = IF 1 > Threads THEN 0 ELSE Threads - 1 + 1
    BY <2>1, FS_Interval
  <2>3. QED
    BY <2>1, <2>2 DEF Workers
<1>2. IsFiniteSet(J) /\ Cardinality(J) \in Nat /\ Cardinality(J) <= Threads
  BY <1>1, FS_Subset, FS_CardinalityType
<1>3. QED
  BY <1>2, FS_EmptySet

\* Products of numbers.
LEMMA TimesFacts ==
  ASSUME NEW a \in Nat, NEW b \in Nat, NEW m \in Nat, a <= b
  PROVE  /\ a * m \in Nat
         /\ a * m <= b * m
         /\ (a + 1) * m = a * m + m
         /\ a >= 1 => m <= a * m
OBVIOUS

\* The program, the configuration and the hash function do not change.
LEMMA GivenStays ==
  ASSUME TypeOK, [Next]_vars
  PROVE  UNCHANGED <<model, cfg, fp>>
<1>1. CASE AdmitInitial
  BY <1>1, AdmitFacts
<1>2. ASSUME NEW w \in Workers, Step(w) PROVE UNCHANGED <<model, cfg, fp>>
  BY <1>2, StepOthers
<1>3. QED
  BY <1>1, <1>2 DEF Next, Coordinate, EnumerateInit, InitDone, Spawn, ReportPass, JoinStopped,
                    JoinLevel, Returned, vars, problem

\* What a worker has yet to count.
LEMMA FewStep ==
  ASSUME TypeOK, WorkersRest, BranchingBounded, FewFresh, [Next]_vars
  PROVE  FewFresh'
<1>0. /\ model \in Models /\ MostSuccessors \in Nat
      /\ \A s \in States : Len(model.step[s]) <= MostSuccessors
      /\ fresh \in [Workers -> Nat] /\ succs \in [Workers -> SUBSET States]
  BY MostFacts DEF TypeOK
<1>1. MostSuccessors' = MostSuccessors
  BY GivenStays DEF MostSuccessors
<1>2. ASSUME NEW w \in Workers, Step(w) PROVE FewFresh'
  <2>1. \A v \in Workers : v # w => succs'[v] = succs[v] /\ fresh'[v] = fresh[v]
    BY <1>2, StepOthers
  <2>2. fresh[w] \in Nat /\ IsFiniteSet(succs[w]) /\ fresh[w] + Cardinality(succs[w]) <= MostSuccessors
    BY <1>0 DEF FewFresh
  <2>3. IsFiniteSet({}) /\ Cardinality({}) = 0 /\ Cardinality(succs[w]) \in Nat
    BY <2>2, FS_EmptySet, FS_CardinalityType
  <2>4. IsFiniteSet(succs'[w]) /\ fresh'[w] + Cardinality(succs'[w]) <= MostSuccessors
    <3>1. CASE Claim(w) \/ SeeStop(w) \/ ChunkDone(w)
      BY <2>2, <3>1, ClaimOwn, SeeStopOwn, DoneOwn
    <3>2. CASE TakeState(w)
      <4>1. wpc[w] = "chunk" /\ fresh[w] = 0
        BY <3>2, TakeOwn DEF WorkersRest
      <4>2. \/ succs'[w] = {} /\ fresh'[w] = 0
            \/ succs'[w] = succs[w] /\ fresh'[w] = fresh[w]
            \/ succs'[w] = Range(model.step[Head(work[w])]) /\ fresh'[w] = fresh[w]
        BY <3>2, TakeOwn
      <4>3. Head(work[w]) \in States
        BY <3>2, TakeOwn
      <4>4. /\ IsFiniteSet(Range(model.step[Head(work[w])]))
            /\ Cardinality(Range(model.step[Head(work[w])])) \in Nat
            /\ Cardinality(Range(model.step[Head(work[w])])) <= MostSuccessors
        <5>1. model.step[Head(work[w])] \in Seq(States)
          BY <4>3, StateFacts
        <5>2. Len(model.step[Head(work[w])]) \in Nat /\ Len(model.step[Head(work[w])]) <= MostSuccessors
          BY <1>0, <4>3, <5>1
        <5>3. QED
          BY <1>0, <5>1, <5>2, NamesNoMore, FS_CardinalityType
      <4>5. CASE succs'[w] = {} /\ fresh'[w] = 0
        BY <1>0, <2>3, <4>5
      <4>6. CASE succs'[w] = succs[w] /\ fresh'[w] = fresh[w]
        BY <2>2, <4>6
      <4>7. CASE succs'[w] = Range(model.step[Head(work[w])]) /\ fresh'[w] = fresh[w]
        BY <4>1, <4>4, <4>7
      <4>8. QED
        BY <4>2, <4>5, <4>6, <4>7
    <3>3. CASE InsertSuccessor(w)
      <4>1. PICK s \in succs[w] :
              \/ succs'[w] = {} /\ fresh'[w] = 0
              \/ succs'[w] = succs[w] \ {s} /\ fresh'[w] \in {fresh[w], fresh[w] + 1}
        BY <3>3, InsertOwn
      <4>2. IsFiniteSet(succs[w] \ {s}) /\ Cardinality(succs[w] \ {s}) = Cardinality(succs[w]) - 1
        BY <2>2, FS_RemoveElement
      <4>3. CASE succs'[w] = {} /\ fresh'[w] = 0
        BY <1>0, <2>3, <4>3
      <4>4. CASE succs'[w] = succs[w] \ {s} /\ fresh'[w] \in {fresh[w], fresh[w] + 1}
        <5>1. fresh'[w] \in Nat /\ fresh'[w] <= fresh[w] + 1
          BY <2>2, <4>4
        <5>2. IsFiniteSet(succs'[w]) /\ Cardinality(succs'[w]) = Cardinality(succs[w]) - 1
          BY <4>2, <4>4
        <5>3. QED
          BY <1>0, <2>2, <2>3, <5>1, <5>2
      <4>5. QED
        BY <4>1, <4>3, <4>4
    <3>4. CASE CountFresh(w)
      <4>1. succs'[w] = {} /\ fresh'[w] = 0
        BY <3>4, CountOwn
      <4>2. QED
        BY <1>0, <2>3, <4>1
    <3>5. QED
      BY <1>2, <3>1, <3>2, <3>3, <3>4 DEF Step
  <2>5. QED
    BY <1>1, <2>1, <2>4 DEF FewFresh
<1>3. CASE UNCHANGED <<succs, fresh>>
  BY <1>1, <1>3 DEF FewFresh
<1>4. CASE AdmitInitial
  BY <1>3, <1>4, AdmitFacts
<1>5. QED
  BY <1>2, <1>3, <1>4 DEF Next, Coordinate, EnumerateInit, InitDone, Spawn, ReportPass, JoinStopped,
                          JoinLevel, Returned, vars, workerVars

\* The cap and the count.
LEMMA CapStep ==
  ASSUME TypeOK, WorkersRest, StopHasReason, MostSuccessors \in Nat, FewFresh, CapKept, [Next]_vars
  PROVE  CapKept'
<1>0. /\ cfg \in Configs /\ discovered \in Nat
      /\ cfg.maxStates = NoBound \/ cfg.maxStates \in Nat
  BY ConfigFacts DEF TypeOK
<1>1. MostSuccessors' = MostSuccessors /\ cfg' = cfg
  BY GivenStays DEF MostSuccessors
<1>2. CASE EnumerateInit
  BY <1>1, <1>2 DEF EnumerateInit, Return, CapKept, levelVars
<1>3. CASE AdmitInitial
  <2>1. pc = "init" /\ UNCHANGED <<stop, capped>> /\ pc' \in {"init", "done"}
    BY <1>3, AdmitFacts DEF Return
  <2>2. frontier \in Seq(States) /\ Append(frontier, Head(todo)) # << >>
    <3>1. frontier \in Seq(States) /\ Head(todo) \in States /\ Len(frontier) \in Nat
      BY <1>3, AdmitFacts DEF TypeOK
    <3>2. Len(Append(frontier, Head(todo))) = Len(frontier) + 1
      BY <3>1, AppendFacts
    <3>3. QED
      BY <3>1, <3>2
  <2>3. \/ UNCHANGED <<discovered, frontier>>
        \/ frontier' # << >> /\ (pc' = "done" \/ ~ Reached(cfg.maxStates, discovered'))
    BY <1>3, <2>2, AdmitFacts DEF Return
  <2>4. QED
    BY <1>1, <2>1, <2>3 DEF CapKept
<1>4. CASE InitDone \/ ReportPass \/ JoinStopped
  <2>1. /\ (pc # "work" /\ pc' \in {"level", "done"}) \/ pc' = "done"
        /\ pc' = "level" => pc = "init"
        /\ UNCHANGED <<stop, capped, discovered, frontier>>
    BY <1>4 DEF InitDone, ReportPass, JoinStopped, Return, levelVars
  <2>2. QED
    BY <1>1, <2>1 DEF CapKept
<1>5. CASE Spawn
  <2>1. /\ pc = "level" /\ pc' = "work" /\ frontier # << >>
        /\ UNCHANGED <<stop, capped, discovered, frontier>>
    BY <1>5 DEF Spawn, levelVars
  <2>2. ~ capped /\ ~ Reached(cfg.maxStates, discovered)
    BY <2>1 DEF CapKept, StopHasReason
  <2>3. QED
    BY <1>1, <2>1, <2>2 DEF CapKept
<1>6. CASE JoinLevel
  <2>1. /\ pc = "work" /\ ~ stop /\ pc' \in {"level", "done"}
        /\ UNCHANGED <<stop, capped, discovered>>
    BY <1>6 DEF JoinLevel, AllJoined, Return
  <2>2. QED
    BY <1>1, <2>1 DEF CapKept
<1>7. ASSUME NEW w \in Workers, Step(w) PROVE CapKept'
  <2>1. /\ pc = "work" /\ pc' = "work" /\ wpc[w] # "joined"
        /\ \A v \in Workers : v # w => wpc'[v] = wpc[v]
    BY <1>7, Working, StepOthers
  <2> DEFINE c == Cardinality(Joined)
             d == Cardinality(Joined')
             max == cfg.maxStates
             most == MostSuccessors
  <2>2. /\ Joined \subseteq Workers /\ w \notin Joined
        /\ Joined' = IF wpc'[w] = "joined" THEN Joined \cup {w} ELSE Joined
    BY <2>1 DEF Joined
  <2>3. /\ c \in Nat /\ d \in Nat /\ c <= d
        /\ wpc'[w] = "joined" => d = c + 1
    <3>1. IsFiniteSet(Joined) /\ c \in Nat
      BY <2>2, JoinedFacts
    <3>2. Cardinality(Joined \cup {w}) = c + 1
      BY <2>2, <3>1, FS_AddElement
    <3>3. QED
      BY <2>2, <3>1, <3>2
  <2>4. /\ c * most \in Nat /\ d * most \in Nat /\ c * most <= d * most
        /\ wpc'[w] = "joined" => d * most = c * most + most
    <3> HIDE DEF c, d
    <3>1. /\ c * most \in Nat /\ c * most <= d * most /\ (c + 1) * most = c * most + most
          /\ d * most \in Nat
      BY <2>3, TimesFacts
    <3>2. QED
      BY <2>3, <3>1
  <2>5. /\ capped => stop
        /\ ~ capped => ~ Reached(max, discovered)
        /\ capped => Reached(max, discovered) /\ discovered < max + c * most
    BY <2>1 DEF CapKept
  <2>6. /\ capped' => stop'
        /\ ~ capped' => ~ Reached(max, discovered')
        /\ capped' => Reached(max, discovered') /\ discovered' < max + d * most
    <3>1. CASE ~ CountFresh(w)
      <4>1. capped' = capped /\ discovered' = discovered /\ (stop => stop')
        BY <1>7, <3>1, ClaimOwn, SeeStopOwn, TakeOwn, InsertOwn, DoneOwn DEF Step, TypeOK
      <4>2. capped => max \in Nat
        BY <1>0, <2>5 DEF Reached
      <4> HIDE DEF c, d, max, most
      <4>3. QED
        BY <1>0, <2>4, <2>5, <4>1, <4>2
    <3>2. CASE CountFresh(w)
      <4>1. fresh[w] \in Nat /\ fresh[w] <= most
        <5>1. IsFiniteSet(succs[w]) /\ fresh[w] + Cardinality(succs[w]) <= most /\ fresh[w] \in Nat
          BY DEF FewFresh, TypeOK
        <5>2. Cardinality(succs[w]) \in Nat
          BY <5>1, FS_CardinalityType
        <5>3. QED
          BY <5>1, <5>2
      <4>2. discovered' = discovered + fresh[w]
        BY <3>2, CountOwn
      <4>3. CASE /\ fresh[w] > 0 /\ Reached(max, discovered')
                 /\ capped' = TRUE /\ stop' = TRUE
                 /\ wpc'[w] = "joined"
        <5>1. max \in Nat
          BY <1>0, <4>3 DEF Reached
        <5>2. most \in Nat /\ (discovered < max \/ discovered < max + c * most)
          BY <1>0, <2>5, <5>1 DEF Reached, NoBound
        <5> HIDE DEF c, d, max, most
        <5>3. discovered' < max + d * most
          BY <1>0, <2>4, <4>1, <4>2, <4>3, <5>1, <5>2
        <5>4. QED
          BY <4>3, <5>3
      <4>4. CASE ~ (fresh[w] > 0 /\ Reached(max, discovered')) /\ UNCHANGED <<capped, stop>>
        <5>1. capped => max \in Nat /\ max <= discovered
          BY <1>0, <2>5 DEF Reached
        <5>2. capped => Reached(max, discovered')
          BY <1>0, <4>1, <4>2, <5>1 DEF Reached, NoBound
        <5>3. capped => discovered' = discovered
          BY <1>0, <4>1, <4>2, <4>4, <5>2
        <5>4. ~ capped => ~ Reached(max, discovered')
          BY <1>0, <2>5, <4>1, <4>2, <4>4 DEF Reached
        <5>5. capped => discovered' < max + d * most
          <6> HIDE DEF c, d, max, most
          <6>1. QED
            BY <1>0, <2>4, <2>5, <5>1, <5>3
        <5>6. QED
          BY <2>5, <4>4, <5>2, <5>4, <5>5
      <4>5. QED
        BY <3>2, <4>3, <4>4, CountOwn
    <3>3. QED
      BY <3>1, <3>2
  <2>7. QED
    BY <1>1, <2>1, <2>6 DEF CapKept
<1>8. CASE UNCHANGED vars
  BY <1>1, <1>8 DEF vars, levelVars, workerVars, CapKept, Joined
<1>9. QED
  BY <1>2, <1>3, <1>4, <1>5, <1>6, <1>7, <1>8 DEF Next, Coordinate, Returned

\* What is reported of it.
LEMMA OvershootStep ==
  ASSUME TypeOK, StopHasReason, MostSuccessors \in Nat, CapKept, OvershootIsBounded, [Next]_vars
  PROVE  OvershootIsBounded'
<1>0. /\ cfg \in Configs /\ discovered \in Nat
      /\ cfg.maxStates = NoBound \/ cfg.maxStates \in Nat
  BY ConfigFacts DEF TypeOK
<1>1. MostSuccessors' = MostSuccessors /\ cfg' = cfg
  BY GivenStays DEF MostSuccessors
<1>2. result' = result => OvershootIsBounded'
  BY <1>1 DEF OvershootIsBounded
<1>3. result'.kind # "incomplete" => OvershootIsBounded'
  BY DEF OvershootIsBounded
<1>4. CASE AdmitInitial
  <2>1. CASE /\ discovered' = discovered + 1
             /\ Reached(cfg.maxStates, discovered') /\ Return("incomplete", discovered', 0)
    <3>1. result'.states = discovered' /\ pc = "init"
      BY <1>4, <2>1, AdmitFacts DEF Return, Result
    <3>2. cfg.maxStates \in Nat
      BY <1>0, <2>1 DEF Reached
    <3>3. discovered = 0 \/ discovered < cfg.maxStates
      BY <1>0, <3>1, <3>2 DEF CapKept, Reached, NoBound
    <3>4. result'.states \in {1, cfg.maxStates}
      BY <1>0, <2>1, <3>1, <3>2, <3>3 DEF Reached
    <3>5. QED
      BY <1>1, <2>1, <3>1, <3>4 DEF OvershootIsBounded
  <2>2. CASE Return("rerun", 0, 0)
    BY <1>3, <2>2 DEF Return, Result
  <2>3. QED
    BY <1>2, <1>4, <2>1, <2>2, AdmitFacts
<1>5. CASE JoinStopped
  <2>1. CASE capped /\ result' = Result("incomplete", discovered, 0)
    <3>1. result'.states = discovered /\ pc = "work" /\ \A w \in Workers : wpc[w] = "joined"
      BY <1>5, <2>1 DEF JoinStopped, AllJoined, Result
    <3>2. Joined = Workers
      BY <3>1 DEF Joined
    <3> DEFINE c == Cardinality(Joined)
               most == MostSuccessors
    <3>3. /\ Reached(cfg.maxStates, discovered) /\ cfg.maxStates \in Nat
          /\ discovered < cfg.maxStates + c * most
      BY <1>0, <2>1, <3>1 DEF CapKept, Reached
    <3>4. c * most <= Threads * most /\ c * most \in Nat /\ Threads * most \in Nat
      <4>1. c \in Nat /\ c <= Threads /\ Threads \in Nat
        BY <3>2, JoinedFacts, ParallelAssumption
      <4> HIDE DEF c
      <4>2. QED
        BY <4>1, TimesFacts
    <3>5. discovered < cfg.maxStates + Threads * most
      <4> HIDE DEF c, most
      <4>1. QED
        BY <1>0, <3>3, <3>4
    <3>6. QED
      BY <1>1, <3>1, <3>3, <3>5 DEF OvershootIsBounded
  <2>2. QED
    BY <1>3, <1>5, <2>1 DEF JoinStopped, Return, Result
<1>6. ASSUME NEW w \in Workers, Step(w) PROVE OvershootIsBounded'
  BY <1>2, <1>6, StepOthers
<1>7. QED
  BY <1>2, <1>3, <1>4, <1>5, <1>6
     DEF Next, Coordinate, EnumerateInit, InitDone, Spawn, ReportPass, JoinLevel, Return, Result,
         Returned, vars

(***************************************************************************)
(* However the workers race past the cap, what is counted exceeds it by    *)
(* less than one state's successors for each of them.                      *)
(***************************************************************************)
THEOREM OvershootIsBoundedAlways ==
  ASSUME BranchingBounded
  PROVE  Spec => []OvershootIsBounded
<1>1. Init => CapInv
  <2> SUFFICES ASSUME Init PROVE CapInv
    OBVIOUS
  <2>1. MostSuccessors \in Nat
    BY MostFacts DEF Init
  <2>2. FewFresh
    BY <2>1, FS_EmptySet DEF Init, FewFresh
  <2>3. QED
    BY <2>2 DEF Init, CapInv, CapKept, OvershootIsBounded, Result
<1>2. ASSUME IInv, CapInv, [Next]_vars PROVE CapInv'
  <2>1. /\ TypeOK /\ WorkersRest /\ StopHasReason
        /\ FewFresh /\ CapKept /\ OvershootIsBounded
    BY <1>2 DEF IInv, CapInv
  <2>2. MostSuccessors \in Nat
    BY <2>1, MostFacts DEF TypeOK
  <2>3. FewFresh' /\ CapKept' /\ OvershootIsBounded'
    BY <1>2, <2>1, <2>2, FewStep, CapStep, OvershootStep
  <2>4. QED
    BY <2>3 DEF CapInv
<1>3. CapInv => OvershootIsBounded
  BY DEF CapInv
<1>4. QED
  BY <1>1, <1>2, <1>3, Inductive, PTL DEF Spec

-----------------------------------------------------------------------------
(***************************************************************************)
(* What is reported without a second search: the cap is reached when it is *)
(* said to be, and a program whose initial states cannot be enumerated     *)
(* does not pass.                                                          *)
(***************************************************************************)
Honest ==
  /\ capped => Reached(cfg.maxStates, discovered)
  /\ pc \in {"init", "level", "work"} => ~ model.initError
  /\ result.kind = "incomplete" => Reached(cfg.maxStates, result.states)
  /\ result.kind = "pass" => ~ model.initError

\* The count only grows.
LEMMA HonestStep ==
  ASSUME TypeOK, Honest, [Next]_vars
  PROVE  Honest'
<1>1. CASE \E w \in Workers : Step(w)
  <2>1. PICK w \in Workers : Step(w)
    BY <1>1
  <2>2. UNCHANGED <<model, cfg, pc, result>>
    BY <2>1, StepOthers
  <2>3. CASE CountFresh(w)
    <3>1. discovered' = discovered + fresh[w] /\ discovered \in Nat /\ fresh[w] \in Nat
      BY <2>3 DEF CountFresh, TypeOK
    <3>2. Reached(cfg.maxStates, discovered) => Reached(cfg.maxStates, discovered')
      <4>1. cfg.maxStates \in Int
        BY ConfigFacts DEF TypeOK
      <4>2. QED
        BY <3>1, <4>1 DEF Reached
    <3>3. capped' => capped \/ Reached(cfg.maxStates, discovered')
      BY <2>3 DEF CountFresh, problem
    <3>4. QED
      BY <2>2, <3>2, <3>3 DEF Honest
  <2>4. CASE ~ CountFresh(w)
    <3>1. UNCHANGED <<discovered, capped>>
      BY <2>1, <2>4 DEF Step, Claim, SeeStop, TakeState, InsertSuccessor, ChunkDone
    <3>2. QED
      BY <2>2, <3>1 DEF Honest
  <2>5. QED
    BY <2>3, <2>4
<1>2. CASE EnumerateInit
  BY <1>2 DEF EnumerateInit, Return, Result, Honest, problem
<1>3. CASE AdmitInitial
  <2>1. UNCHANGED <<model, cfg, capped>> /\ pc = "init" /\ ~ model.initError
    BY <1>3 DEF AdmitInitial, problem, Honest
  <2>2. discovered' \in {discovered, discovered + 1}
    BY <1>3 DEF AdmitInitial
  <2>3. Reached(cfg.maxStates, discovered) => Reached(cfg.maxStates, discovered')
    <3>1. cfg.maxStates \in Int /\ discovered \in Nat
      BY ConfigFacts DEF TypeOK
    <3>2. QED
      BY <2>2, <3>1 DEF Reached
  <2>4. \/ UNCHANGED result
        \/ result'.kind = "rerun"
        \/ result' = Result("incomplete", discovered', 0) /\ Reached(cfg.maxStates, discovered')
    BY <1>3 DEF AdmitInitial, Return, Result
  <2>5. QED
    BY <2>1, <2>3, <2>4 DEF Honest, Result
<1>4. CASE InitDone \/ Spawn
  BY <1>4 DEF InitDone, Spawn, Honest, problem
<1>5. CASE ReportPass \/ JoinLevel
  BY <1>5 DEF ReportPass, JoinLevel, AllJoined, Return, Result, Honest, problem
<1>6. CASE JoinStopped
  BY <1>6 DEF JoinStopped, AllJoined, Return, Result, Honest, problem
<1>7. CASE Returned \/ UNCHANGED vars
  BY <1>7 DEF Returned, vars, problem, Honest
<1>8. QED
  BY <1>1, <1>2, <1>3, <1>4, <1>5, <1>6, <1>7 DEF Next, Coordinate

\* What the caller makes of it.
ReportOf(r) == IF r.kind = "pass" THEN PassOf(r.states, r.maxDepth) ELSE IncompleteOf(r.states)

(***************************************************************************)
(* Without collisions a Pass or Incomplete of check_parallel is true of    *)
(* the program.                                                            *)
(***************************************************************************)
LEMMA ResultTells ==
  ASSUME IInv, ExactInv, Honest, IsInjective(fp), result.kind \in {"pass", "incomplete"}
  PROVE  Tells(model, cfg, ReportOf(result))
<1>1. result \in ResultType
  BY DEF IInv, TypeOK
<1>2. CASE result.kind = "incomplete"
  BY <1>2 DEF Honest, Tells, ReportOf, IncompleteOf, Outcome
<1>3. CASE result.kind = "pass"
  <2>1. PassIsExactOf(model, cfg, result.states, result.maxDepth) /\ ~ model.initError
    BY <1>3, ExactPass DEF PassIsExact, Honest
  <2>2. result.maxDepth \in Nat
    BY <1>1 DEF ResultType
  <2>3. QED
    BY <1>3, <2>1, <2>2 DEF Tells, ReportOf, PassOf, Outcome
<1>4. QED
  BY <1>2, <1>3

-----------------------------------------------------------------------------
(***************************************************************************)
(* Part 2.  The rerun searches the program with its successor lists in     *)
(* another order, which need not be one of Models.  So the theorems about  *)
(* check_fp are used for all well-formed programs.                         *)
(***************************************************************************)
Sane == {m \in ModelType : WellFormed(m)}

FP == INSTANCE FpBfsProofs WITH
        Models <- Sane,
        model <- fmodel, pc <- fpc, todo <- ftodo, fps <- ffps, frontier <- ffrontier,
        depth <- fdepth

\* What FpBfs assumes.
LEMMA ModelsAreSane ==
  /\ /\ Sane \subseteq FP!ModelType
     /\ \A m \in Sane : FP!WellFormed(m)
     /\ Configs \subseteq FP!ConfigType
     /\ Horizon \in Nat
  /\ \A f \in Fingerprints : f \in [States -> Nat]
  /\ Models \subseteq Sane
<1>1. FP!ModelType = ModelType
  BY DEF FP!ModelType, ModelType, FP!Verdicts, Verdicts
<1>2. \A m : FP!WellFormed(m) <=> WellFormed(m)
  BY DEF FP!WellFormed, WellFormed, FP!IsInjective, IsInjective
<1>3. FP!ConfigType = ConfigType
  BY DEF FP!ConfigType, ConfigType, FP!NoBound, NoBound
<1>4. QED
  BY <1>1, <1>2, <1>3, SearchAssumption, ParallelAssumption DEF Sane

-----------------------------------------------------------------------------
(***************************************************************************)
(* The second process sorts the lists of the program in the order in which *)
(* it met the states: it searches the same program, rearranged.            *)
(***************************************************************************)
MetOnce == ids \in Seq(States) /\ IsInjective(ids)

Resorted == [model EXCEPT !.step = [s \in States |-> Sorted(model.step[s])]]

\* What is met is met once.
LEMMA UnmetFacts ==
  ASSUME MetOnce, NEW list \in Seq(States), IsInjective(list)
  PROVE  /\ Unmet(list) \in Seq(States)
         /\ Range(Unmet(list)) = Range(list) \ Range(ids)
         /\ IsInjective(Unmet(list))
<1>1. /\ Unmet(list) \in Seq(States)
      /\ Range(Unmet(list)) = Range(list) \cap (States \ Range(ids))
      /\ IsInjective(Unmet(list))
  BY OnlyFacts DEF Unmet
<1>2. QED
  BY <1>1, RangeInStates

\* Meeting a list keeps the ids apart.
LEMMA MeetOnce ==
  ASSUME MetOnce, NEW list \in Seq(States), IsInjective(list), Meet(list)
  PROVE  MetOnce'
<1> DEFINE more == Unmet(list)
<1>1. /\ more \in Seq(States) /\ IsInjective(more) /\ Range(ids) \cap Range(more) = {}
      /\ ids \in Seq(States) /\ IsInjective(ids) /\ ids' = ids \o more
  BY UnmetFacts DEF MetOnce, Meet
<1> HIDE DEF more
<1>2. ids \o more \in Seq(States) /\ IsInjective(ids \o more)
  BY <1>1, ConcatFacts, JoinedOnce
<1>3. QED
  BY <1>1, <1>2 DEF MetOnce

\* Sorting a list changes its order only.
LEMMA SortedFacts ==
  ASSUME MetOnce, NEW list \in Seq(States), IsInjective(list)
  PROVE  /\ Sorted(list) \in Seq(States)
         /\ Range(Sorted(list)) = Range(list)
         /\ IsInjective(Sorted(list))
<1> DEFINE first == Only(ids, Range(list))
           more == Unmet(list)
<1>1. /\ first \in Seq(States) /\ Range(first) = Range(ids) \cap Range(list) /\ IsInjective(first)
  BY OnlyFacts DEF MetOnce
<1>2. more \in Seq(States) /\ Range(more) = Range(list) \ Range(ids) /\ IsInjective(more)
  BY UnmetFacts
<1>3. Sorted(list) = IF composite THEN first \o more ELSE list
  BY DEF Sorted
<1> HIDE DEF first, more
<1>4. /\ first \o more \in Seq(States)
      /\ Range(first \o more) = Range(list)
      /\ IsInjective(first \o more)
  <2>1. first \o more \in Seq(States) /\ Range(first \o more) = Range(first) \cup Range(more)
    BY <1>1, <1>2, ConcatFacts
  <2>2. IsInjective(first \o more)
    BY <1>1, <1>2, JoinedOnce
  <2>3. QED
    BY <1>1, <1>2, <2>1, <2>2
<1>5. QED
  BY <1>3, <1>4

\* The program may be searched in any order.
Resembles(m) == m \in Sane /\ FP!Rearranged(m, model)

\* Sorting all of them rearranges the program, unless ids are fixed.
LEMMA ResortedFacts ==
  ASSUME MetOnce, model \in Models
  PROVE  /\ Resembles(Resorted)
         /\ ~ composite => Resorted = model
<1> DEFINE m == Resorted
           step == [s \in States |-> Sorted(model.step[s])]
<1>1. /\ model \in ModelType /\ WellFormed(model)
      /\ model.init \in Seq(States) /\ model.initError \in BOOLEAN
      /\ model.step \in [States -> Seq(States)] /\ model.stepError \in SUBSET States
      /\ model.invs \in [States -> Verdicts]
  BY SearchAssumption, ModelFacts
<1>2. /\ m.init = model.init /\ m.initError = model.initError /\ m.stepError = model.stepError
      /\ m.invs = model.invs /\ m.step = step
      /\ m = [init |-> model.init, initError |-> model.initError, step |-> step,
              stepError |-> model.stepError, invs |-> model.invs]
  <2>1. m = [model EXCEPT !.step = step]
    BY DEF Resorted
  <2> HIDE DEF m, step
  <2>2. QED
    BY <1>1, <2>1 DEF ModelType
<1>3. ASSUME NEW s \in States
      PROVE  /\ step[s] \in Seq(States) /\ Range(step[s]) = Range(model.step[s])
             /\ IsInjective(step[s])
             /\ ~ composite => step[s] = model.step[s]
  <2>1. model.step[s] \in Seq(States) /\ IsInjective(model.step[s])
    BY <1>1 DEF WellFormed
  <2>2. step[s] = Sorted(model.step[s])
    OBVIOUS
  <2> HIDE DEF step
  <2>3. QED
    BY <2>1, <2>2, SortedFacts DEF Sorted
<1>4. step \in [States -> Seq(States)]
  <2>1. \A s \in States : step[s] \in Seq(States)
    BY <1>3
  <2>2. QED
    BY <2>1
<1> HIDE DEF step
<1>5. \A s \in model.stepError : step[s] = << >>
  <2>1. \A s \in model.stepError : s \in States /\ model.step[s] = << >>
    BY <1>1 DEF WellFormed
  <2>2. Range(<< >>) = {}
    BY DEF Range
  <2>3. QED
    BY <1>3, <2>1, <2>2, EmptyRange
<1> HIDE DEF m
<1>6. m \in Sane
  <2>1. m \in ModelType
    BY <1>1, <1>2, <1>4 DEF ModelType
  <2>2. WellFormed(m)
    BY <1>1, <1>2, <1>3, <1>5 DEF WellFormed
  <2>3. QED
    BY <2>1, <2>2 DEF Sane
<1>7. FP!Rearranged(m, model)
  <2>1. \A q : FP!Range(q) = Range(q)
    BY DEF FP!Range, Range
  <2>2. \A s \in States : FP!Range(m.step[s]) = FP!Range(model.step[s])
    BY <1>2, <1>3, <2>1
  <2>3. QED
    BY <1>2, <2>2 DEF FP!Rearranged
<1>8. ASSUME ~ composite PROVE m = model
  <2>1. step = model.step
    BY <1>1, <1>3, <1>4, <1>8
  <2>2. QED
    BY <1>1, <1>2, <2>1 DEF ModelType
<1>9. QED
  BY <1>6, <1>7, <1>8 DEF Resembles, m

-----------------------------------------------------------------------------
(***************************************************************************)
(* The steps of the two searches.  check_fp takes its own, ...             *)
(***************************************************************************)
LEMMA SameSkip == F!Skip => FP!Skip
BY DEF F!Skip, FP!Skip, F!LooksSeen, FP!LooksSeen, F!problem, FP!problem, F!traceVars, FP!traceVars

\* ... it starts as proved, ...
LEMMA SameStart == F!InitFails \/ F!EnumerateInit => FP!InitFails \/ FP!EnumerateInit
BY DEF F!InitFails, FP!InitFails, F!EnumerateInit, FP!EnumerateInit, F!problem, FP!problem,
   F!traceVars, FP!traceVars, F!Counterexample, FP!Counterexample, F!Outcome, FP!Outcome

\* ... admits, ...
LEMMA SameAdmit ==
  ASSUME NEW s, NEW parent, NEW d, F!Admit(s, parent, d)
  PROVE  FP!Admit(s, parent, d)
BY DEF F!Admit, FP!Admit, F!LooksSeen, FP!LooksSeen, F!Reconstruct, FP!Reconstruct, F!problem,
   FP!problem, F!traceVars, FP!traceVars, F!IncompleteOf, FP!IncompleteOf, F!Outcome, FP!Outcome,
   F!Reached, FP!Reached, F!NoBound, FP!NoBound

\* ... one list after the other, ...
LEMMA SameAdmission ==
  F!AdmitInitial \/ F!AdmitSuccessor \/ F!ListDone => FP!AdmitInitial \/ FP!AdmitSuccessor \/ FP!ListDone
BY SameAdmit DEF F!AdmitInitial, FP!AdmitInitial, F!AdmitSuccessor, FP!AdmitSuccessor, F!NoParent,
   FP!NoParent, F!ListDone, FP!ListDone, F!problem, FP!problem, F!traceVars, FP!traceVars

\* ... pops ...
LEMMA SamePop == F!PopForSearch => FP!PopForSearch
BY DEF F!PopForSearch, FP!PopForSearch, F!Pop, FP!Pop, F!Max2, FP!Max2, F!problem, FP!problem

\* ... and expands, ...
LEMMA SameSearch ==
  F!StepFails \/ F!FindDeadlock \/ F!StopAtBound \/ F!Expand \/ F!ReportPass =>
    FP!StepFails \/ FP!FindDeadlock \/ FP!StopAtBound \/ FP!Expand \/ FP!ReportPass
BY SamePop DEF F!StepFails, FP!StepFails, F!FindDeadlock, FP!FindDeadlock, F!StopAtBound,
   FP!StopAtBound, F!Expand, FP!Expand, F!ReportPass, FP!ReportPass, F!Reconstruct, FP!Reconstruct,
   F!Expandable, FP!Expandable, F!Reached, FP!Reached, F!NoBound, FP!NoBound, F!PassOf, FP!PassOf,
   F!Outcome, FP!Outcome, F!problem, FP!problem, F!traceVars, FP!traceVars

\* ... walks the path, ...
LEMMA SameReconstruction ==
  F!WalkParents \/ F!StartAgain \/ F!PopAgain => FP!WalkParents \/ FP!StartAgain \/ FP!PopAgain
BY DEF F!WalkParents, FP!WalkParents, F!StartAgain, FP!StartAgain, F!PopAgain, FP!PopAgain, F!Pop,
   FP!Pop, F!Panic, FP!Panic, F!NoParent, FP!NoParent, F!Reached, FP!Reached, F!NoBound, FP!NoBound,
   F!Outcome, FP!Outcome, F!problem, FP!problem, F!traceVars, FP!traceVars

\* ... rediscovers ...
LEMMA SameRediscover ==
  ASSUME NEW s, NEW d, F!Rediscover(s, d)
  PROVE  FP!Rediscover(s, d)
BY DEF F!Rediscover, FP!Rediscover, F!LooksSeen, FP!LooksSeen, F!Range, FP!Range, F!Counterexample,
   FP!Counterexample, F!Outcome, FP!Outcome, F!problem, FP!problem

\* ... and returns.
LEMMA SameNext == F!Next => FP!Next
<1>1. F!RediscoverInitial \/ F!RediscoverSuccessor => FP!RediscoverInitial \/ FP!RediscoverSuccessor
  BY SameRediscover DEF F!RediscoverInitial, FP!RediscoverInitial, F!RediscoverSuccessor,
     FP!RediscoverSuccessor
<1>2. F!Returned => FP!Returned
  BY DEF F!Returned, FP!Returned, F!vars, FP!vars, F!problem, FP!problem, F!traceVars, FP!traceVars
<1>3. QED
  BY <1>1, <1>2, SameSkip, SameStart, SameAdmission, SameSearch, SameReconstruction DEF F!Next, FP!Next

-----------------------------------------------------------------------------
(***************************************************************************)
(* What is true of a program is so for check_fp, for check_parallel and    *)
(* for the promise: the operators of SearchProblem are the same to them.   *)
(***************************************************************************)
LEMMA SameFpLayers ==
  ASSUME NEW m, NEW n
  PROVE  FP!Layer(m, n) = Layer(m, n)
<1>1. FP!Layers(m) = Layers(m)
  BY DEF FP!Layers, Layers, FP!Image, Image, FP!Range, Range
<1>2. QED
  BY <1>1 DEF FP!Layer, Layer

\* The numbers of a Pass are judged alike.
LEMMA SameFpPass ==
  ASSUME NEW m, NEW c, NEW states, NEW deepest, PassIsExactOf(m, c, states, deepest)
  PROVE  FP!PassIsExactOf(m, c, states, deepest)
<1>1. \A n : FP!InScope(c, n) <=> InScope(c, n)
  BY DEF FP!InScope, InScope, FP!NoBound, NoBound
<1>2. \A n : (FP!HoldsAt(m, n) <=> HoldsAt(m, n)) /\ (FP!ExpandsAt(m, c, n) <=> ExpandsAt(m, c, n))
  BY SameFpLayers DEF FP!HoldsAt, HoldsAt, FP!ExpandsAt, ExpandsAt
<1>3. FP!ReachableIn(m, c) = ReachableIn(m, c)
  BY <1>1, SameFpLayers DEF FP!ReachableIn, ReachableIn
<1>4. \A n : FP!Nearby(m, n) = Nearby(m, n)
  BY SameFpLayers DEF FP!Nearby, Nearby
<1>5. \A S : FP!IsFiniteSet(S) <=> IsFiniteSet(S)
  BY DEF FP!IsFiniteSet, IsFiniteSet
<1>6. \A S : FP!Cardinality(S) = Cardinality(S)
  BY DEF FP!Cardinality, Cardinality
<1>7. QED
  BY <1>1, <1>2, <1>3, <1>4, <1>5, <1>6 DEF FP!PassIsExactOf, PassIsExactOf

\* What check_parallel reports is true for check_fp too.
LEMMA ResultTellsToo ==
  ASSUME NEW m, NEW c, NEW r, r.kind \in {"pass", "incomplete"}, Tells(m, c, ReportOf(r))
  PROVE  FP!Tells(m, c, ReportOf(r))
<1>1. CASE r.kind = "incomplete"
  <2>1. Reached(c.maxStates, r.states) /\ ReportOf(r) = IncompleteOf(r.states)
        /\ ReportOf(r).states = r.states /\ ReportOf(r).kind = "incomplete"
    BY <1>1 DEF Tells, TracedOf, ReportOf, IncompleteOf, PassOf, Counterexample, Outcome
  <2>2. QED
    BY <2>1 DEF FP!Tells, FP!IncompleteOf, IncompleteOf, FP!Outcome, Outcome, FP!Reached, Reached,
       FP!NoBound, NoBound
<1>2. CASE r.kind = "pass"
  <2>1. /\ ReportOf(r) = PassOf(r.states, r.maxDepth)
        /\ ReportOf(r).states = r.states /\ ReportOf(r).maxDepth = r.maxDepth
        /\ ReportOf(r).kind = "pass"
    BY <1>2 DEF ReportOf, PassOf, Outcome
  <2> DEFINE o == ReportOf(r)
  <2> HIDE DEF o
  <2>2. ~ m.initError /\ r.maxDepth \in Nat /\ PassIsExactOf(m, c, r.states, r.maxDepth)
    <3>1. Tells(m, c, o) /\ o.kind = "pass" /\ o.states = r.states /\ o.maxDepth = r.maxDepth
      BY <2>1 DEF o
    <3>2. ~ (o = IncompleteOf(o.states)) /\ ~ (o = Counterexample("error", << >>))
      BY <3>1 DEF IncompleteOf, Counterexample, Outcome
    <3>3. ~ TracedOf(m, c, o)
      BY <3>1 DEF TracedOf, Counterexample, Outcome
    <3>4. QED
      BY <3>1, <3>2, <3>3 DEF Tells
  <2>3. ReportOf(r) = FP!PassOf(r.states, r.maxDepth)
    BY <2>1 DEF FP!PassOf, PassOf, FP!Outcome, Outcome
  <2>4. QED
    BY <2>1, <2>2, <2>3, SameFpPass DEF FP!Tells
<1>3. QED
  BY <1>1, <1>2

\* Traces and layers are judged alike.
LEMMA SamePromise ==
  ASSUME NEW m, NEW c
  PROVE  /\ \A n : FP!InScope(c, n) <=> Promise!InScope(c, n)
         /\ \A n : FP!HoldsAt(m, n) <=> Promise!HoldsAt(m, n)
         /\ \A n : FP!ExpandsAt(m, c, n) <=> Promise!ExpandsAt(m, c, n)
         /\ \A t : FP!IsTrace(m, t) <=> Promise!IsTrace(m, t)
         /\ \A t : FP!Final(t) = Promise!Final(t)
         /\ \A kind, s, n : FP!Justified(m, c, kind, s, n) => Promise!Justified(m, c, kind, s, n)
<1>1. \A n : FP!Layer(m, n) = Promise!Layer(m, n)
  <2>1. FP!Layers(m) = Promise!Layers(m)
    BY DEF FP!Layers, Promise!Layers, FP!Image, Promise!Image, FP!Range, Promise!Range
  <2>2. QED
    BY <2>1 DEF FP!Layer, Promise!Layer
<1>2. \A n : FP!InScope(c, n) <=> Promise!InScope(c, n)
  BY DEF FP!InScope, Promise!InScope, FP!NoBound, Promise!NoBound
<1>3. \A n : /\ FP!HoldsAt(m, n) <=> Promise!HoldsAt(m, n)
             /\ FP!ExpandsAt(m, c, n) <=> Promise!ExpandsAt(m, c, n)
  BY <1>1 DEF FP!HoldsAt, Promise!HoldsAt, FP!ExpandsAt, Promise!ExpandsAt
<1>4. \A t : (FP!IsTrace(m, t) <=> Promise!IsTrace(m, t)) /\ FP!Final(t) = Promise!Final(t)
  BY DEF FP!IsTrace, Promise!IsTrace, FP!Range, Promise!Range, FP!Final, Promise!Final
<1>5. \A kind, s : FP!Culprit(m, c, kind, s) <=> Promise!Culprit(m, c, kind, s)
  BY DEF FP!Culprit, Promise!Culprit
<1>6. \A n : FP!NothingBefore(m, c, n) <=> Promise!NothingBefore(m, c, n)
  BY <1>3 DEF FP!NothingBefore, Promise!NothingBefore
<1>7. \A kind, s, n : FP!Justified(m, c, kind, s, n) => Promise!Justified(m, c, kind, s, n)
  BY <1>2, <1>5, <1>6 DEF FP!Justified, Promise!Justified
<1>8. QED
  BY <1>2, <1>3, <1>4, <1>7

\* What is true is what was promised.
LEMMA TellsIsTruthful ==
  ASSUME NEW m, NEW c, NEW o, FP!Tells(m, c, o)
  PROVE  Promise!Truthful(m, c, o) /\ o.kind # "running"
<1>1. CASE o = FP!IncompleteOf(o.states) /\ FP!Reached(c.maxStates, o.states)
  BY <1>1 DEF FP!IncompleteOf, FP!Outcome, FP!Reached, FP!NoBound, Promise!Truthful,
     Promise!Reached, Promise!NoBound
<1>2. CASE m.initError /\ o = FP!Counterexample("error", << >>)
  BY <1>2 DEF FP!Counterexample, FP!Outcome, Promise!Truthful, Promise!CounterexampleIsTrue
<1>3. CASE ~ m.initError /\ o = FP!PassOf(o.states, o.maxDepth)
           /\ FP!PassIsExactOf(m, c, o.states, o.maxDepth)
  <2>1. o.kind = "pass"
    BY <1>3 DEF FP!PassOf, FP!Outcome
  <2>2. \A n \in 0 .. Horizon : n \in Nat
    BY SearchAssumption
  <2>3. Promise!PassIsTrue(m, c)
    BY <1>3, <2>2, SamePromise DEF FP!PassIsExactOf, Promise!PassIsTrue
  <2>4. QED
    BY <2>1, <2>3 DEF Promise!Truthful
<1>4. CASE FP!TracedOf(m, c, o)
  <2>1. PICK kind \in {"violation", "deadlock", "error"}, t \in Seq(States) :
          /\ o = FP!Counterexample(kind, t)
          /\ FP!IsTrace(m, t)
          /\ FP!Justified(m, c, kind, FP!Final(t), Len(t))
    BY <1>4 DEF FP!TracedOf
  <2>2. o.kind = kind /\ o.trace = t
    BY <2>1 DEF FP!Counterexample, FP!Outcome
  <2>3. Promise!CounterexampleIsTrue(m, c, kind, t)
    BY <2>1, SamePromise DEF Promise!CounterexampleIsTrue
  <2>4. QED
    BY <2>2, <2>3 DEF Promise!Truthful
<1>5. QED
  BY <1>1, <1>2, <1>3, <1>4 DEF FP!Tells

-----------------------------------------------------------------------------
(***************************************************************************)
(* What is known of the search of check_fp that runs, or ran last.         *)
(***************************************************************************)
FpInv == FP!IInv /\ FP!JInv /\ FP!Told

\* Before it starts, be it for the first time or for the second.
LEMMA FpInvInit == FP!Init => FpInv
BY ModelsAreSane, FP!IInvInit, FP!JInvInit, FP!ToldInit DEF FpInv

\* Its steps keep it.
LEMMA FpInvStep == FpInv /\ [FP!Next]_FP!vars => FpInv'
BY ModelsAreSane, FP!IInvStep, FP!JInvStep, FP!ToldStep DEF FpInv

\* A search that is started again is one before its first step.
LEMMA FpInvStart == FP!Init' => FpInv'
BY FpInvInit, PTL

\* The two processes are given the same.
LEMMA SameGiven ==
  ASSUME TypeOK, [Next]_vars
  PROVE  UNCHANGED <<model, cfg, fp>>
<1>1. CASE AdmitInitial
  BY <1>1 DEF AdmitInitial, problem
<1>2. ASSUME NEW w \in Workers, Step(w) PROVE UNCHANGED <<model, cfg, fp>>
  BY <1>2, StepOthers
<1>3. QED
  BY <1>1, <1>2 DEF Next, Coordinate, EnumerateInit, InitDone, Spawn, ReportPass,
                    JoinStopped, JoinLevel, Returned, vars, problem

(***************************************************************************)
(* In the second process check_parallel takes its own steps or none, so    *)
(* that the theorems of the first part are true of it.                     *)
(***************************************************************************)
THEOREM SameParallel == ThreadsSpec => Spec
<1>1. ThreadsInit => Init
  BY DEF ThreadsInit
<1>2. [ThreadsNext]_threadVars => [Next]_vars
  BY DEF ThreadsNext, MainThread, SearchAlone, AloneDone, CoordinateTogether, WorkTogether,
         TogetherDone, Rerun, SearchAgain, AgainDone, BothDone, threadVars, Next
<1>3. QED
  BY <1>1, <1>2, PTL DEF ThreadsSpec, Spec

-----------------------------------------------------------------------------
(***************************************************************************)
(* What the first process reports is an answer of check_fp for the         *)
(* program.  The second searches the program, or the same rearranged; what *)
(* it reports is true, and an answer for the program when it is not        *)
(* rearranged.                                                             *)
(***************************************************************************)
SearchesProgram ==
  /\ Resembles(fmodel)
  /\ phase \in {"single", "parallel"} \/ ~ composite => fmodel = model

Answered == phase # "single" => FP!Answer(model, cfg, fp, single)

Finished ==
  /\ phase # "done" => multi = Running
  /\ phase = "done" /\ IsInjective(fp) =>
       /\ FP!Tells(model, cfg, multi)
       /\ cfg.maxStates = NoBound /\ ~ composite => multi = single

ThreadInv ==
  /\ phase \in {"single", "parallel", "rerun", "done"}
  /\ MetOnce
  /\ SearchesProgram
  /\ Answered
  /\ Finished

ParInv == IInv /\ ExactInv /\ Honest

\* The types are those of the two searches.
LEMMA GivenFacts ==
  ASSUME TypeOK
  PROVE  /\ model \in Models /\ model \in Sane /\ cfg \in Configs
         /\ fp \in Fingerprints /\ fp \in [States -> Nat]
         /\ FP!IsInjective(fp) <=> IsInjective(fp)
BY ModelsAreSane, ParallelAssumption DEF TypeOK, FP!IsInjective, IsInjective

\* A list of the program is without repetition.
LEMMA ListsOnce ==
  ASSUME NEW m \in Models
  PROVE  /\ m.init \in Seq(States) /\ IsInjective(m.init)
         /\ \A s \in States : m.step[s] \in Seq(States) /\ IsInjective(m.step[s])
<1>1. WellFormed(m) /\ m \in ModelType
  BY SearchAssumption
<1>2. QED
  BY <1>1, ModelFacts DEF WellFormed

\* The rearranged program is judged like the program.
LEMMA ToldOfProgram ==
  ASSUME TypeOK, SearchesProgram, FpInv, fpc = "done", IsInjective(fp)
  PROVE  FP!Tells(model, cfg, outcome)
<1>1. FP!Answer(fmodel, cfg, fp, outcome)
  BY DEF FpInv, FP!Told
<1>2. FP!Tells(fmodel, cfg, outcome)
  BY <1>1, GivenFacts, ModelsAreSane, FP!AnswerTells DEF SearchesProgram, Resembles
<1>3. QED
  BY <1>2, GivenFacts, ModelsAreSane, FP!TellsRearranged DEF SearchesProgram, Resembles

\* Nothing is reported at first.
LEMMA ThreadInit ==
  ASSUME ThreadsInit, TypeOK
  PROVE  FpInv /\ ThreadInv
<1>1. fmodel = model /\ phase = "single" /\ multi = Running /\ ids = << >>
  BY DEF ThreadsInit
<1>2. MetOnce
  BY <1>1, EmptyFacts DEF MetOnce, IsInjective
<1>3. FP!Rearranged(model, model)
  BY DEF FP!Rearranged
<1>4. SearchesProgram
  BY <1>1, <1>3, GivenFacts DEF SearchesProgram, Resembles
<1>5. FP!Init
  BY <1>1, GivenFacts DEF ThreadsInit, F!Init, FP!Init, F!Running, FP!Running, F!Outcome, FP!Outcome
<1>6. FpInv
  BY <1>5, FpInvInit
<1>7. QED
  BY <1>1, <1>2, <1>4, <1>6 DEF ThreadInv, Answered, Finished

\* Nothing known changes when nothing is reported and the program stays.
LEMMA StillKnown ==
  ASSUME ThreadInv,
         UNCHANGED <<model, cfg, fp, fmodel, phase, outcomes, ids>>
  PROVE  ThreadInv'
BY DEF ThreadInv, MetOnce, SearchesProgram, Resembles, Answered, Finished, outcomes

\* The search by one thread goes on.
LEMMA AloneStep ==
  ASSUME TypeOK, FpInv, ThreadInv, SearchAlone \/ SearchAgain
  PROVE  FpInv' /\ ThreadInv'
<1>1. FP!Next /\ UNCHANGED <<vars, phase, outcomes, ids>>
  BY SameNext DEF SearchAlone, SearchAgain
<1>2. FpInv'
  BY <1>1, FpInvStep
<1>3. UNCHANGED <<model, cfg, fp>>
  BY <1>1 DEF vars, problem
<1>4. FP!IInv /\ [FP!Next]_FP!vars
  BY <1>1 DEF FpInv
<1>5. fmodel' = fmodel
  BY <1>4, ModelsAreSane, FP!SameProblem DEF FP!IInv
<1>6. QED
  BY <1>1, <1>2, <1>3, <1>5, StillKnown

\* The search has not moved.
LEMMA FpInvStays ==
  ASSUME FpInv, UNCHANGED <<fpSearch, cfg, fp>>
  PROVE  FpInv'
<1>1. UNCHANGED FP!vars
  BY DEF fpSearch, FP!vars, FP!problem, FP!traceVars
<1>2. QED
  BY <1>1, FpInvStep

\* The first process ends.
LEMMA AloneDoneStep ==
  ASSUME TypeOK, FpInv, ThreadInv, AloneDone
  PROVE  FpInv' /\ ThreadInv'
<1>1. /\ phase = "single" /\ fpc = "done" /\ single' = outcome /\ phase' = "parallel"
      /\ UNCHANGED <<model, cfg, fp, fmodel, composite, multi, ids, fpSearch>>
  BY DEF AloneDone, vars, problem, fpSearch
<1>2. FP!Answer(model, cfg, fp, outcome)
  BY <1>1 DEF FpInv, FP!Told, ThreadInv, SearchesProgram
<1>3. Answered'
  BY <1>1, <1>2 DEF Answered
<1>4. MetOnce' /\ SearchesProgram' /\ Finished'
  BY <1>1 DEF ThreadInv, MetOnce, SearchesProgram, Resembles, Finished
<1>5. FpInv'
  BY <1>1, FpInvStays
<1>6. QED
  BY <1>1, <1>3, <1>4, <1>5 DEF ThreadInv

\* The workers meet the initial states and the successors of what they expand.
LEMMA TogetherStep ==
  ASSUME IInv, FpInv, ThreadInv, CoordinateTogether \/ \E w \in Workers : WorkTogether(w)
  PROVE  FpInv' /\ ThreadInv'
<1>0. TypeOK /\ MetOnce
  BY DEF IInv, ThreadInv
<1>1. [Next]_vars /\ UNCHANGED <<fpSearch, phase, outcomes>>
  BY DEF CoordinateTogether, WorkTogether, Next
<1>2. UNCHANGED <<model, cfg, fp>>
  BY <1>0, <1>1, SameGiven
<1>3. model \in Models
  BY <1>0, GivenFacts
<1>4. MetOnce'
  <2>1. CASE UNCHANGED ids
    BY <1>0, <2>1 DEF MetOnce
  <2>2. CASE Meet(model.init)
    BY <1>0, <1>3, <2>2, ListsOnce, MeetOnce
  <2>3. ASSUME NEW w \in Workers, work[w] # << >>, Meet(model.step[Head(work[w])])
        PROVE  MetOnce'
    <3>1. work[w] \in Seq(States)
      BY <1>0 DEF TypeOK
    <3>2. Head(work[w]) \in States
      BY <2>3, <3>1, TailFacts
    <3>3. QED
      BY <1>0, <1>3, <2>3, <3>2, ListsOnce, MeetOnce
  <2>4. QED
    BY <2>1, <2>2, <2>3 DEF CoordinateTogether, WorkTogether
<1>5. SearchesProgram' /\ Answered' /\ Finished' /\ phase' = phase
  BY <1>1, <1>2 DEF ThreadInv, SearchesProgram, Resembles, Answered, Finished, fpSearch, outcomes
<1>6. FpInv'
  BY <1>1, <1>2, FpInvStays
<1>7. QED
  BY <1>4, <1>5, <1>6 DEF ThreadInv

\* check_parallel passes, or gives up at the cap: true, and the first process
\* said the same.
LEMMA TogetherDoneStep ==
  ASSUME IInv, ExactInv, Honest, FpInv, ThreadInv, TogetherDone
  PROVE  FpInv' /\ ThreadInv'
<1>0. TypeOK
  BY DEF IInv
<1>1. /\ phase = "parallel" /\ phase' = "done"
      /\ UNCHANGED <<model, cfg, fp, fmodel, composite, single, ids, fpSearch>>
  BY DEF TogetherDone, vars, problem, fpSearch
<1>2. /\ result.kind \in {"pass", "incomplete"}
      /\ multi' = ReportOf(result)
  BY DEF TogetherDone, ReportOf
<1>3. MetOnce' /\ SearchesProgram' /\ Answered'
  BY <1>1 DEF ThreadInv, MetOnce, SearchesProgram, Resembles, Answered
<1>4. ASSUME IsInjective(fp)
      PROVE  /\ FP!Tells(model, cfg, multi')
             /\ cfg.maxStates = NoBound => multi' = single
  <2>1. FP!Tells(model, cfg, multi')
    BY <1>2, <1>4, ResultTells, ResultTellsToo
  <2>2. ASSUME cfg.maxStates = NoBound PROVE multi' = single
    <3>1. result.kind = "pass"
      BY <1>2, <2>2 DEF Honest, Reached
    <3>2. multi'.kind = "pass"
      BY <1>2, <3>1 DEF ReportOf, PassOf, Outcome
    <3>3. FP!Tells(model, cfg, single)
      BY <1>0, <1>1, <1>4, GivenFacts, ModelsAreSane, FP!AnswerTells DEF ThreadInv, Answered
    <3>4. cfg.maxStates = FP!NoBound
      BY <2>2 DEF FP!NoBound, NoBound
    <3>5. QED
      BY <1>0, <2>1, <3>2, <3>3, <3>4, GivenFacts, ModelsAreSane, FP!PassTellsAll
  <2>3. QED
    BY <2>1, <2>2
<1>5. Finished'
  BY <1>1, <1>4 DEF Finished
<1>6. FpInv'
  BY <1>1, FpInvStays
<1>7. QED
  BY <1>1, <1>3, <1>5, <1>6 DEF ThreadInv

\* The rerun starts with the lists as the process with N threads sorts them.
LEMMA RerunStep ==
  ASSUME IInv, FpInv, ThreadInv, Rerun
  PROVE  FpInv' /\ ThreadInv'
<1>0. TypeOK /\ MetOnce /\ model \in Models
  BY GivenFacts DEF IInv, ThreadInv
<1>1. /\ phase = "parallel" /\ phase' = "rerun" /\ fmodel' = Resorted
      /\ UNCHANGED <<model, cfg, fp, composite, single, multi, ids>>
  BY DEF Rerun, Resorted, vars, problem, outcomes
<1>2. Resembles(Resorted) /\ (~ composite => Resorted = model)
  BY <1>0, ResortedFacts
<1>3. SearchesProgram'
  BY <1>1, <1>2 DEF SearchesProgram, Resembles
<1>4. MetOnce' /\ Answered' /\ Finished'
  BY <1>1 DEF ThreadInv, MetOnce, Answered, Finished
<1>5. FP!Init'
  <2>1. fmodel' \in Sane /\ cfg' \in Configs /\ fp' \in Fingerprints
    BY <1>0, <1>1, <1>2, GivenFacts DEF Resembles
  <2>2. outcome' = FP!Running
    BY DEF Rerun, FP!Running, Running, FP!Outcome, Outcome
  <2>3. QED
    BY <2>1, <2>2 DEF Rerun, FP!Init
<1>6. FpInv'
  BY <1>5, FpInvStart
<1>7. QED
  BY <1>1, <1>3, <1>4, <1>6 DEF ThreadInv

\* The rerun ends: two answers for one program are equal.
LEMMA AgainDoneStep ==
  ASSUME TypeOK, FpInv, ThreadInv, AgainDone
  PROVE  FpInv' /\ ThreadInv'
<1>1. /\ phase = "rerun" /\ fpc = "done" /\ multi' = outcome /\ phase' = "done"
      /\ UNCHANGED <<model, cfg, fp, fmodel, composite, single, ids, fpSearch>>
  BY DEF AgainDone, vars, problem, fpSearch
<1>2. MetOnce' /\ SearchesProgram' /\ Answered'
  BY <1>1 DEF ThreadInv, MetOnce, SearchesProgram, Resembles, Answered
<1>3. ASSUME IsInjective(fp) PROVE FP!Tells(model, cfg, multi')
  BY <1>1, <1>3, ToldOfProgram DEF ThreadInv
<1>4. ASSUME cfg.maxStates = NoBound, ~ composite PROVE multi' = single
  <2>1. FP!Answer(model, cfg, fp, outcome)
    BY <1>1, <1>4 DEF FpInv, FP!Told, ThreadInv, SearchesProgram
  <2>2. FP!Answer(model, cfg, fp, single)
    BY <1>1 DEF ThreadInv, Answered
  <2>3. cfg.maxStates = FP!NoBound
    BY <1>4 DEF FP!NoBound, NoBound
  <2>4. QED
    BY <1>1, <2>1, <2>2, <2>3, GivenFacts, ModelsAreSane, FP!AnswersAgree
<1>5. Finished'
  BY <1>1, <1>3, <1>4 DEF Finished
<1>6. FpInv'
  BY <1>1, FpInvStays
<1>7. QED
  BY <1>1, <1>2, <1>5, <1>6 DEF ThreadInv

\* Every step keeps the invariant.
LEMMA ThreadStep ==
  ASSUME ParInv, FpInv, ThreadInv, [ThreadsNext]_threadVars
  PROVE  FpInv' /\ ThreadInv'
<1>0. IInv /\ ExactInv /\ Honest /\ TypeOK
  BY DEF ParInv, IInv
<1>1. CASE SearchAlone \/ SearchAgain
  BY <1>0, <1>1, AloneStep
<1>2. CASE AloneDone
  BY <1>0, <1>2, AloneDoneStep
<1>3. CASE CoordinateTogether \/ \E w \in Workers : WorkTogether(w)
  BY <1>0, <1>3, TogetherStep
<1>4. CASE TogetherDone
  BY <1>0, <1>4, TogetherDoneStep
<1>5. CASE Rerun
  BY <1>0, <1>5, RerunStep
<1>6. CASE AgainDone
  BY <1>0, <1>6, AgainDoneStep
<1>7. CASE UNCHANGED threadVars
  <2>1. UNCHANGED <<model, cfg, fp, fmodel, phase, outcomes, ids, fpSearch>>
    BY <1>7 DEF threadVars, vars, problem, fpSearch
  <2>2. QED
    BY <2>1, StillKnown, FpInvStays
<1>8. QED
  BY <1>1, <1>2, <1>3, <1>4, <1>5, <1>6, <1>7 DEF ThreadsNext, MainThread, BothDone

\* The inductive invariant of both processes.
LEMMA ThreadInductive == ThreadsSpec => [](ParInv /\ FpInv /\ ThreadInv)
<1>1. ThreadsSpec => []ParInv
  <2>1. Init => Honest
    BY DEF Init, Honest, Result
  <2>2. ASSUME IInv, ExactInv, Honest, [Next]_vars PROVE Honest'
    BY <2>2, HonestStep DEF IInv
  <2>3. Spec => []Honest
    BY <2>1, <2>2, ExactInductive, PTL DEF Spec
  <2>4. IInv /\ ExactInv /\ Honest => ParInv
    BY DEF ParInv
  <2>5. QED
    BY <2>3, <2>4, SameParallel, ExactInductive, PTL
<1>2. ThreadsInit /\ ParInv => FpInv /\ ThreadInv
  BY ThreadInit DEF ParInv, IInv
<1>3. ParInv /\ FpInv /\ ThreadInv /\ [ThreadsNext]_threadVars => FpInv' /\ ThreadInv'
  BY ThreadStep
<1>4. QED
  BY <1>1, <1>2, <1>3, PTL DEF ThreadsSpec

(***************************************************************************)
(* The variables of both engines keep their types, in the rerun too: the   *)
(* reconstruction of a trace neither runs out of states nor meets an error *)
(* in the program as the second process sorts it.                          *)
(***************************************************************************)
THEOREM TypesAlways == ThreadsSpec => [](TypeOK /\ FP!TypeOK)
<1>1. ParInv /\ FpInv => TypeOK /\ FP!TypeOK
  BY DEF ParInv, IInv, FpInv, FP!IInv
<1>2. QED
  BY <1>1, ThreadInductive, PTL

(***************************************************************************)
(* "Results are independent of the thread count": for states of fixed      *)
(* value ids that do not collide and no state cap, N threads report what   *)
(* one does, to the states of the trace, whatever the schedule.            *)
(***************************************************************************)
THEOREM SameReportAlways == ThreadsSpec => []SameReport
<1>1. ThreadInv => SameReport
  BY DEF ThreadInv, Finished, SameReport, Exhaustive
<1>2. QED
  BY <1>1, ThreadInductive, PTL

(***************************************************************************)
(* If either passes both do, and with the same numbers, also when workers  *)
(* race for value ids.                                                     *)
(***************************************************************************)
THEOREM SameVerdictOnPassAlways == ThreadsSpec => []SameVerdictOnPass
<1>1. ASSUME ParInv, ThreadInv PROVE SameVerdictOnPass
  <2>1. SUFFICES ASSUME phase = "done", IsInjective(fp), cfg.maxStates = NoBound,
                        single.kind = "pass" \/ multi.kind = "pass"
                 PROVE  multi = single
    BY DEF SameVerdictOnPass, Exhaustive
  <2>2. TypeOK
    BY <1>1 DEF ParInv, IInv
  <2>3. FP!Tells(model, cfg, multi)
    BY <1>1, <2>1 DEF ThreadInv, Finished
  <2>4. FP!Tells(model, cfg, single)
    BY <1>1, <2>1, <2>2, GivenFacts, ModelsAreSane, FP!AnswerTells DEF ThreadInv, Answered
  <2>5. cfg.maxStates = FP!NoBound
    BY <2>1 DEF FP!NoBound, NoBound
  <2>6. QED
    BY <2>1, <2>2, <2>3, <2>4, <2>5, GivenFacts, ModelsAreSane, FP!PassTellsAll
<1>2. QED
  BY <1>1, ThreadInductive, PTL

(***************************************************************************)
(* What the second process reports keeps the promise of the three search   *)
(* engines, unless states collide: dispatch and rerun add no false report, *)
(* and the counterexample is a shortest one although the rerun searches in *)
(* another order.                                                          *)
(***************************************************************************)
THEOREM ThreadsRefinement == ThreadsSpec => KeepsPromise
<1>1. ThreadsInit => Promise!Init
  BY DEF ThreadsInit, Init, Promise!Init, Promise!Running, Running, Promise!Outcome, Outcome
<1>2. ASSUME ParInv, ThreadInv, ThreadInv', [ThreadsNext]_threadVars
      PROVE  [Promise!Report]_(Promise!promiseVars)
  <2>1. UNCHANGED <<model, cfg, fp>>
    <3>1. TypeOK /\ [Next]_vars
      BY <1>2 DEF ParInv, IInv, ThreadsNext, MainThread, SearchAlone, AloneDone,
         CoordinateTogether, WorkTogether, TogetherDone, Rerun, SearchAgain, AgainDone, BothDone,
         threadVars, Next
    <3>2. QED
      BY <3>1, SameGiven
  <2>2. CASE phase = "done"
    <3>1. multi' = multi
      BY <1>2, <2>2 DEF ThreadsNext, MainThread, SearchAlone, AloneDone, CoordinateTogether,
         WorkTogether, TogetherDone, Rerun, SearchAgain, AgainDone, BothDone, threadVars, outcomes
    <3>2. QED
      BY <2>1, <3>1 DEF Promise!promiseVars
  <2>3. CASE phase # "done" /\ phase' # "done"
    <3>1. multi = Running /\ multi' = Running
      BY <1>2, <2>3 DEF ThreadInv, Finished
    <3>2. QED
      BY <2>1, <3>1 DEF Promise!promiseVars
  <2>4. CASE phase # "done" /\ phase' = "done" /\ ~ IsInjective(fp)
    BY <2>1, <2>4 DEF Promise!promiseVars
  <2>5. CASE phase # "done" /\ phase' = "done" /\ IsInjective(fp)
    <3>1. multi.kind = "running"
      BY <1>2, <2>5 DEF ThreadInv, Finished, Running, Outcome
    <3>2. FP!Tells(model, cfg, multi')
      BY <1>2, <2>1, <2>5 DEF ThreadInv, Finished
    <3>3. Promise!Truthful(model, cfg, multi') /\ multi'.kind # "running"
      BY <3>2, TellsIsTruthful
    <3>4. QED
      BY <2>1, <2>5, <3>1, <3>3 DEF Promise!Report
  <2>6. QED
    BY <2>2, <2>3, <2>4, <2>5
<1>3. QED
  BY <1>1, <1>2, ThreadInductive, PTL DEF ThreadsSpec, KeepsPromise, Promise!Spec

=============================================================================
