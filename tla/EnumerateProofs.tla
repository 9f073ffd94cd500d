--------------------------- MODULE EnumerateProofs ---------------------------
(***************************************************************************)
(* The walk of Enumerate over a choice tree, for every finite tree: replay *)
(* meets what was recorded, the paths are visited depth first and each     *)
(* once, and when the walk ends none has been omitted.                     *)
(***************************************************************************)
EXTENDS Enumerate, ProofFacts, FiniteSetTheorems

(***************************************************************************)
(* What IsTree says of the tree under evaluation.                          *)
(***************************************************************************)
LEMMA TreeFacts ==
  ASSUME TypeOK
  PROVE  /\ IsFiniteSet(DOMAIN tree)
         /\ << >> \in DOMAIN tree
         /\ \A p \in DOMAIN tree :
              /\ p \in Paths
              /\ tree[p].bound \in Nat
              /\ tree[p].end \in Ends
              /\ \A i \in 0 .. tree[p].bound - 1 : Append(p, i) \in DOMAIN tree
BY DEF TypeOK, IsTree, Node

(***************************************************************************)
(* The entries of a well-typed trail.                                      *)
(***************************************************************************)
LEMMA TrailFacts ==
  ASSUME TypeOK
  PROVE  /\ Len(trail) \in Nat
         /\ DOMAIN trail = 1 .. Len(trail)
         /\ \A k \in DOMAIN trail : trail[k].bound \in Nat /\ trail[k].chosen \in Nat
         /\ cursor \in Nat
         /\ runs \in Nat
<1>1. trail \in Seq(ChoicePoint) /\ cursor \in Nat /\ runs \in Nat
  BY DEF TypeOK
<1>2. \A k \in 1 .. Len(trail) : trail[k] \in ChoicePoint
  BY <1>1
<1>3. \A k \in 1 .. Len(trail) : trail[k].bound \in Nat /\ trail[k].chosen \in Nat
  <2> SUFFICES ASSUME NEW k \in 1 .. Len(trail)
               PROVE  trail[k].bound \in Nat /\ trail[k].chosen \in Nat
    OBVIOUS
  <2>1. trail[k] \in ChoicePoint
    BY <1>2
  <2>2. QED
    BY <2>1 DEF ChoicePoint
<1>4. Len(trail) \in Nat /\ DOMAIN trail = 1 .. Len(trail)
  BY <1>1
<1>5. QED
  BY <1>1, <1>3, <1>4

(***************************************************************************)
(* The first n choices of the trail, as a path.                            *)
(***************************************************************************)
LEMMA ChosenFacts ==
  ASSUME TypeOK, NEW n \in 0 .. Len(trail)
  PROVE  /\ Chosen(trail, n) \in Seq(Nat)
         /\ Len(Chosen(trail, n)) = n
         /\ \A k \in 1 .. n : Chosen(trail, n)[k] = trail[k].chosen
         /\ \A k \in 1 .. n : SubSeq(Chosen(trail, n), 1, k - 1) = Chosen(trail, k - 1)
         /\ Chosen(trail, 0) = << >>
         /\ n + 1 \in DOMAIN trail => Append(Chosen(trail, n), trail[n + 1].chosen) = Chosen(trail, n + 1)
<1>1. /\ Len(trail) \in Nat /\ DOMAIN trail = 1 .. Len(trail)
      /\ \A k \in DOMAIN trail : trail[k].chosen \in Nat
  BY TrailFacts
<1>2. \A m \in 0 .. Len(trail) :
        /\ Chosen(trail, m) \in Seq(Nat)
        /\ Len(Chosen(trail, m)) = m
        /\ \A k \in 1 .. m : Chosen(trail, m)[k] = trail[k].chosen
  BY <1>1 DEF Chosen
<1>3. ASSUME NEW k \in 1 .. n PROVE SubSeq(Chosen(trail, n), 1, k - 1) = Chosen(trail, k - 1)
  BY <1>1, <1>2 DEF Chosen
<1>4. Chosen(trail, 0) = << >>
  BY <1>1 DEF Chosen
<1>5. n + 1 \in DOMAIN trail => Append(Chosen(trail, n), trail[n + 1].chosen) = Chosen(trail, n + 1)
  BY <1>1, <1>2 DEF Chosen
<1>6. QED
  BY <1>2, <1>3, <1>4, <1>5

\* Paths begin empty and grow by one choice.
LEMMA PathFacts ==
  /\ << >> \in Paths
  /\ \A p \in Paths, i \in Nat : Append(p, i) \in Paths
BY DEF Paths

-----------------------------------------------------------------------------
(***************************************************************************)
(* Type correctness, and the trail as a path.                              *)
(***************************************************************************)
LEMMA TypeInit == Init => TypeOK
BY EnumerateAssumption DEF Init, TypeOK, Paths

(***************************************************************************)
(* What Choose and Advance make of the trail.                              *)
(***************************************************************************)
LEMMA ChooseFacts ==
  ASSUME TypeOK, RunFollowsTrail, Choose
  PROVE  /\ trail' \in Seq(ChoicePoint)
         /\ cursor + 1 \in 1 .. Len(trail')
         /\ \A k \in 1 .. Len(trail) : trail'[k] = trail[k]
         /\ Recorded => trail' = trail
         /\ ~ Recorded =>
              /\ cursor = Len(trail)
              /\ Len(trail') = Len(trail) + 1
              /\ trail'[cursor + 1] = [bound |-> tree[at].bound, chosen |-> 0]
<1>1. /\ at \in DOMAIN tree /\ tree[at].bound \in Nat
      /\ cursor \in Nat /\ cursor <= Len(trail)
      /\ trail \in Seq(ChoicePoint) /\ Len(trail) \in Nat
  BY TreeFacts, TrailFacts DEF Choose, RunFollowsTrail, TypeOK
<1>2. PICK fresh \in ChoicePoint : fresh = [bound |-> tree[at].bound, chosen |-> 0]
  BY <1>1 DEF ChoicePoint
<1>3. CASE Recorded
  BY <1>1, <1>3 DEF Choose, Recorded
<1>4. CASE ~ Recorded
  <2>1. cursor = Len(trail) /\ trail' = Append(trail, fresh)
    BY <1>1, <1>2, <1>4 DEF Choose, Recorded
  <2>2. QED
    BY <1>1, <1>2, <1>4, <2>1, AppendFacts
<1>5. QED
  BY <1>3, <1>4

\* A choice point that takes its next alternative is one still.
LEMMA NextAlternative ==
  ASSUME NEW c \in ChoicePoint
  PROVE  /\ [c EXCEPT !.chosen = c.chosen + 1] \in ChoicePoint
         /\ [c EXCEPT !.chosen = c.chosen + 1].chosen = c.chosen + 1
         /\ [c EXCEPT !.chosen = c.chosen + 1].bound = c.bound
BY DEF ChoicePoint

\* Advancing cuts the trail behind the last choice that can, which takes its next.
LEMMA AdvanceFacts ==
  ASSUME TypeOK, RunFollowsTrail, Advance
  PROVE  /\ trail' \in Seq(ChoicePoint)
         /\ \E k \in 1 .. Len(trail) :
              /\ CanAdvance(k)
              /\ \A j \in k + 1 .. Len(trail) : ~ CanAdvance(j)
              /\ Len(trail') = k
              /\ trail'[k].chosen = trail[k].chosen + 1
              /\ trail'[k].bound = trail[k].bound
              /\ \A j \in 1 .. k - 1 : trail'[j] = trail[j]
<1>1. cursor = Len(trail) /\ Len(trail) \in Nat /\ trail \in Seq(ChoicePoint)
  BY TrailFacts DEF Advance, RunFollowsTrail, TypeOK
<1>2. Visited = Len(trail)
  BY <1>1 DEF Visited
<1>3. PICK k \in 1 .. Len(trail) :
        /\ CanAdvance(k)
        /\ \A j \in k + 1 .. Len(trail) : ~ CanAdvance(j)
        /\ trail' = [SubSeq(trail, 1, k) EXCEPT ![k].chosen = @ + 1]
  BY <1>2 DEF Advance
<1>4. k \in 0 .. Len(trail)
  BY <1>1
<1>5. PICK prefix \in Seq(ChoicePoint) :
        /\ prefix = SubSeq(trail, 1, k)
        /\ Len(prefix) = k
        /\ \A j \in 1 .. k : prefix[j] = trail[j]
  <2>1. PICK prefix : prefix = SubSeq(trail, 1, k)
    OBVIOUS
  <2>2. prefix \in Seq(ChoicePoint) /\ Len(prefix) = k /\ \A j \in 1 .. k : prefix[j] = trail[j]
    BY <1>1, <1>4, <2>1, PrefixFacts
  <2>3. QED
    BY <2>1, <2>2
<1>6. k \in 1 .. Len(prefix) /\ prefix[k] = trail[k] /\ prefix[k] \in ChoicePoint
  BY <1>1, <1>5, ElementFacts
<1>7. PICK next \in ChoicePoint :
        /\ next = [prefix[k] EXCEPT !.chosen = @ + 1]
        /\ next.chosen = trail[k].chosen + 1
        /\ next.bound = trail[k].bound
  BY <1>6, NextAlternative
<1>8. trail' = [prefix EXCEPT ![k] = next]
  BY <1>3, <1>5, <1>7
<1>9. PICK new \in Seq(ChoicePoint) :
        /\ new = [prefix EXCEPT ![k] = next] /\ Len(new) = k /\ new[k] = next
        /\ \A j \in 1 .. k : j # k => new[j] = prefix[j]
  <2>1. PICK new : new = [prefix EXCEPT ![k] = next]
    OBVIOUS
  <2>2. new \in Seq(ChoicePoint) /\ Len(new) = Len(prefix)
    BY <1>6, <2>1, ExceptFacts
  <2>3. new[k] = next
    BY <1>6, <2>1, ExceptFacts
  <2>4. \A j \in 1 .. Len(prefix) : j # k => new[j] = prefix[j]
    BY <1>6, <2>1, ExceptFacts
  <2>5. QED
    BY <1>5, <2>1, <2>2, <2>3, <2>4
<1>10. \A j \in 1 .. k - 1 : new[j] = trail[j]
  BY <1>5, <1>9
<1>11. /\ trail' \in Seq(ChoicePoint) /\ Len(trail') = k
       /\ trail'[k].chosen = trail[k].chosen + 1 /\ trail'[k].bound = trail[k].bound
       /\ \A j \in 1 .. k - 1 : trail'[j] = trail[j]
  BY <1>7, <1>8, <1>9, <1>10
<1>12. QED
  BY <1>3, <1>11

\* Every step keeps the types.
LEMMA TypeStep ==
  ASSUME TypeOK, RunFollowsTrail, [Next]_vars
  PROVE  TypeOK'
<1>1. CASE StartRun
  <2>1. outcome' \in {"running", "ok", "too many", "error"} /\ pc' \in {"run", "done"}
    BY <1>1 DEF StartRun, TypeOK
  <2>2. at' \in Paths
    BY <1>1, PathFacts DEF StartRun
  <2>3. tree' = tree /\ trail' = trail /\ cursor' = cursor /\ out' = out /\ runs' = runs + 1
    BY <1>1 DEF StartRun
  <2>4. runs' \in Nat
    BY <2>3, TrailFacts
  <2>5. pc' \in {"start", "run", "advance", "done"}
    BY <2>1
  <2>6. QED
    BY <2>1, <2>2, <2>3, <2>4, <2>5 DEF TypeOK
<1>2. CASE Choose
  <2>1. PICK new \in Seq(ChoicePoint) : new = trail' /\ cursor + 1 \in 1 .. Len(new)
    BY <1>2, ChooseFacts
  <2>2. new[cursor + 1] \in ChoicePoint
    BY <2>1, ElementFacts
  <2>3. new[cursor + 1].chosen \in Nat
    BY <2>2 DEF ChoicePoint
  <2>4. at' \in Paths
    <3>1. at \in Paths
      BY DEF TypeOK
    <3>2. at' = Append(at, new[cursor + 1].chosen)
      BY <1>2, <2>1 DEF Choose
    <3>3. QED
      BY <2>3, <3>1, <3>2, PathFacts
  <2>5. /\ tree' = tree /\ pc' = pc /\ runs' = runs /\ out' = out /\ outcome' = outcome
        /\ cursor' \in Nat
    BY <1>2, TrailFacts DEF Choose
  <2>6. QED
    BY <2>1, <2>4, <2>5 DEF TypeOK
<1>3. CASE EndRun
  <2>1. out' \in Seq(Paths)
    BY <1>3, AppendFacts DEF EndRun, TypeOK
  <2>2. QED
    BY <1>3, <2>1 DEF EndRun, TypeOK
<1>4. CASE Advance
  BY <1>4, AdvanceFacts DEF Advance, TypeOK
<1>5. CASE Exhausted
  BY <1>5, EmptyFacts DEF Exhausted, TypeOK
<1>6. CASE Returned \/ UNCHANGED vars
  BY <1>6 DEF Returned, vars, TypeOK
<1>7. QED
  BY <1>1, <1>2, <1>3, <1>4, <1>5, <1>6 DEF Next

(***************************************************************************)
(* As long as the choices of the trail are the same, so are its prefixes.  *)
(***************************************************************************)
LEMMA SameChosen ==
  ASSUME NEW n \in Nat, NEW t, NEW u, \A k \in 1 .. n : t[k] = u[k]
  PROVE  Chosen(t, n) = Chosen(u, n)
BY DEF Chosen

\* Every step leaves the trail a path of the tree.
LEMMA TrailStep ==
  ASSUME TypeOK, TypeOK', TrailIsPath, RunFollowsTrail, [Next]_vars
  PROVE  TrailIsPath'
<1>1. CASE UNCHANGED <<tree, trail>>
  BY <1>1 DEF TrailIsPath, Chosen
<1>2. CASE Choose
  <2>1. tree' = tree /\ at \in DOMAIN tree /\ tree[at].bound > 0 /\ at = Chosen(trail, cursor)
    BY <1>2 DEF Choose, RunFollowsTrail
  <2>2. CASE Recorded
    BY <1>1, <1>2, <2>1, <2>2, ChooseFacts
  <2>3. CASE ~ Recorded
    <3>1. /\ cursor = Len(trail) /\ Len(trail) \in Nat
          /\ \A k \in 1 .. Len(trail) : trail'[k] = trail[k]
          /\ trail'[cursor + 1].bound = tree[at].bound /\ trail'[cursor + 1].chosen = 0
          /\ DOMAIN trail = 1 .. Len(trail) /\ DOMAIN trail' = 1 .. Len(trail) + 1
      BY <1>2, <2>3, ChooseFacts, TrailFacts
    <3>2. ASSUME NEW k \in 1 .. Len(trail) + 1
          PROVE  k - 1 \in Nat /\ Chosen(trail', k - 1) = Chosen(trail, k - 1)
      <4>1. k - 1 \in Nat /\ \A i \in 1 .. k - 1 : trail'[i] = trail[i]
        BY <3>1
      <4>2. QED
        BY <4>1, SameChosen
    <3>3. ASSUME NEW k \in 1 .. Len(trail)
          PROVE  /\ trail'[k].chosen < trail'[k].bound
                 /\ Chosen(trail', k - 1) \in DOMAIN tree
                 /\ tree[Chosen(trail', k - 1)].bound = trail'[k].bound
      <4>1. k \in DOMAIN trail /\ k \in 1 .. Len(trail) + 1
        BY <3>1
      <4>2. trail'[k] = trail[k] /\ Chosen(trail', k - 1) = Chosen(trail, k - 1)
        BY <3>1, <3>2, <4>1
      <4>3. QED
        BY <4>1, <4>2 DEF TrailIsPath
    <3>4. /\ trail'[cursor + 1].chosen < trail'[cursor + 1].bound
          /\ (cursor + 1) - 1 = cursor
          /\ Chosen(trail', cursor) = at
      <4>1. cursor \in Nat /\ \A i \in 1 .. cursor : trail'[i] = trail[i]
        BY <3>1
      <4>2. Chosen(trail', cursor) = at
        BY <2>1, <4>1, SameChosen
      <4>3. (cursor + 1) - 1 = cursor /\ 0 < tree[at].bound
        BY <2>1, <4>1
      <4>4. QED
        BY <3>1, <4>2, <4>3
    <3>5. ASSUME NEW k \in DOMAIN trail'
          PROVE  /\ trail'[k].chosen < trail'[k].bound
                 /\ Chosen(trail', k - 1) \in DOMAIN tree
                 /\ tree[Chosen(trail', k - 1)].bound = trail'[k].bound
      <4>1. k \in 1 .. Len(trail) \/ k = cursor + 1
        BY <3>1, <3>5
      <4>2. CASE k = cursor + 1
        BY <2>1, <3>1, <3>4, <4>2
      <4>3. QED
        BY <3>3, <4>1, <4>2
    <3>6. QED
      BY <2>1, <3>5 DEF TrailIsPath
  <2>4. QED
    BY <2>2, <2>3
<1>3. CASE Advance
  <2>1. PICK k \in 1 .. Len(trail) :
          /\ CanAdvance(k)
          /\ Len(trail') = k
          /\ trail'[k].chosen = trail[k].chosen + 1
          /\ trail'[k].bound = trail[k].bound
          /\ \A j \in 1 .. k - 1 : trail'[j] = trail[j]
    BY <1>3, AdvanceFacts
  <2>2. /\ Len(trail) \in Nat /\ DOMAIN trail = 1 .. Len(trail)
        /\ DOMAIN trail' = 1 .. k /\ tree' = tree
    <3>1. trail' \in Seq(ChoicePoint)
      BY DEF TypeOK
    <3>2. DOMAIN trail' = 1 .. k
      BY <2>1, <3>1, ElementFacts
    <3>3. QED
      BY <1>3, <3>2, TrailFacts DEF Advance
  <2>3. ASSUME NEW j \in 1 .. k
        PROVE  j \in DOMAIN trail /\ Chosen(trail', j - 1) = Chosen(trail, j - 1)
    <3>1. j \in DOMAIN trail /\ j - 1 \in Nat /\ \A i \in 1 .. j - 1 : trail'[i] = trail[i]
      BY <2>1, <2>2
    <3>2. QED
      BY <3>1, SameChosen
  <2>4. ASSUME NEW j \in 1 .. k
        PROVE  trail'[j].bound = trail[j].bound /\ trail'[j].chosen < trail'[j].bound
    <3>1. CASE j = k
      BY <2>1, <3>1 DEF CanAdvance
    <3>2. CASE j # k
      <4>1. j \in 1 .. k - 1 /\ j \in DOMAIN trail
        BY <2>2, <2>3, <3>2
      <4>2. trail'[j] = trail[j] /\ trail[j].chosen < trail[j].bound
        BY <2>1, <4>1 DEF TrailIsPath
      <4>3. QED
        BY <4>2
    <3>3. QED
      BY <3>1, <3>2
  <2>5. QED
    BY <2>2, <2>3, <2>4 DEF TrailIsPath
<1>4. CASE Exhausted
  BY <1>4 DEF Exhausted, TrailIsPath
<1>5. CASE StartRun \/ EndRun \/ Returned \/ UNCHANGED vars
  BY <1>1, <1>5 DEF StartRun, EndRun, Returned, vars
<1>6. QED
  BY <1>2, <1>3, <1>4, <1>5 DEF Next

(***************************************************************************)
(* The current run follows the trail: what it replays was recorded where   *)
(* it is now, and it ends where the trail does.                            *)
(***************************************************************************)
LEMMA FollowStep ==
  ASSUME TypeOK, TypeOK', TrailIsPath, TrailIsPath', RunFollowsTrail, [Next]_vars
  PROVE  RunFollowsTrail'
<1>1. CASE StartRun
  <2>1. /\ tree' = tree /\ trail' = trail /\ cursor' = 0 /\ at' = << >> /\ pc' \in {"run", "done"}
        /\ outcome' # "running" => pc' = "done"
    BY <1>1 DEF StartRun, RunFollowsTrail
  <2>2. Chosen(trail', 0) = << >> /\ 0 <= Len(trail') /\ << >> \in DOMAIN tree
    BY <2>1, TreeFacts, TrailFacts, ChosenFacts DEF Chosen
  <2>3. QED
    BY <2>1, <2>2 DEF RunFollowsTrail
<1>2. CASE Choose
  <2>1. /\ tree' = tree /\ pc' = "run" /\ cursor' = cursor + 1
        /\ outcome' = outcome /\ outcome = "running"
        /\ at = Chosen(trail, cursor) /\ cursor <= Len(trail) /\ cursor \in Nat
        /\ at' = Append(at, trail'[cursor + 1].chosen)
    BY <1>2, TrailFacts DEF Choose, RunFollowsTrail
  <2>2. /\ cursor + 1 \in 1 .. Len(trail')
        /\ \A k \in 1 .. cursor : trail'[k] = trail[k]
    BY <1>2, <2>1, ChooseFacts, TrailFacts
  <2>3. trail' \in Seq(ChoicePoint) /\ Len(trail') \in Nat /\ DOMAIN trail' = 1 .. Len(trail')
    <3>1. trail' \in Seq(ChoicePoint)
      BY DEF TypeOK
    <3>2. QED
      BY <3>1, ElementFacts
  <2>4. Chosen(trail', cursor) = Chosen(trail, cursor)
    BY <2>1, <2>2, SameChosen
  <2>5. at' = Chosen(trail', cursor + 1)
    <3>1. Append(Chosen(trail', cursor), trail'[cursor + 1].chosen) = Chosen(trail', cursor + 1)
      BY <2>1 DEF Chosen
    <3>2. QED
      BY <2>1, <2>4, <3>1
  <2>6. /\ (cursor + 1) - 1 = cursor
        /\ trail'[cursor + 1].chosen < tree[at].bound
        /\ at \in DOMAIN tree
    BY <2>1, <2>2, <2>3, <2>4 DEF TrailIsPath
  <2>7. trail'[cursor + 1].chosen \in Nat
    <3>1. trail'[cursor + 1] \in ChoicePoint
      BY <2>2, <2>3, ElementFacts
    <3>2. QED
      BY <3>1 DEF ChoicePoint
  <2>8. at' \in DOMAIN tree
    BY <2>1, <2>6, <2>7, TreeFacts
  <2>9. QED
    BY <2>1, <2>2, <2>5, <2>8 DEF RunFollowsTrail
<1>3. CASE EndRun
  <2>1. /\ tree' = tree /\ trail' = trail /\ cursor' = cursor /\ at' = at
        /\ pc' \in {"advance", "done"} /\ tree[at].bound = 0
        /\ outcome' # "running" => pc' = "done"
        /\ at = Chosen(trail, cursor) /\ at \in DOMAIN tree /\ cursor <= Len(trail)
    BY <1>3 DEF EndRun, RunFollowsTrail
  <2>2. cursor = Len(trail)
    <3>1. SUFFICES ASSUME cursor < Len(trail) PROVE FALSE
      BY <2>1, TrailFacts
    <3>2. cursor + 1 \in DOMAIN trail /\ (cursor + 1) - 1 = cursor
      BY <3>1, TrailFacts
    <3>3. trail[cursor + 1].chosen < 0 /\ trail[cursor + 1].chosen \in Nat
      BY <2>1, <3>2, TrailFacts DEF TrailIsPath
    <3>4. QED
      BY <3>3
  <2>3. QED
    BY <2>1, <2>2 DEF RunFollowsTrail, Chosen
<1>4. CASE Advance
  BY <1>4 DEF Advance, RunFollowsTrail
<1>5. CASE Exhausted
  BY <1>5 DEF Exhausted, RunFollowsTrail
<1>6. CASE Returned \/ UNCHANGED vars
  BY <1>6 DEF Returned, vars, RunFollowsTrail, Chosen
<1>7. QED
  BY <1>1, <1>2, <1>3, <1>4, <1>5, <1>6 DEF Next

-----------------------------------------------------------------------------
(***************************************************************************)
(* The order of paths.  The current path is one of the tree.               *)
(***************************************************************************)
LEMMA PathIsReachable ==
  ASSUME TypeOK, TrailIsPath
  PROVE  /\ Path \in Paths
         /\ Len(Path) = Len(trail)
         /\ \A k \in 1 .. Len(trail) : Path[k] = trail[k].chosen
         /\ \A k \in 1 .. Len(trail) : SubSeq(Path, 1, k - 1) = Chosen(trail, k - 1)
         /\ Reachable(Path)
         /\ Path \in DOMAIN tree
<1>1. /\ Len(trail) \in Nat /\ DOMAIN trail = 1 .. Len(trail)
      /\ \A k \in DOMAIN trail : trail[k].chosen \in Nat /\ trail[k].bound \in Nat
  BY TrailFacts
<1>2. Len(trail) \in 0 .. Len(trail)
  BY <1>1
<1>3. /\ Path \in Seq(Nat)
      /\ Len(Path) = Len(trail)
      /\ \A k \in 1 .. Len(trail) : Path[k] = trail[k].chosen
      /\ \A k \in 1 .. Len(trail) : SubSeq(Path, 1, k - 1) = Chosen(trail, k - 1)
  BY <1>2, ChosenFacts DEF Path
<1>4. Reachable(Path)
  BY <1>1, <1>3 DEF Reachable, TrailIsPath
<1>5. Path \in DOMAIN tree
  <2>1. CASE Len(trail) = 0
    <3>1. Path = << >>
      BY <1>2, <2>1, ChosenFacts DEF Path
    <3>2. QED
      BY <3>1, TreeFacts
  <2>2. CASE Len(trail) # 0
    <3>1. PICK k \in DOMAIN trail : k = Len(trail)
      BY <1>1, <2>2
    <3>2. k - 1 \in 0 .. Len(trail) /\ (k - 1) + 1 = k
      BY <1>1, <3>1
    <3>3. Append(Chosen(trail, k - 1), trail[k].chosen) = Path
      BY <3>1, <3>2, ChosenFacts DEF Path
    <3>4. /\ Chosen(trail, k - 1) \in DOMAIN tree
          /\ trail[k].chosen \in 0 .. tree[Chosen(trail, k - 1)].bound - 1
      BY <1>1 DEF TrailIsPath
    <3>5. QED
      BY <3>3, <3>4, TreeFacts
  <2>3. QED
    BY <2>1, <2>2
<1>6. QED
  BY <1>3, <1>4, <1>5 DEF Paths

(***************************************************************************)
(* Before is a strict order, and compares any two leaves.                  *)
(***************************************************************************)
LEMMA BeforeIsStrict ==
  ASSUME NEW p \in Paths
  PROVE  ~ Before(p, p)
<1>1. Len(p) \in Nat /\ \A k \in 1 .. Len(p) : p[k] \in Nat
  BY ElementFacts DEF Paths
<1>2. QED
  BY <1>1 DEF Before

\* Two different leaves differ in a choice: neither extends the other.
LEMMA LeavesDiffer ==
  ASSUME TypeOK,
         NEW p \in Leaves, NEW q \in Leaves, Reachable(p), Reachable(q)
  PROVE  p = q \/ Before(p, q) \/ Before(q, p)
<1>1. /\ p \in Paths /\ q \in Paths
      /\ tree[p].bound = 0 /\ tree[q].bound = 0
  BY TreeFacts DEF Leaves
<1>2. /\ Len(p) \in Nat /\ \A k \in 1 .. Len(p) : p[k] \in Nat
      /\ Len(q) \in Nat /\ \A k \in 1 .. Len(q) : q[k] \in Nat
  BY <1>1, ElementFacts DEF Paths
<1> DEFINE Differ == {k \in Nat \ {0} : k <= Len(p) /\ k <= Len(q) /\ p[k] # q[k]}
<1>3. CASE Differ # {}
  <2>1. Differ \in SUBSET Nat
    OBVIOUS
  <2>2. PICK k \in Differ : \A j \in Differ : k <= j
    BY <1>3, <2>1, LeastNumber
  <2>3. \A j \in 1 .. k - 1 : p[j] = q[j]
    BY <1>2, <2>2
  <2>4. /\ k \in 1 .. Len(p) /\ k \in 1 .. Len(q) /\ k <= Len(p) /\ k <= Len(q)
        /\ p[k] < q[k] \/ q[k] < p[k]
    BY <1>2, <2>2
  <2>5. QED
    BY <2>3, <2>4 DEF Before
<1>4. CASE Differ = {}
  <2>1. ASSUME NEW a \in Paths, NEW b \in Paths, Len(a) < Len(b),
               \A k \in 1 .. Len(a) : a[k] = b[k],
               tree[a].bound = 0, Reachable(b)
        PROVE  FALSE
    <3>1. Len(a) \in 0 .. Len(b) /\ Len(a) + 1 \in 1 .. Len(b) /\ (Len(a) + 1) - 1 = Len(a)
      BY <2>1, ElementFacts DEF Paths
    <3>2. SubSeq(b, 1, Len(a)) = a
      BY <2>1, <3>1 DEF Paths
    <3>3. b[Len(a) + 1] < 0 /\ b[Len(a) + 1] \in Nat
      BY <2>1, <3>1, <3>2, ElementFacts DEF Reachable, Paths
    <3>4. QED
      BY <3>3
  <2>2. \A k \in 1 .. Len(p) : k \in 1 .. Len(q) => p[k] = q[k]
    BY <1>2, <1>4
  <2>3. CASE Len(p) < Len(q)
    BY <1>1, <1>2, <2>1, <2>2, <2>3
  <2>4. CASE Len(q) < Len(p)
    BY <1>1, <1>2, <2>1, <2>2, <2>4
  <2>5. CASE Len(p) = Len(q)
    BY <1>1, <2>2, <2>5, EqualSequences DEF Paths
  <2>6. QED
    BY <1>2, <2>3, <2>4, <2>5
<1>5. QED
  BY <1>3, <1>4

(***************************************************************************)
(* A leaf after the current path leaves it at a choice that can advance.   *)
(***************************************************************************)
LEMMA LeavesAhead ==
  ASSUME TypeOK, TrailIsPath,
         NEW p \in Leaves, Reachable(p), Before(Path, p)
  PROVE  \E k \in 1 .. Len(trail) :
           /\ k \in 1 .. Len(p)
           /\ CanAdvance(k)
           /\ trail[k].chosen < p[k]
           /\ \A j \in 1 .. k - 1 : p[j] = trail[j].chosen
<1>1. /\ Len(Path) = Len(trail)
      /\ \A k \in 1 .. Len(trail) : Path[k] = trail[k].chosen
      /\ Path \in Paths /\ Len(trail) \in Nat /\ DOMAIN trail = 1 .. Len(trail)
      /\ \A k \in DOMAIN trail : trail[k].chosen \in Nat /\ trail[k].bound \in Nat
  BY PathIsReachable, TrailFacts
<1>2. p \in Paths /\ Len(p) \in Nat /\ \A k \in 1 .. Len(p) : p[k] \in Nat
  BY TreeFacts, ElementFacts DEF Leaves, Paths
<1>3. PICK k \in 1 .. Len(Path) :
        k <= Len(p) /\ Path[k] < p[k] /\ \A j \in 1 .. k - 1 : Path[j] = p[j]
  BY DEF Before
<1>4. k \in 1 .. Len(trail) /\ k \in 1 .. Len(p) /\ k \in DOMAIN trail
  BY <1>1, <1>2, <1>3
<1>5. /\ trail[k].chosen < p[k]
      /\ \A j \in 1 .. k - 1 : p[j] = trail[j].chosen
  BY <1>1, <1>3, <1>4
<1>6. SubSeq(p, 1, k - 1) = Chosen(trail, k - 1)
  <2>1. k - 1 \in 0 .. Len(p) /\ k - 1 \in 0 .. Len(trail) /\ k - 1 \in Nat
    BY <1>1, <1>2, <1>4
  <2>2. /\ SubSeq(p, 1, k - 1) \in Seq(Nat) /\ Len(SubSeq(p, 1, k - 1)) = k - 1
        /\ \A j \in 1 .. k - 1 : SubSeq(p, 1, k - 1)[j] = p[j]
    BY <1>2, <2>1, PrefixFacts DEF Paths
  <2>3. /\ Chosen(trail, k - 1) \in Seq(Nat) /\ Len(Chosen(trail, k - 1)) = k - 1
        /\ \A j \in 1 .. k - 1 : Chosen(trail, k - 1)[j] = trail[j].chosen
    BY <2>1, ChosenFacts
  <2>4. QED
    BY <1>5, <2>2, <2>3, EqualSequences
<1>7. p[k] < tree[SubSeq(p, 1, k - 1)].bound
  BY <1>4 DEF Reachable
<1>8. p[k] < trail[k].bound
  BY <1>4, <1>6, <1>7 DEF TrailIsPath
<1>9. CanAdvance(k)
  BY <1>1, <1>2, <1>4, <1>5, <1>8 DEF CanAdvance
<1>10. QED
  BY <1>4, <1>5, <1>9

(***************************************************************************)
(* When a run has ended, its path is a leaf.                               *)
(***************************************************************************)
LEMMA PathIsLeaf ==
  ASSUME TypeOK, TrailIsPath, RunFollowsTrail, pc = "advance"
  PROVE  at = Path /\ at \in Leaves /\ Reachable(at)
<1>1. at = Path /\ tree[at].bound = 0
  BY DEF RunFollowsTrail, Path
<1>2. QED
  BY <1>1, PathIsReachable DEF Leaves

(***************************************************************************)
(* Recording a first alternative puts no path behind the current one.      *)
(***************************************************************************)
LEMMA ChooseOrder ==
  ASSUME TypeOK, TypeOK', TrailIsPath, TrailIsPath', RunFollowsTrail, Choose,
         NEW p \in Leaves
  PROVE  Before(p, Path') <=> Before(p, Path)
<1>1. CASE Recorded
  BY <1>1, ChooseFacts DEF Path
<1>2. CASE ~ Recorded
  <2>1. PICK q \in Paths : q = Path /\ Len(q) = Len(trail)
                           /\ \A k \in 1 .. Len(trail) : q[k] = trail[k].chosen
    BY PathIsReachable
  <2>2. /\ Len(trail) \in Nat /\ cursor = Len(trail) /\ Len(trail') = Len(trail) + 1
        /\ \A k \in 1 .. Len(trail) : trail'[k] = trail[k]
        /\ trail'[Len(trail) + 1].chosen = 0
    BY <1>2, ChooseFacts, TrailFacts
  <2>3. PICK r : r = Path' /\ r = [k \in 1 .. Len(trail) + 1 |-> trail'[k].chosen]
    BY <2>2 DEF Path, Chosen
  <2>4. /\ Len(r) = Len(trail) + 1
        /\ \A k \in 1 .. Len(trail) : r[k] = q[k]
        /\ r[Len(trail) + 1] = 0
    BY <2>1, <2>2, <2>3
  <2>5. Len(p) \in Nat /\ \A k \in 1 .. Len(p) : p[k] \in Nat
    BY TreeFacts, ElementFacts DEF Leaves, Paths
  <2>6. Before(p, q) => Before(p, r)
    <3>1. SUFFICES ASSUME Before(p, q) PROVE Before(p, r)
      OBVIOUS
    <3>2. PICK k \in 1 .. Len(p) :
            k <= Len(q) /\ p[k] < q[k] /\ \A j \in 1 .. k - 1 : p[j] = q[j]
      BY <3>1 DEF Before
    <3>3. k <= Len(r) /\ r[k] = q[k] /\ \A j \in 1 .. k - 1 : r[j] = q[j]
      BY <2>1, <2>2, <2>4, <3>2
    <3>4. p[k] < r[k] /\ \A j \in 1 .. k - 1 : p[j] = r[j]
      BY <3>2, <3>3
    <3>5. QED
      BY <3>3, <3>4 DEF Before
  <2>7. Before(p, r) => Before(p, q)
    <3>1. SUFFICES ASSUME Before(p, r) PROVE Before(p, q)
      OBVIOUS
    <3>2. PICK k \in 1 .. Len(p) :
            k <= Len(r) /\ p[k] < r[k] /\ \A j \in 1 .. k - 1 : p[j] = r[j]
      BY <3>1 DEF Before
    <3>3. k # Len(trail) + 1
      BY <2>4, <2>5, <3>2
    <3>4. k \in 1 .. Len(trail)
      BY <2>2, <2>4, <3>2, <3>3
    <3>5. k <= Len(q) /\ r[k] = q[k] /\ \A j \in 1 .. k - 1 : r[j] = q[j]
      BY <2>1, <2>2, <2>4, <3>4
    <3>6. p[k] < q[k] /\ \A j \in 1 .. k - 1 : p[j] = q[j]
      BY <3>2, <3>5
    <3>7. QED
      BY <3>5, <3>6 DEF Before
  <2>8. QED
    BY <2>1, <2>3, <2>6, <2>7
<1>3. QED
  BY <1>1, <1>2

(***************************************************************************)
(* advance_trail moves to the next path: it puts the path of the last run  *)
(* behind the current one, and no other.                                   *)
(***************************************************************************)
LEMMA AdvanceOrder ==
  ASSUME TypeOK, TypeOK', TrailIsPath, TrailIsPath', RunFollowsTrail, Advance,
         NEW p \in Leaves, Reachable(p)
  PROVE  Before(p, Path') <=> Ended(p)
<1>1. /\ at = Path /\ at \in Leaves /\ Reachable(at) /\ pc = "advance"
  BY PathIsLeaf DEF Advance
<1>2. PICK q \in Paths : q = Path /\ Len(q) = Len(trail)
                         /\ \A k \in 1 .. Len(trail) : q[k] = trail[k].chosen
  BY PathIsReachable
<1>3. PICK n \in 1 .. Len(trail) :
        /\ \A j \in n + 1 .. Len(trail) : ~ CanAdvance(j)
        /\ Len(trail') = n
        /\ trail'[n].chosen = trail[n].chosen + 1
        /\ \A j \in 1 .. n - 1 : trail'[j] = trail[j]
  BY AdvanceFacts
<1>4. PICK r : r = Path' /\ r = [k \in 1 .. n |-> trail'[k].chosen]
  BY <1>3 DEF Path, Chosen
<1>5. /\ Len(trail) \in Nat
      /\ Len(p) \in Nat /\ \A k \in 1 .. Len(p) : p[k] \in Nat
      /\ \A k \in 1 .. Len(q) : q[k] \in Nat
  BY <1>2, TrailFacts, TreeFacts, ElementFacts DEF Leaves, Paths
<1>6. /\ Len(r) = n
      /\ \A k \in 1 .. n - 1 : r[k] = q[k]
      /\ r[n] = q[n] + 1
  BY <1>2, <1>3, <1>4, <1>5
<1>7. p = q => Before(p, r)
  <2>1. SUFFICES ASSUME p = q PROVE Before(p, r)
    OBVIOUS
  <2>2. n \in 1 .. Len(p) /\ n <= Len(r) /\ p[n] < r[n] /\ \A j \in 1 .. n - 1 : p[j] = r[j]
    BY <1>2, <1>3, <1>5, <1>6, <2>1
  <2>3. QED
    BY <2>2 DEF Before
<1>8. Before(p, q) => Before(p, r)
  <2>1. SUFFICES ASSUME Before(p, q) PROVE Before(p, r)
    OBVIOUS
  <2>2. PICK k \in 1 .. Len(p) :
          k <= Len(q) /\ p[k] < q[k] /\ \A j \in 1 .. k - 1 : p[j] = q[j]
    BY <2>1 DEF Before
  <2>3. CASE k < n
    <3>1. k <= Len(r) /\ p[k] < r[k] /\ \A j \in 1 .. k - 1 : p[j] = r[j]
      BY <1>3, <1>5, <1>6, <2>2, <2>3
    <3>2. QED
      BY <3>1 DEF Before
  <2>4. CASE n <= k
    <3>1. n \in 1 .. Len(p) /\ p[n] <= q[n] /\ \A j \in 1 .. n - 1 : p[j] = q[j]
      BY <1>3, <1>5, <2>2, <2>4
    <3>2. n <= Len(r) /\ p[n] < r[n] /\ \A j \in 1 .. n - 1 : p[j] = r[j]
      BY <1>2, <1>3, <1>5, <1>6, <3>1
    <3>3. QED
      BY <3>1, <3>2 DEF Before
  <2>5. QED
    BY <1>3, <1>5, <2>2, <2>3, <2>4
<1>9. Before(p, r) => Before(p, q) \/ p = q
  <2>1. SUFFICES ASSUME Before(p, r) PROVE Before(p, q) \/ p = q
    OBVIOUS
  <2>2. PICK k \in 1 .. Len(p) :
          k <= Len(r) /\ p[k] < r[k] /\ \A j \in 1 .. k - 1 : p[j] = r[j]
    BY <2>1 DEF Before
  <2>3. k <= Len(q) /\ \A j \in 1 .. k - 1 : p[j] = q[j]
    BY <1>2, <1>3, <1>5, <1>6, <2>2
  <2>4. CASE p[k] < q[k]
    BY <2>3, <2>4 DEF Before
  <2>5. CASE ~ (p[k] < q[k])
    <3>1. k = n /\ p[n] = q[n]
      BY <1>2, <1>3, <1>5, <1>6, <2>2, <2>3, <2>5
    <3>2. ~ Before(q, p)
      <4>1. SUFFICES ASSUME Before(q, p) PROVE FALSE
        OBVIOUS
      <4>2. PICK m \in 1 .. Len(trail) :
              /\ m \in 1 .. Len(p)
              /\ CanAdvance(m)
              /\ trail[m].chosen < p[m]
              /\ \A j \in 1 .. m - 1 : p[j] = trail[j].chosen
        BY <1>2, <4>1, LeavesAhead
      <4>3. m <= n
        BY <1>3, <1>5, <4>2
      <4>4. p[m] = q[m]
        BY <1>3, <2>3, <3>1, <4>2, <4>3
      <4>5. QED
        BY <1>2, <1>5, <4>2, <4>4
    <3>3. QED
      BY <1>1, <1>2, <3>2, LeavesDiffer
  <2>6. QED
    BY <2>4, <2>5
<1>10. QED
  BY <1>1, <1>2, <1>4, <1>7, <1>8, <1>9 DEF Ended

(***************************************************************************)
(* With no choice left that can advance, every path has been run.          *)
(***************************************************************************)
LEMMA ExhaustedOrder ==
  ASSUME TypeOK, TrailIsPath, RunFollowsTrail, Exhausted,
         NEW p \in Leaves, Reachable(p)
  PROVE  Ended(p)
<1>1. at = Path /\ at \in Leaves /\ Reachable(at) /\ pc = "advance"
  BY PathIsLeaf DEF Exhausted
<1>2. cursor = Len(trail) /\ Len(trail) \in Nat
  BY <1>1, TrailFacts DEF RunFollowsTrail
<1>3. \A k \in 1 .. Len(trail) : ~ CanAdvance(k)
  BY <1>2 DEF Exhausted, Visited
<1>4. ~ Before(Path, p)
  BY <1>3, LeavesAhead
<1>5. QED
  BY <1>1, <1>4, LeavesDiffer DEF Ended

-----------------------------------------------------------------------------
(***************************************************************************)
(* The paths that have ended.  They change when a run ends, by its path,   *)
(* and at no other step.                                                   *)
(***************************************************************************)
LEMMA TreeStays ==
  ASSUME [Next]_vars
  PROVE  tree' = tree /\ Leaves' = Leaves /\ CompletePaths' = CompletePaths
<1>1. tree' = tree
  BY DEF Next, vars, StartRun, Choose, EndRun, Advance, Exhausted, Returned
<1>2. QED
  BY <1>1 DEF Leaves, CompletePaths, Reachable

\* No other step changes the paths that have ended, or what was found.
LEMMA EndedStep ==
  ASSUME TypeOK, TypeOK', TrailIsPath, TrailIsPath', RunFollowsTrail, [Next]_vars,
         ~ EndRun, Visiting'
  PROVE  Visiting /\ EndedPaths' = EndedPaths /\ out' = out
<1>1. CompletePaths' = CompletePaths /\ \A p \in CompletePaths : p \in Leaves /\ Reachable(p)
  BY TreeStays DEF CompletePaths
<1>2. ASSUME \A p \in CompletePaths : Ended(p)' <=> Ended(p)
      PROVE  EndedPaths' = EndedPaths
  BY <1>1, <1>2 DEF EndedPaths
<1>3. CASE StartRun
  <2>1. /\ pc = "start" /\ pc' \in {"run", "done"} /\ trail' = trail /\ out' = out
    BY <1>3 DEF StartRun
  <2>2. \A p \in CompletePaths : Ended(p)' <=> Ended(p)
    BY <2>1 DEF Ended, Path
  <2>3. QED
    BY <1>2, <2>1, <2>2 DEF Visiting
<1>4. CASE Choose
  <2>1. pc = "run" /\ pc' = "run" /\ out' = out
    BY <1>4 DEF Choose
  <2>2. \A p \in CompletePaths : Ended(p)' <=> Ended(p)
    BY <1>1, <1>4, <2>1, ChooseOrder DEF Ended
  <2>3. QED
    BY <1>2, <2>1, <2>2 DEF Visiting
<1>5. CASE Advance
  <2>1. pc = "advance" /\ pc' = "start" /\ out' = out
    BY <1>5 DEF Advance
  <2>2. \A p \in CompletePaths : Ended(p)' <=> Before(p, Path')
    BY <2>1 DEF Ended
  <2>3. \A p \in CompletePaths : Ended(p)' <=> Ended(p)
    BY <1>1, <1>5, <2>2, AdvanceOrder
  <2>4. QED
    BY <1>2, <2>1, <2>3 DEF Visiting
<1>6. CASE Exhausted \/ Returned
  BY <1>6 DEF Exhausted, Returned, vars, Visiting
<1>7. CASE UNCHANGED vars
  BY <1>7, <1>2 DEF vars, Visiting, Ended, Path
<1>8. QED
  BY <1>3, <1>4, <1>5, <1>6, <1>7 DEF Next

\* The path of a run that ends is one more that has.
LEMMA EndRunStep ==
  ASSUME TypeOK, TypeOK', TrailIsPath, TrailIsPath', RunFollowsTrail, RunFollowsTrail',
         EndRun, Visiting'
  PROVE  /\ Visiting /\ pc = "run"
         /\ at \in CompletePaths /\ at = Path /\ at \notin EndedPaths
         /\ EndedPaths' = EndedPaths \cup {at}
         /\ tree[at].end = "enabled" => Range(out') = Range(out) \cup {at}
         /\ tree[at].end # "enabled" => out' = out
<1>1. /\ pc = "run" /\ pc' = "advance" /\ at' = at /\ trail' = trail /\ tree' = tree
      /\ out' = IF tree[at].end = "enabled" THEN Append(out, at) ELSE out
      /\ Visiting
  BY DEF EndRun, Visiting
<1>2. CompletePaths' = CompletePaths /\ Path' = Path
  BY <1>1 DEF CompletePaths, Leaves, Reachable, Path
<1>3. at = Path /\ at \in CompletePaths
  <2>1. at = Path /\ tree[at].bound = 0
    BY <1>1 DEF RunFollowsTrail, Path
  <2>2. QED
    BY <2>1, PathIsReachable DEF CompletePaths, Leaves
<1>4. at \notin EndedPaths
  BY <1>1, <1>3, PathIsReachable, BeforeIsStrict DEF EndedPaths, Ended
<1>5. EndedPaths' = EndedPaths \cup {at}
  <2>1. \A p : Ended(p)' <=> Before(p, Path) \/ p = at
    BY <1>1, <1>2 DEF Ended
  <2>2. \A p : Ended(p) <=> Before(p, Path)
    BY <1>1 DEF Ended
  <2>3. QED
    BY <1>2, <1>3, <2>1, <2>2 DEF EndedPaths
<1>6. tree[at].end = "enabled" => Range(out') = Range(out) \cup {at}
  <2>1. out \in Seq(Paths) /\ at \in Paths
    BY DEF TypeOK
  <2>2. QED
    BY <1>1, <2>1, RangeOfAppend
<1>7. QED
  BY <1>1, <1>3, <1>4, <1>5, <1>6

\* What has been found is what ended enabled.
LEMMA FoundStep ==
  ASSUME TypeOK, TypeOK', TrailIsPath, TrailIsPath', RunFollowsTrail, RunFollowsTrail',
         FoundAreEnded, [Next]_vars
  PROVE  FoundAreEnded'
<1> SUFFICES ASSUME Visiting'
             PROVE  Range(out') = {p \in EndedPaths' : tree[p].end = "enabled"}
  BY TreeStays DEF FoundAreEnded
<1>1. CASE EndRun
  BY <1>1, EndRunStep DEF FoundAreEnded
<1>2. CASE ~ EndRun
  BY <1>2, EndedStep DEF FoundAreEnded
<1>3. QED
  BY <1>1, <1>2

(***************************************************************************)
(* What a run finds comes after what was found before it.                  *)
(***************************************************************************)
LEMMA OrderStep ==
  ASSUME TypeOK, TypeOK', TrailIsPath, TrailIsPath', RunFollowsTrail, RunFollowsTrail',
         FoundAreEnded, InOrder, [Next]_vars
  PROVE  InOrder'
<1>1. CASE out' = out
  BY <1>1 DEF InOrder
<1>2. CASE EndRun /\ out' # out
  <2>1. /\ pc = "run" /\ pc' = "advance" /\ out' = Append(out, at) /\ Visiting /\ Visiting'
    BY <1>2 DEF EndRun, Visiting
  <2>2. /\ out \in Seq(Paths) /\ Len(out) \in Nat /\ DOMAIN out = 1 .. Len(out)
        /\ DOMAIN out' = 1 .. Len(out) + 1
        /\ out'[Len(out) + 1] = at
        /\ \A k \in 1 .. Len(out) : out'[k] = out[k]
    <3>1. out \in Seq(Paths) /\ at \in Paths
      BY DEF TypeOK
    <3>2. QED
      BY <2>1, <3>1, AppendFacts, ElementFacts
  <2>3. ASSUME NEW i \in 1 .. Len(out) PROVE Before(out[i], at)
    <3>1. out[i] \in Range(out)
      BY <2>2 DEF Range
    <3>2. out[i] \in EndedPaths
      BY <2>1, <3>1 DEF FoundAreEnded
    <3>3. QED
      BY <1>2, <2>1, <3>2, EndRunStep DEF EndedPaths, Ended
  <2>4. ASSUME NEW i \in 1 .. Len(out) + 1, NEW j \in 1 .. Len(out) + 1, i < j
        PROVE  Before(out'[i], out'[j])
    <3>1. i \in 1 .. Len(out)
      BY <2>2, <2>4
    <3>2. CASE j = Len(out) + 1
      BY <2>2, <2>3, <3>1, <3>2
    <3>3. CASE j # Len(out) + 1
      <4>1. j \in 1 .. Len(out)
        BY <2>2, <3>3
      <4>2. QED
        BY <2>2, <2>4, <3>1, <4>1 DEF InOrder
    <3>4. QED
      BY <3>2, <3>3
  <2>5. QED
    BY <2>2, <2>4 DEF InOrder
<1>3. QED
  BY <1>1, <1>2 DEF Next, vars, StartRun, Choose, Advance, Exhausted, Returned

(***************************************************************************)
(* When the tree is exhausted, all paths have ended.                       *)
(***************************************************************************)
LEMMA ExhaustedEnded ==
  ASSUME TypeOK, TrailIsPath, RunFollowsTrail, Exhausted
  PROVE  Visiting /\ pc = "advance" /\ EndedPaths = CompletePaths
<1>1. pc = "advance"
  BY DEF Exhausted
<1>2. \A p \in CompletePaths : Ended(p)
  BY ExhaustedOrder DEF CompletePaths
<1>3. QED
  BY <1>1, <1>2 DEF Visiting, EndedPaths

\* An exhausted tree has no path whose next state was not found.
LEMMA OmissionStep ==
  ASSUME TypeOK, TrailIsPath, RunFollowsTrail, FoundAreEnded, NoneOmitted, [Next]_vars
  PROVE  NoneOmitted'
<1>1. CASE Exhausted
  <2>1. out' = out
    BY <1>1 DEF Exhausted
  <2>2. QED
    BY <1>1, <2>1, ExhaustedEnded, TreeStays DEF FoundAreEnded, NoneOmitted
<1>2. CASE ~ Exhausted
  <2>1. SUFFICES ASSUME outcome' = "ok" PROVE outcome = "ok" /\ out' = out
    BY TreeStays DEF NoneOmitted
  <2>2. outcome = "ok" => pc = "done"
    BY DEF RunFollowsTrail
  <2>3. QED
    BY <1>2, <2>1, <2>2 DEF Next, vars, StartRun, Choose, EndRun, Advance, Returned
<1>3. QED
  BY <1>1, <1>2

-----------------------------------------------------------------------------
(***************************************************************************)
(* The number of runs.  There are finitely many paths.                     *)
(***************************************************************************)
LEMMA FiniteFacts ==
  ASSUME TypeOK
  PROVE  /\ IsFiniteSet(CompletePaths) /\ IsFiniteSet(EndedPaths)
         /\ Cardinality(CompletePaths) \in Nat /\ Cardinality(EndedPaths) \in Nat
         /\ Cardinality(EndedPaths) <= Cardinality(CompletePaths)
         /\ EndedPaths # CompletePaths => Cardinality(EndedPaths) < Cardinality(CompletePaths)
<1>1. CompletePaths \in SUBSET DOMAIN tree /\ EndedPaths \in SUBSET CompletePaths
  BY DEF CompletePaths, Leaves, EndedPaths
<1>2. IsFiniteSet(CompletePaths)
  BY <1>1, TreeFacts, FS_Subset
<1>3. IsFiniteSet(EndedPaths)
  BY <1>1, <1>2, FS_Subset
<1>4. Cardinality(CompletePaths) \in Nat /\ Cardinality(EndedPaths) \in Nat
  BY <1>2, <1>3, FS_CardinalityType
<1>5. /\ Cardinality(EndedPaths) <= Cardinality(CompletePaths)
      /\ Cardinality(CompletePaths) = Cardinality(EndedPaths) => CompletePaths = EndedPaths
  BY <1>1, <1>2, FS_Subset
<1>6. QED
  BY <1>2, <1>3, <1>4, <1>5

\* A run more is begun only for a path more to end.
LEMMA CountStep ==
  ASSUME TypeOK, TypeOK', TrailIsPath, TrailIsPath', RunFollowsTrail, RunFollowsTrail',
         RunsAreCounted, [Next]_vars
  PROVE  RunsAreCounted'
<1> SUFFICES ASSUME Visiting'
             PROVE  runs' = Cardinality(EndedPaths') + (IF pc' = "run" THEN 1 ELSE 0)
  BY DEF RunsAreCounted
<1>1. CASE EndRun
  <2>1. /\ Visiting /\ pc = "run" /\ pc' = "advance" /\ runs' = runs
        /\ at \notin EndedPaths /\ EndedPaths' = EndedPaths \cup {at}
    BY <1>1, EndRunStep DEF EndRun, Visiting
  <2>2. Cardinality(EndedPaths \cup {at}) = Cardinality(EndedPaths) + 1
    BY <2>1, FiniteFacts, FS_AddElement
  <2>3. Cardinality(EndedPaths) \in Nat
    BY FiniteFacts
  <2>4. QED
    BY <2>1, <2>2, <2>3 DEF RunsAreCounted
<1>2. CASE ~ EndRun
  <2>1. Visiting /\ EndedPaths' = EndedPaths
    BY <1>2, EndedStep
  <2>2. Cardinality(EndedPaths) \in Nat /\ runs = Cardinality(EndedPaths) + (IF pc = "run" THEN 1 ELSE 0)
    BY <2>1, FiniteFacts DEF RunsAreCounted
  <2>3. CASE StartRun
    <3>1. pc = "start" /\ pc' = "run" /\ runs' = runs + 1
      BY <2>3 DEF StartRun, Visiting
    <3>2. QED
      BY <2>1, <2>2, <3>1
  <2>4. CASE ~ StartRun
    <3>1. runs' = runs /\ (pc' = "run" <=> pc = "run")
      BY <1>2, <2>4 DEF Next, vars, Choose, Advance, Exhausted, Returned, Visiting
    <3>2. QED
      BY <2>1, <2>2, <3>1
  <2>5. QED
    BY <2>3, <2>4
<1>3. QED
  BY <1>1, <1>2

Extends(p, q) == Len(q) <= Len(p) /\ \A k \in 1 .. Len(q) : p[k] = q[k]

(***************************************************************************)
(* Below every node of the tree there is a leaf: of the nodes below it,    *)
(* one with the fewest nodes longer than itself has no alternatives.       *)
(***************************************************************************)
LEMMA LeafBelow ==
  ASSUME TypeOK, NEW q \in DOMAIN tree, Reachable(q)
  PROVE  \E p \in CompletePaths : Extends(p, q)
<1> DEFINE Below == {p \in DOMAIN tree : Reachable(p) /\ Extends(p, q)}
           Longer(p) == {r \in DOMAIN tree : Len(p) < Len(r)}
           Sizes == {Cardinality(Longer(p)) : p \in Below}
<1>1. \A p \in DOMAIN tree : p \in Paths /\ Len(p) \in Nat /\ \A k \in 1 .. Len(p) : p[k] \in Nat
  BY TreeFacts, ElementFacts DEF Paths
<1>2. \A p : IsFiniteSet(Longer(p)) /\ Cardinality(Longer(p)) \in Nat
  <2>1. \A p : Longer(p) \in SUBSET DOMAIN tree
    OBVIOUS
  <2>2. \A p : IsFiniteSet(Longer(p))
    BY <2>1, TreeFacts, FS_Subset
  <2>3. QED
    BY <2>2, FS_CardinalityType
<1>3. q \in Below
  BY <1>1 DEF Extends
<1>4. Sizes # {} /\ Sizes \in SUBSET Nat
  BY <1>2, <1>3
<1>5. PICK p \in Below : \A r \in Below : Cardinality(Longer(p)) <= Cardinality(Longer(r))
  <2>1. PICK n \in Sizes : \A m \in Sizes : n <= m
    BY <1>4, LeastNumber
  <2>2. QED
    BY <2>1
<1>6. tree[p].bound = 0
  <2>1. SUFFICES ASSUME tree[p].bound # 0 PROVE FALSE
    OBVIOUS
  <2>2. p \in DOMAIN tree /\ p \in Paths /\ Len(p) \in Nat /\ tree[p].bound \in Nat
    BY <1>1, <1>5, TreeFacts
  <2>3. PICK r : r = Append(p, 0)
    OBVIOUS
  <2>4. r \in DOMAIN tree
    BY <2>1, <2>2, <2>3, TreeFacts
  <2>5. /\ Len(r) = Len(p) + 1 /\ r[Len(p) + 1] = 0
        /\ \A k \in 1 .. Len(p) : r[k] = p[k]
    BY <2>2, <2>3, AppendFacts DEF Paths
  <2>6. Extends(r, q)
    BY <1>1, <1>5, <2>2, <2>5 DEF Extends
  <2>7. Reachable(r)
    <3>1. ASSUME NEW k \in 1 .. Len(p) + 1
          PROVE  SubSeq(r, 1, k - 1) = SubSeq(p, 1, k - 1)
      <4>1. k - 1 \in 0 .. Len(p) /\ k - 1 \in 0 .. Len(r) /\ r \in Paths
        BY <1>1, <2>2, <2>4, <2>5
      <4>2. /\ SubSeq(p, 1, k - 1) \in Seq(Nat) /\ Len(SubSeq(p, 1, k - 1)) = k - 1
            /\ \A j \in 1 .. k - 1 : SubSeq(p, 1, k - 1)[j] = p[j]
        BY <2>2, <4>1, PrefixFacts DEF Paths
      <4>3. /\ SubSeq(r, 1, k - 1) \in Seq(Nat) /\ Len(SubSeq(r, 1, k - 1)) = k - 1
            /\ \A j \in 1 .. k - 1 : SubSeq(r, 1, k - 1)[j] = r[j]
        BY <4>1, PrefixFacts DEF Paths
      <4>4. \A j \in 1 .. k - 1 : r[j] = p[j]
        BY <2>2, <2>5
      <4>5. QED
        BY <4>2, <4>3, <4>4, EqualSequences
    <3>2. SubSeq(p, 1, Len(p)) = p
      BY <2>2, PrefixFacts, EqualSequences DEF Paths
    <3>3. ASSUME NEW k \in 1 .. Len(p) PROVE r[k] < tree[SubSeq(r, 1, k - 1)].bound
      <4>1. k \in 1 .. Len(p) + 1
        BY <2>2
      <4>2. p[k] < tree[SubSeq(p, 1, k - 1)].bound
        BY <1>5 DEF Reachable
      <4>3. QED
        BY <2>5, <3>1, <4>1, <4>2
    <3>4. r[Len(p) + 1] < tree[SubSeq(r, 1, (Len(p) + 1) - 1)].bound
      <4>1. Len(p) + 1 \in 1 .. Len(p) + 1 /\ (Len(p) + 1) - 1 = Len(p)
        BY <2>2
      <4>2. SubSeq(r, 1, (Len(p) + 1) - 1) = p
        BY <3>1, <3>2, <4>1
      <4>3. 0 < tree[p].bound
        BY <2>1, <2>2
      <4>4. QED
        BY <2>5, <4>2, <4>3
    <3>5. QED
      BY <2>2, <2>5, <3>3, <3>4 DEF Reachable
  <2>8. Longer(r) \in SUBSET Longer(p) /\ r \in Longer(p) /\ r \notin Longer(r)
    BY <1>1, <2>2, <2>4, <2>5
  <2>9. Cardinality(Longer(r)) < Cardinality(Longer(p))
    <3> HIDE DEF Longer
    <3>1. /\ Cardinality(Longer(r)) <= Cardinality(Longer(p))
          /\ Cardinality(Longer(p)) = Cardinality(Longer(r)) => Longer(p) = Longer(r)
      BY <1>2, <2>8, FS_Subset
    <3>2. Longer(p) # Longer(r)
      BY <2>8
    <3>3. QED
      BY <1>2, <3>1, <3>2
  <2>10. r \in Below
    BY <2>4, <2>6, <2>7
  <2>11. QED
    <3> HIDE DEF Longer, Below
    <3>1. QED
      BY <1>2, <1>5, <2>9, <2>10
<1>7. QED
  BY <1>5, <1>6 DEF CompletePaths, Leaves

(***************************************************************************)
(* When a run begins there is a path that has not ended: a leaf below the  *)
(* current path.                                                           *)
(***************************************************************************)
LEMMA PathAhead ==
  ASSUME TypeOK, TrailIsPath, pc = "start"
  PROVE  EndedPaths # CompletePaths
<1>1. PICK q \in Paths : q = Path /\ q \in DOMAIN tree /\ Reachable(q)
  BY PathIsReachable
<1>2. PICK p \in CompletePaths : Extends(p, q)
  BY <1>1, LeafBelow
<1>3. /\ \A k \in 1 .. Len(q) : p[k] = q[k] /\ q[k] \in Nat
      /\ Len(p) \in Nat /\ Len(q) \in Nat
  BY <1>1, <1>2, TreeFacts, ElementFacts DEF Extends, Paths, CompletePaths, Leaves
<1>4. ~ Before(p, q)
  BY <1>3 DEF Before
<1>5. p \notin EndedPaths
  BY <1>1, <1>4 DEF EndedPaths, Ended
<1>6. QED
  BY <1>2, <1>5

\* A run is refused only if there is a path more than the limit.
LEMMA LimitStep ==
  ASSUME TypeOK, TrailIsPath, RunFollowsTrail, RunsAreCounted, LimitIsExact, [Next]_vars
  PROVE  LimitIsExact'
<1>1. Cardinality(CompletePaths) \in Nat /\ Cardinality(EndedPaths) \in Nat
  BY FiniteFacts
<1>2. CASE Exhausted
  <2>1. Visiting /\ pc = "advance" /\ EndedPaths = CompletePaths
    BY <1>2, ExhaustedEnded
  <2>2. runs = Cardinality(CompletePaths)
    BY <1>1, <2>1 DEF RunsAreCounted
  <2>3. QED
    BY <1>2, <2>2, TreeStays DEF Exhausted, LimitIsExact
<1>3. CASE StartRun
  <2>1. pc = "start" /\ outcome = "running" /\ Visiting
    BY <1>3 DEF StartRun, RunFollowsTrail, Visiting
  <2>2. Cardinality(EndedPaths) < Cardinality(CompletePaths) /\ runs = Cardinality(EndedPaths)
    BY <1>1, <2>1, PathAhead, FiniteFacts DEF RunsAreCounted
  <2>3. /\ outcome' \in {"running", "too many"}
        /\ outcome' = "too many" => runs + 1 > MaxRuns
    BY <1>3, <2>1 DEF StartRun
  <2>4. outcome' = "too many" => Cardinality(CompletePaths) > MaxRuns
    <3>1. MaxRuns \in Nat
      BY EnumerateAssumption
    <3>2. runs + 1 <= Cardinality(CompletePaths)
      BY <1>1, <2>2
    <3>3. runs \in Nat
      BY <1>1, <2>2
    <3>4. ASSUME runs + 1 > MaxRuns PROVE Cardinality(CompletePaths) > MaxRuns
      BY <1>1, <3>1, <3>2, <3>3, <3>4
    <3>5. QED
      BY <2>3, <3>4
  <2>5. QED
    BY <2>3, <2>4, TreeStays DEF LimitIsExact
<1>4. CASE ~ Exhausted /\ ~ StartRun
  <2>1. /\ outcome' = "ok" => outcome = "ok" /\ runs' = runs
        /\ outcome' = "too many" => outcome = "too many"
    BY <1>4 DEF Next, vars, Choose, EndRun, Advance, Returned, RunFollowsTrail
  <2>2. QED
    BY <2>1, TreeStays DEF LimitIsExact
<1>5. QED
  BY <1>2, <1>3, <1>4

-----------------------------------------------------------------------------
(***************************************************************************)
(* Initially no path has ended.                                            *)
(***************************************************************************)
LEMMA InvariantInit == Init => IInv
<1> SUFFICES ASSUME Init PROVE IInv
  OBVIOUS
<1>1. TypeOK
  BY TypeInit
<1>2. /\ pc = "start" /\ trail = << >> /\ cursor = 0 /\ runs = 0
      /\ out = << >> /\ outcome = "running"
  BY DEF Init
<1>3. TrailIsPath /\ RunFollowsTrail
  BY <1>2 DEF TrailIsPath, RunFollowsTrail
<1>4. EndedPaths = {}
  <2>1. Path \in Paths /\ Len(Path) = 0
    BY <1>1, <1>2, <1>3, PathIsReachable
  <2>2. ASSUME NEW p, Before(p, Path) PROVE FALSE
    <3>1. PICK k \in 1 .. Len(p) : k <= Len(Path)
      BY <2>2 DEF Before
    <3>2. QED
      BY <2>1, <3>1
  <2>3. \A p \in Leaves : ~ Before(p, Path)
    BY <2>2
  <2>4. QED
    BY <1>2, <2>3 DEF EndedPaths, Ended, CompletePaths
<1>5. Range(out) = {} /\ InOrder
  BY <1>2 DEF Range, InOrder
<1>6. FoundAreEnded /\ RunsAreCounted
  BY <1>2, <1>4, <1>5, FS_EmptySet DEF FoundAreEnded, RunsAreCounted
<1>7. NoneOmitted /\ LimitIsExact
  BY <1>2 DEF NoneOmitted, LimitIsExact
<1>8. QED
  BY <1>1, <1>3, <1>5, <1>6, <1>7 DEF IInv

(***************************************************************************)
(* Every step keeps the invariant.                                         *)
(***************************************************************************)
LEMMA InvariantStep == IInv /\ [Next]_vars => IInv'
<1> SUFFICES ASSUME IInv, [Next]_vars PROVE IInv'
  OBVIOUS
<1> USE DEF IInv
<1>1. TypeOK'
  BY TypeStep
<1>2. TrailIsPath'
  BY <1>1, TrailStep
<1>3. RunFollowsTrail'
  BY <1>1, <1>2, FollowStep
<1>4. FoundAreEnded'
  BY <1>1, <1>2, <1>3, FoundStep
<1>5. RunsAreCounted'
  BY <1>1, <1>2, <1>3, CountStep
<1>6. InOrder'
  BY <1>1, <1>2, <1>3, OrderStep
<1>7. NoneOmitted'
  BY OmissionStep
<1>8. LimitIsExact'
  BY LimitStep
<1>9. QED
  BY <1>1, <1>2, <1>3, <1>4, <1>5, <1>6, <1>7, <1>8

\* So the invariant holds in every state.
LEMMA Invariance == Spec => []IInv
<1>1. QED
  BY InvariantInit, InvariantStep, PTL DEF Spec

(***************************************************************************)
(* Values have their types: a recorded choice is never below 0.            *)
(***************************************************************************)
THEOREM TypeCorrectness == Spec => []TypeOK
<1>1. IInv => TypeOK
  BY DEF IInv
<1>2. QED
  BY <1>1, Invariance, PTL

(***************************************************************************)
(* A replayed choice was recorded for as many alternatives as there are,   *)
(* and a run replays its whole prefix: the debug_assert of choose holds.   *)
(***************************************************************************)
THEOREM Replay == Spec => []ReplayAgrees
<1>1. ASSUME IInv PROVE ReplayAgrees
  <2>1. TypeOK /\ TrailIsPath /\ RunFollowsTrail
    BY <1>1 DEF IInv
  <2>2. SUFFICES ASSUME pc = "run"
                 PROVE  /\ at \in DOMAIN tree
                        /\ Recorded => /\ trail[cursor + 1].bound = tree[at].bound
                                       /\ tree[at].bound # 0
    BY DEF ReplayAgrees
  <2>3. at = Chosen(trail, cursor) /\ at \in DOMAIN tree
    BY <2>1, <2>2 DEF RunFollowsTrail
  <2>4. ASSUME Recorded
        PROVE  trail[cursor + 1].bound = tree[at].bound /\ tree[at].bound # 0
    <3>1. cursor + 1 \in DOMAIN trail /\ (cursor + 1) - 1 = cursor
      BY <2>1, <2>4, TrailFacts DEF Recorded
    <3>2. /\ trail[cursor + 1].bound = tree[at].bound
          /\ trail[cursor + 1].chosen < trail[cursor + 1].bound
          /\ trail[cursor + 1].chosen \in Nat
      BY <2>1, <2>3, <3>1, TrailFacts DEF TrailIsPath
    <3>3. QED
      BY <3>2
  <2>5. QED
    BY <2>3, <2>4
<1>2. QED
  BY <1>1, Invariance, PTL

(***************************************************************************)
(* The next states are found in depth-first order, none of them twice.     *)
(***************************************************************************)
THEOREM Order == Spec => []InOrder
<1>1. IInv => InOrder
  BY DEF IInv
<1>2. QED
  BY <1>1, Invariance, PTL

(***************************************************************************)
(* An enumeration that succeeds has found every next state of the action.  *)
(***************************************************************************)
THEOREM Omission == Spec => []NoneOmitted
<1>1. IInv => NoneOmitted
  BY DEF IInv
<1>2. QED
  BY <1>1, Invariance, PTL

(***************************************************************************)
(* There is one run for each path, and the limit refuses exactly the       *)
(* trees with more paths.                                                  *)
(***************************************************************************)
THEOREM Limit == Spec => []LimitIsExact
<1>1. IInv => LimitIsExact
  BY DEF IInv
<1>2. QED
  BY <1>1, Invariance, PTL

=============================================================================
