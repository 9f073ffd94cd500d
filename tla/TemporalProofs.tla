---------------------------- MODULE TemporalProofs ----------------------------
(***************************************************************************)
(* The state graph and the search for a fair accepting component.          *)
(*                                                                         *)
(* build of temporal/graph.rs, for every program, every set of atoms and   *)
(* every cap: a finished graph is the reachable one with its atoms, an     *)
(* edge of a state to itself may stand for stuttering, and what is         *)
(* reported is true.  IInv is inductive, and the reports follow from what  *)
(* it says when they are made.                                             *)
(*                                                                         *)
(* temporal/scc.rs and temporal/witness.rs, for every product: Tarjan's    *)
(* algorithm finds the classes of mutually reachable nodes, a component is *)
(* found exactly if some cycle is accepting and fair, and the lasso is     *)
(* such a cycle with a path to it.  SccInv is inductive.                   *)
(***************************************************************************)
EXTENDS StateGraph, FairSccCheck, SearchProblemProofs

\* What GraphAssumption says of one specification.
LEMMA SpecFacts ==
  ASSUME NEW sp \in Specs
  PROVE  /\ sp.program \in Models
         /\ sp.predFails \subseteq States
         /\ sp.actionFails \subseteq States
         /\ DOMAIN sp.taken \cap (DOMAIN sp.kept \cup DOMAIN sp.nextPreds) = {}
BY GraphAssumption

\* The fields of an arena entry are of their types, and so are those of the program.
LEMMA ArenaTypes ==
  ASSUME GraphTypeOK
  PROVE  /\ Len(arena) \in Nat /\ DOMAIN arena = 1 .. Len(arena)
         /\ Len(edges) \in Nat /\ DOMAIN edges = 1 .. Len(edges)
         /\ \A id \in DOMAIN arena :
              /\ arena[id] \in Entry
              /\ arena[id].state \in States
              /\ arena[id].parent \in Nat
              /\ arena[id].depth \in Nat
         /\ Program \in Models
         /\ Program.init \in Seq(States)
         /\ \A s \in States : Program.step[s] \in Seq(States)
<1>1. /\ Len(arena) \in Nat /\ DOMAIN arena = 1 .. Len(arena)
      /\ \A id \in 1 .. Len(arena) : arena[id] \in Entry
  BY ElementFacts DEF GraphTypeOK
<1>2. Len(edges) \in Nat /\ DOMAIN edges = 1 .. Len(edges)
  BY ElementFacts DEF GraphTypeOK
<1>3. Program \in Models
  BY SpecFacts DEF GraphTypeOK, Program
<1>4. \A e \in Entry : e.state \in States /\ e.parent \in Nat /\ e.depth \in Nat
  BY DEF Entry
<1>5. Program.init \in Seq(States) /\ \A s \in States : Program.step[s] \in Seq(States)
  BY <1>3, ModelFacts
<1>6. QED
  BY <1>1, <1>2, <1>3, <1>4, <1>5

-----------------------------------------------------------------------------
(***************************************************************************)
(* Traces.  The recursive function of TraceTo exists: it is built up to    *)
(* any id, for there is no least one at which it could not be.             *)
(***************************************************************************)
PathStep(a, f, i) ==
  IF a[i].parent = NoParent THEN <<a[i].state>> ELSE Append(f[a[i].parent], a[i].state)

PathUpTo(a, n, f) == f = [i \in 1 .. n |-> PathStep(a, f, i)]

\* Such a function exists up to every id.
LEMMA PathUpToExists ==
  ASSUME NEW a, Len(a) \in Nat, \A i \in 1 .. Len(a) : a[i].parent \in Nat /\ a[i].parent < i
  PROVE  \E f : PathUpTo(a, Len(a), f)
<1> DEFINE Stuck == {n \in 0 .. Len(a) : ~ \E f : PathUpTo(a, n, f)}
<1>1. 0 \notin Stuck
  <2> DEFINE f == [i \in 1 .. 0 |-> << >>]
  <2>1. PathUpTo(a, 0, f)
    BY DEF PathUpTo
  <2> HIDE DEF f
  <2>2. QED
    BY <2>1
<1>2. ASSUME NEW n \in Nat, n + 1 <= Len(a), NEW f, PathUpTo(a, n, f) PROVE n + 1 \notin Stuck
  <2> DEFINE g == [i \in 1 .. n + 1 |-> IF i = n + 1 THEN PathStep(a, f, i) ELSE f[i]]
  <2>1. ASSUME NEW i \in 1 .. n + 1 PROVE g[i] = PathStep(a, g, i)
    <3>1. a[i].parent # NoParent => a[i].parent \in 1 .. n /\ g[a[i].parent] = f[a[i].parent]
      <4>1. a[i].parent \in Nat /\ a[i].parent < i /\ i <= n + 1
        BY <1>2
      <4>2. a[i].parent # NoParent => a[i].parent \in 1 .. n
        BY <4>1 DEF NoParent
      <4>3. \A k \in 1 .. n : g[k] = f[k]
        OBVIOUS
      <4> HIDE DEF g
      <4>4. QED
        BY <4>2, <4>3
    <3>2. g[i] = PathStep(a, f, i)
      <4>1. CASE i = n + 1
        BY <4>1
      <4>2. CASE i # n + 1
        <5>1. i \in 1 .. n /\ g[i] = f[i]
          BY <4>2
        <5>2. f[i] = PathStep(a, f, i)
          BY <1>2, <5>1 DEF PathUpTo
        <5>3. QED
          BY <5>1, <5>2
      <4>3. QED
        BY <4>1, <4>2
    <3> HIDE DEF g
    <3>3. QED
      BY <3>1, <3>2 DEF PathStep
  <2>2. PathUpTo(a, n + 1, g)
    <3>1. g = [i \in 1 .. n + 1 |-> g[i]]
      OBVIOUS
    <3> HIDE DEF g
    <3>2. QED
      BY <2>1, <3>1 DEF PathUpTo
  <2> HIDE DEF g
  <2>3. QED
    BY <2>2
<1>3. Stuck = {}
  <2>1. SUFFICES ASSUME Stuck # {} PROVE FALSE
    OBVIOUS
  <2>2. Stuck \in SUBSET Nat /\ \A n \in Stuck : n <= Len(a)
    OBVIOUS
  <2>3. PICK n \in Stuck : \A k \in Stuck : n <= k
    <3> HIDE DEF Stuck
    <3>1. QED
      BY <2>1, <2>2, LeastNumber
  <2> DEFINE k == n - 1
  <2>4. k \in Nat /\ k \notin Stuck /\ k + 1 = n /\ k + 1 <= Len(a)
    <3> HIDE DEF Stuck
    <3>1. n # 0 /\ n \in Nat /\ n <= Len(a)
      BY <1>1, <2>2, <2>3
    <3>2. k \in Nat /\ ~ (n <= k) /\ k + 1 = n
      BY <3>1
    <3>3. QED
      BY <2>3, <3>1, <3>2
  <2>5. k \in 0 .. Len(a)
    BY <2>4
  <2> HIDE DEF k
  <2>6. PICK f : PathUpTo(a, k, f)
    BY <2>4, <2>5
  <2>7. k + 1 \notin Stuck
    BY <1>2, <2>4, <2>6
  <2>8. QED
    BY <2>3, <2>4, <2>7
<1>4. QED
  <2>1. Len(a) \in 0 .. Len(a)
    OBVIOUS
  <2>2. QED
    BY <1>3, <2>1

\* TraceTo goes on from the parent.
LEMMA TraceToEquation ==
  ASSUME NEW a, Len(a) \in Nat, DOMAIN a = 1 .. Len(a),
         \A i \in 1 .. Len(a) : a[i].parent \in Nat /\ a[i].parent < i,
         NEW id \in 1 .. Len(a)
  PROVE  TraceTo(a, id) = IF a[id].parent = NoParent THEN <<a[id].state>>
                          ELSE Append(TraceTo(a, a[id].parent), a[id].state)
<1> DEFINE path == CHOOSE f : PathUpTo(a, Len(a), f)
<1>1. PathUpTo(a, Len(a), path)
  BY PathUpToExists
<1>2. \A i : TraceTo(a, i) = path[i]
  BY DEF TraceTo, PathUpTo, PathStep
<1> HIDE DEF path
<1>3. path[id] = PathStep(a, path, id)
  BY <1>1 DEF PathUpTo
<1>4. QED
  BY <1>2, <1>3 DEF PathStep

\* A trace with a successor of its final state after it.
LEMMA TraceGoesOn ==
  ASSUME NEW m \in Models, NEW t \in Seq(States), IsTrace(m, t),
         NEW s \in States, s \in Range(m.step[Final(t)])
  PROVE  /\ Append(t, s) \in Seq(States)
         /\ Len(Append(t, s)) = Len(t) + 1
         /\ IsTrace(m, Append(t, s))
         /\ Final(Append(t, s)) = s
<1> DEFINE u == Append(t, s)
<1>1. /\ u \in Seq(States) /\ Len(u) = Len(t) + 1 /\ Len(t) \in Nat /\ Len(t) # 0
      /\ u[Len(t) + 1] = s /\ \A k \in 1 .. Len(t) : u[k] = t[k]
  <2>1. Len(t) \in Nat /\ Len(t) # 0
    BY ElementFacts DEF IsTrace
  <2>2. QED
    BY <2>1, AppendFacts
<1> HIDE DEF u
<1>2. u # << >> /\ u[1] \in Range(m.init)
  BY <1>1 DEF IsTrace
<1>3. ASSUME NEW i \in 1 .. Len(u) - 1 PROVE u[i + 1] \in Range(m.step[u[i]])
  <2>1. CASE i = Len(t)
    BY <1>1, <2>1 DEF Final
  <2>2. CASE i # Len(t)
    <3>1. i \in 1 .. Len(t) - 1 /\ u[i] = t[i] /\ u[i + 1] = t[i + 1]
      BY <1>1, <2>2
    <3>2. QED
      BY <3>1 DEF IsTrace
  <2>3. QED
    BY <2>1, <2>2
<1>4. Final(u) = s
  BY <1>1 DEF Final
<1>5. QED
  BY <1>1, <1>2, <1>3, <1>4 DEF IsTrace, u

(***************************************************************************)
(* The trace of an id is a behaviour of the program, as long as the depth  *)
(* of its state says.                                                      *)
(***************************************************************************)
Traced(id) ==
  LET t == TraceTo(arena, id)
  IN  /\ t \in Seq(States)
      /\ Len(t) = arena[id].depth + 1
      /\ IsTrace(Program, t)
      /\ Final(t) = arena[id].state

LEMMA TracesOfArena ==
  ASSUME GraphTypeOK, LinksAreSteps
  PROVE  \A id \in DOMAIN arena : Traced(id)
<1> DEFINE Untraced == {id \in DOMAIN arena : ~ Traced(id)}
<1>1. SUFFICES ASSUME Untraced # {} PROVE FALSE
  OBVIOUS
<1>2. /\ Len(arena) \in Nat /\ DOMAIN arena = 1 .. Len(arena) /\ Program \in Models
      /\ \A i \in DOMAIN arena : /\ arena[i].state \in States
                                 /\ arena[i].parent \in Nat /\ arena[i].depth \in Nat
  BY ArenaTypes
<1>3. PICK id \in Untraced : \A j \in Untraced : id <= j
  <2>1. Untraced \in SUBSET Nat
    BY <1>2
  <2> HIDE DEF Untraced
  <2>2. QED
    BY <1>1, <2>1, LeastNumber
<1>4. \A i \in 1 .. Len(arena) : arena[i].parent \in Nat /\ arena[i].parent < i
  BY <1>2 DEF LinksAreSteps
<1>5. id \in 1 .. Len(arena) /\ ~ Traced(id)
  BY <1>2, <1>3
<1>6. TraceTo(arena, id) = IF arena[id].parent = NoParent THEN <<arena[id].state>>
                           ELSE Append(TraceTo(arena, arena[id].parent), arena[id].state)
  BY <1>2, <1>4, <1>5, TraceToEquation
<1> DEFINE s == arena[id].state
<1>7. CASE arena[id].parent = NoParent
  <2>1. arena[id].depth = 0 /\ s \in Range(Program.init) /\ s \in States
    BY <1>2, <1>5, <1>7 DEF LinksAreSteps
  <2>2. TraceTo(arena, id) = <<s>>
    BY <1>6, <1>7
  <2> HIDE DEF s
  <2>3. <<s>> \in Seq(States) /\ Len(<<s>>) = 0 + 1 /\ <<s>>[1] = s /\ <<s>> # << >>
    BY <2>1
  <2>4. IsTrace(Program, <<s>>) /\ Final(<<s>>) = s
    BY <2>1, <2>3 DEF IsTrace, Final
  <2>5. QED
    BY <1>5, <2>1, <2>2, <2>3, <2>4 DEF Traced, s
<1>8. CASE arena[id].parent # NoParent
  <2> DEFINE p == arena[id].parent
             t == TraceTo(arena, p)
  <2>1. /\ arena[id].depth = arena[p].depth + 1
        /\ s \in Range(Program.step[arena[p].state])
        /\ p < id /\ p \in Nat /\ s \in States
    BY <1>2, <1>5, <1>8 DEF LinksAreSteps
  <2>2. p \in DOMAIN arena /\ ~ (id <= p) /\ id \in Nat
    BY <1>2, <1>5, <1>8, <2>1 DEF NoParent
  <2>3. Traced(p)
    BY <1>3, <2>2
  <2>4. t \in Seq(States) /\ Len(t) = arena[p].depth + 1 /\ IsTrace(Program, t)
        /\ Final(t) = arena[p].state
    BY <2>3 DEF Traced
  <2>5. TraceTo(arena, id) = Append(t, s)
    BY <1>6, <1>8
  <2> HIDE DEF t, s, p
  <2>6. /\ Append(t, s) \in Seq(States) /\ Len(Append(t, s)) = Len(t) + 1
        /\ IsTrace(Program, Append(t, s)) /\ Final(Append(t, s)) = s
    BY <1>2, <2>1, <2>4, TraceGoesOn
  <2>7. Traced(id)
    BY <2>1, <2>4, <2>5, <2>6 DEF Traced, s
  <2>8. QED
    BY <1>5, <2>7
<1>9. QED
  BY <1>7, <1>8

\* The state of an id is in the layer of its depth.
LEMMA DepthsAreLayers ==
  ASSUME GraphTypeOK, LinksAreSteps, NEW id \in DOMAIN arena
  PROVE  arena[id].state \in Layer(Program, arena[id].depth)
<1> DEFINE t == TraceTo(arena, id)
<1>1. arena[id].depth \in Nat /\ Program \in Models
  BY ArenaTypes
<1>2. /\ t \in Seq(States) /\ Len(t) = arena[id].depth + 1 /\ IsTrace(Program, t)
      /\ Final(t) = arena[id].state
  BY TracesOfArena DEF Traced
<1> HIDE DEF t
<1>3. t[Len(t)] \in Layer(Program, arena[id].depth)
  BY <1>1, <1>2, TraceInLayers
<1>4. QED
  BY <1>2, <1>3 DEF Final

(***************************************************************************)
(* When every state of depth less than d has been expanded, the layers up  *)
(* to d are in the arena, at no greater depth.  By the least layer of      *)
(* which this fails.                                                       *)
(***************************************************************************)
FoundBy(s, depth) == \E id \in DOMAIN arena : arena[id].state = s /\ arena[id].depth <= depth

LEMMA LayersFound ==
  ASSUME GraphTypeOK, RootsFirst, EdgesAreTargets, initCount # Initial, NEW d \in Nat,
         \A id \in DOMAIN arena : arena[id].depth < d => id \in DOMAIN edges
  PROVE  \A n \in 0 .. d : \A s \in Layer(Program, n) : FoundBy(s, n)
<1> DEFINE Missed == {n \in 0 .. d : ~ \A s \in Layer(Program, n) : FoundBy(s, n)}
<1>0. /\ Len(arena) \in Nat /\ DOMAIN arena = 1 .. Len(arena) /\ Program \in Models
      /\ \A i \in DOMAIN arena : arena[i].state \in States /\ arena[i].depth \in Nat
      /\ Program.init \in Seq(States) /\ \A s \in States : Program.step[s] \in Seq(States)
  BY ArenaTypes
<1>1. SUFFICES ASSUME Missed # {} PROVE FALSE
  OBVIOUS
<1>2. PICK n \in Missed : \A k \in Missed : n <= k
  <2>1. Missed \in SUBSET Nat
    OBVIOUS
  <2> HIDE DEF Missed
  <2>2. QED
    BY <1>1, <2>1, LeastNumber
<1>3. PICK s \in Layer(Program, n) : ~ FoundBy(s, n)
  BY <1>2
<1>4. n # 0
  <2>1. ASSUME n = 0 PROVE FALSE
    <3>1. s \in Range(Program.init)
      BY <1>0, <1>3, <2>1, LayersEquations
    <3>2. PICK k \in DOMAIN Program.init : s = Program.init[k]
      BY <3>1 DEF Range
    <3>3. k \in DOMAIN arena
      <4>1. Len(Program.init) <= Len(arena) /\ k \in 1 .. Len(Program.init)
            /\ Len(Program.init) \in Nat
        BY <1>0, <3>2, ElementFacts DEF RootsFirst
      <4>2. QED
        BY <1>0, <4>1
    <3>4. arena[k].state = s /\ arena[k].depth = 0
      BY <3>2, <3>3 DEF RootsFirst
    <3>5. QED
      BY <1>3, <2>1, <3>3, <3>4 DEF FoundBy
  <2>2. QED
    BY <2>1
<1> DEFINE j == n - 1
<1>5. j \in Nat /\ j + 1 = n /\ j \in 0 .. d /\ ~ (n <= j) /\ j < d
  BY <1>2, <1>4
<1>6. j \notin Missed
  BY <1>2, <1>5
<1>7. PICK t \in Layer(Program, j) : s \in Range(Program.step[t])
  <2> HIDE DEF j
  <2>1. QED
    BY <1>0, <1>3, <1>5, LayersComeFrom
<1>8. PICK id \in DOMAIN arena : arena[id].state = t /\ arena[id].depth <= j
  BY <1>5, <1>6, <1>7 DEF FoundBy
<1>9. id \in DOMAIN edges /\ arena[id].depth \in Nat
  BY <1>0, <1>5, <1>8
<1>10. Expanded(id)
  BY <1>9 DEF EdgesAreTargets
<1>11. PICK k \in DOMAIN Program.step[t] : s = Program.step[t][k]
  BY <1>7 DEF Range
<1>12. k \in DOMAIN Targets(t) /\ Targets(t)[k] = s
  <2>1. t \in States /\ Program.step[t] \in Seq(States)
    BY <1>0, <1>8
  <2>2. k \in 1 .. Len(Program.step[t]) /\ Len(Program.step[t]) \in Nat
    BY <1>11, <2>1, ElementFacts
  <2>3. CASE Targets(t) = Program.step[t]
    BY <1>11, <2>3
  <2>4. CASE Targets(t) = Append(Program.step[t], t)
    BY <1>11, <2>1, <2>2, <2>4, AppendFacts
  <2>5. QED
    BY <2>3, <2>4 DEF Targets
<1>13. PICK i \in DOMAIN arena : arena[i].state = s /\ arena[i].depth <= arena[id].depth + 1
  BY <1>8, <1>10, <1>12 DEF Expanded
<1>14. arena[i].depth <= n /\ i \in DOMAIN arena
  <2>1. arena[i].depth \in Nat /\ arena[id].depth <= j
    BY <1>0, <1>8, <1>13
  <2>2. QED
    BY <1>5, <1>9, <1>13, <2>1
<1>15. QED
  BY <1>3, <1>13, <1>14 DEF FoundBy

-----------------------------------------------------------------------------
(***************************************************************************)
(* The program and the command line are given: what is said of them alone  *)
(* stays true.                                                             *)
(***************************************************************************)
LEMMA SameProgram ==
  ASSUME UNCHANGED <<spec, config>>
  PROVE  /\ Program' = Program
         /\ \A s, t : EdgeBits(s, t)' = EdgeBits(s, t)
         /\ \A s : PredBits(s)' = PredBits(s)
         /\ \A s : EnabledBits(s)' = EnabledBits(s)
         /\ \A s : Targets(s)' = Targets(s)
         /\ \A s : Expands(s)' = Expands(s)
         /\ \A s : EdgeFailsAt(s)' = EdgeFailsAt(s)
         /\ \A s : Fails(s)' = Fails(s)
         /\ \A n : Layer(Program, n)' = Layer(Program, n)
<1>1. Program' = Program
  BY DEF Program
<1>2. \A s, t : EdgeBits(s, t)' = EdgeBits(s, t)
  BY DEF EdgeBits, TakenBits, KeptBits, NextBits, Matches, ValueOf
<1>3. \A s : PredBits(s)' = PredBits(s)
  BY DEF PredBits
<1>4. \A s : EnabledBits(s)' = EnabledBits(s)
  BY DEF EnabledBits, Framed, ValueOf
<1>5. \A s : Targets(s)' = Targets(s)
  BY <1>1 DEF Targets
<1>6. \A s : Expands(s)' = Expands(s)
  BY <1>1 DEF Expands
<1>7. \A s : EdgeFailsAt(s)' = EdgeFailsAt(s)
  BY <1>5 DEF EdgeFailsAt
<1>8. \A s : Fails(s)' = Fails(s)
  BY <1>1, <1>7 DEF Fails
<1>9. \A n : Layer(Program, n)' = Layer(Program, n)
  BY <1>1 DEF Layer, Layers, Image
<1>10. QED
  BY <1>1, <1>2, <1>3, <1>4, <1>5, <1>6, <1>7, <1>8, <1>9

\* A true report stays true.
LEMMA TrueStays ==
  ASSUME NEW o, UNCHANGED <<spec, config>>, IsTrue(o)
  PROVE  IsTrue(o)'
<1>1. Program' = Program /\ config' = config
  BY SameProgram
<1>2. \A n : HoldsAt(Program, n)' = HoldsAt(Program, n)
  BY SameProgram DEF HoldsAt
<1>3. \A n : ExpandsAt(Program, config, n)' = ExpandsAt(Program, config, n)
  BY SameProgram DEF ExpandsAt
<1>4. DeadlockIsTrue(o)' = DeadlockIsTrue(o)
  BY <1>1, <1>3 DEF DeadlockIsTrue, IsTrace, Culprit
<1>5. ViolationIsTrue(o)' = ViolationIsTrue(o)
  BY <1>1, <1>2, <1>3 DEF ViolationIsTrue, IsTrace, Culprit
<1>6. ErrorIsTrue(o)' = ErrorIsTrue(o)
  BY <1>1, SameProgram DEF ErrorIsTrue, IsTrace
<1>7. NothingToReport' = NothingToReport
  BY <1>2, <1>3, SameProgram DEF NothingToReport
<1>8. QED
  BY <1>1, <1>4, <1>5, <1>6, <1>7 DEF IsTrue, Reached

(***************************************************************************)
(* build returns with a true report: everything but the outcome is as it   *)
(* was.                                                                    *)
(***************************************************************************)
OutcomeOK(o) ==
  o \in [kind : {"none", "error", "deadlock", "incomplete", "invariant", "graph"},
         trace : Seq(States), states : Nat]

FinishedOnly(o) ==
  o.kind = "graph" => initCount # Initial /\ Len(edges) = Len(arena) /\ Violating = {}

\* The parts of IInv that do not depend on the outcome.
Growing ==
  /\ StatesOnce /\ LinksAreSteps /\ DepthsInOrder /\ TwoLevels
  /\ RootsFirst /\ EdgesAreTargets /\ AtomsAreTrue

LEMMA ReportStep ==
  ASSUME IInv, NEW o, Report(o), OutcomeOK(o), FinishedOnly(o), IsTrue(o)
  PROVE  IInv'
<1>1. UNCHANGED <<spec, config, arena, stateBits, edges, initCount>> /\ outcome' = o
  BY DEF Report
<1>2. GraphTypeOK'
  BY <1>1 DEF IInv, GraphTypeOK, OutcomeOK, StateAtomsOf, EdgeAtomsOf
<1>3. StatesOnce' /\ LinksAreSteps' /\ DepthsInOrder' /\ TwoLevels' /\ RootsFirst'
  BY <1>1 DEF IInv, StatesOnce, LinksAreSteps, DepthsInOrder, TwoLevels, RootsFirst, Program,
     Cursor
<1>4. EdgesAreTargets'
  BY <1>1, SameProgram DEF IInv, EdgesAreTargets, Expanded
<1>5. AtomsAreTrue'
  BY <1>1, SameProgram DEF IInv, AtomsAreTrue
<1>6. GraphIsFinished'
  BY <1>1 DEF FinishedOnly, GraphIsFinished, Violating, Program
<1>7. BuildReportsAreTrue'
  <2>1. IsTrue(o)'
    BY <1>1, TrueStays
  <2>2. QED
    BY <1>1, <2>1 DEF BuildReportsAreTrue, IsTrue, DeadlockIsTrue, ViolationIsTrue, ErrorIsTrue
<1>8. QED
  BY <1>2, <1>3, <1>4, <1>5, <1>6, <1>7 DEF IInv

-----------------------------------------------------------------------------
(***************************************************************************)
(* Reports.  When all states of depth less than d have been expanded, all  *)
(* states less than d steps away expand, and no evaluation fails there but *)
(* perhaps that of an invariant.                                           *)
(***************************************************************************)
LEMMA NearStatesExpand ==
  ASSUME IInv, initCount # Initial, NEW d \in Nat,
         \A id \in DOMAIN arena : arena[id].depth < d => id \in DOMAIN edges,
         NEW n \in 0 .. d - 1, NEW s \in Layer(Program, n)
  PROVE  /\ \E id \in DOMAIN edges :
              id \in DOMAIN arena /\ arena[id].state = s /\ arena[id].depth <= n
         /\ Expands(s) /\ s \notin spec.actionFails /\ s \notin spec.predFails
         /\ ~ EdgeFailsAt(s)
<1>1. n \in 0 .. d
  OBVIOUS
<1>2. FoundBy(s, n)
  BY <1>1, LayersFound DEF IInv
<1>3. PICK id \in DOMAIN arena : arena[id].state = s /\ arena[id].depth <= n
  BY <1>2 DEF FoundBy
<1>4. arena[id].depth \in Nat
  BY ArenaTypes DEF IInv
<1>5. id \in DOMAIN edges
  BY <1>3, <1>4
<1>6. Expanded(id)
  BY <1>5 DEF IInv, EdgesAreTargets
<1>7. s \notin spec.predFails
  BY <1>3 DEF IInv, AtomsAreTrue
<1>8. QED
  BY <1>3, <1>5, <1>6, <1>7 DEF Expanded

\* What has been expanded when the state at the cursor is.
LEMMA BeforeCursor ==
  ASSUME IInv, Expanding
  PROVE  /\ Cursor \in DOMAIN arena
         /\ Source \in States
         /\ arena[Cursor].depth \in Nat
         /\ initCount # Initial
         /\ \A id \in DOMAIN arena :
              arena[id].depth < arena[Cursor].depth => id \in DOMAIN edges
<1>0. GraphTypeOK /\ DepthsInOrder
  BY DEF IInv
<1>1. Cursor \in DOMAIN arena /\ initCount # Initial
  BY <1>0, ArenaTypes DEF Expanding, Cursor
<1>2. Source \in States /\ arena[Cursor].depth \in Nat
  BY <1>0, <1>1, ArenaTypes DEF Source
<1>3. ASSUME NEW id \in DOMAIN arena, arena[id].depth < arena[Cursor].depth
      PROVE  id \in DOMAIN edges
  <2>1. arena[id].depth \in Nat /\ id \in Nat /\ id >= 1
    BY <1>0, ArenaTypes
  <2>2. ~ (Cursor <= id)
    BY <1>0, <1>1, <1>2, <1>3, <2>1 DEF DepthsInOrder
  <2>3. QED
    BY <1>0, <2>1, <2>2, ArenaTypes DEF Cursor
<1>4. QED
  BY <1>1, <1>2, <1>3

\* An error report at the state under expansion.
LEMMA ErrorAtCursor ==
  ASSUME IInv, Expanding, Fails(Source)
  PROVE  LET o == Failed(TraceTo(arena, Cursor))
         IN  OutcomeOK(o) /\ FinishedOnly(o) /\ IsTrue(o)
<1> DEFINE t == TraceTo(arena, Cursor)
<1>1. t \in Seq(States) /\ IsTrace(Program, t) /\ Final(t) = Source
  BY BeforeCursor, TracesOfArena DEF Traced, Source, IInv
<1> HIDE DEF t
<1>2. /\ Failed(t).kind = "error" /\ Failed(t).trace = t
      /\ OutcomeOK(Failed(t))
  BY <1>1 DEF Failed, Result, OutcomeOK
<1>3. t # << >>
  BY <1>1 DEF IsTrace
<1>4. IsTrue(Failed(t)) /\ FinishedOnly(Failed(t))
  BY <1>1, <1>2, <1>3 DEF IsTrue, ErrorIsTrue, FinishedOnly
<1>5. QED
  BY <1>2, <1>4 DEF t

\* Reports while the initial states are enumerated and interned.
LEMMA InitialReports ==
  ASSUME IInv, InitFails \/ InitialFails
  PROVE  IInv'
<1>0. GraphTypeOK
  BY DEF IInv
<1>1. CASE InitFails
  <2> DEFINE o == Failed(<< >>)
  <2>1. /\ o.kind = "error" /\ o.trace = << >> /\ OutcomeOK(o)
    BY DEF Failed, Result, OutcomeOK
  <2>2. Program.initError /\ Report(o)
    BY <1>1 DEF InitFails
  <2> HIDE DEF o
  <2>3. IsTrue(o) /\ FinishedOnly(o)
    BY <2>1, <2>2 DEF IsTrue, ErrorIsTrue, FinishedOnly
  <2>4. QED
    BY <2>1, <2>2, <2>3, ReportStep
<1>2. CASE InitialFails
  <2> DEFINE s == NextInitial
             o == Failed(<<s>>)
  <2>1. Len(arena) + 1 \in DOMAIN Program.init /\ Program.init \in Seq(States)
    <3>1. Len(arena) < Len(Program.init) /\ Len(arena) \in Nat /\ Program.init \in Seq(States)
      BY <1>0, <1>2, ArenaTypes DEF InitialFails, InitialLeft
    <3>2. QED
      BY <3>1, ElementFacts
  <2>2. s \in States /\ s \in Range(Program.init) /\ s \in spec.predFails /\ Report(o)
    BY <1>2, <2>1 DEF InitialFails, InitialLeft, NextInitial, Range
  <2> HIDE DEF s
  <2>3. <<s>> \in Seq(States) /\ Len(<<s>>) = 1 /\ <<s>>[1] = s /\ <<s>> # << >>
    BY <2>2
  <2>4. /\ o.kind = "error" /\ o.trace = <<s>> /\ OutcomeOK(o)
    BY <2>3 DEF Failed, Result, OutcomeOK
  <2> HIDE DEF o
  <2>5. IsTrace(Program, <<s>>) /\ Final(<<s>>) = s
    BY <2>2, <2>3 DEF IsTrace, Final
  <2>6. IsTrue(o) /\ FinishedOnly(o)
    BY <2>2, <2>3, <2>4, <2>5 DEF IsTrue, ErrorIsTrue, FinishedOnly, Fails
  <2>7. QED
    BY <2>2, <2>4, <2>6, ReportStep
<1>3. QED
  BY <1>1, <1>2

\* Reports at the state under expansion.
LEMMA ExpansionReports ==
  ASSUME IInv, StepFails \/ FindDeadlock \/ ActionFails \/ EdgeFails
  PROVE  IInv'
<1>1. CASE StepFails
  <2>1. Expanding /\ Fails(Source) /\ Report(Failed(TraceTo(arena, Cursor)))
    BY <1>1 DEF StepFails, Fails
  <2>2. QED
    BY <2>1, ErrorAtCursor, ReportStep
<1>2. CASE ActionFails
  <2>1. Expanding /\ Fails(Source) /\ Report(Failed(TraceTo(arena, Cursor)))
    BY <1>2 DEF ActionFails, Fails
  <2>2. QED
    BY <2>1, ErrorAtCursor, ReportStep
<1>3. CASE EdgeFails
  <2>1. Expanding /\ Fails(Source) /\ Report(Failed(TraceTo(arena, Cursor)))
    BY <1>3 DEF EdgeFails, Interns, Fails
  <2>2. QED
    BY <2>1, ErrorAtCursor, ReportStep
<1>4. CASE FindDeadlock
  <2> DEFINE t == TraceTo(arena, Cursor)
             o == Result("deadlock", t, 0)
             d == arena[Cursor].depth
  <2>1. /\ Expanding /\ Source \notin Program.stepError
        /\ Program.step[Source] = << >> /\ config.deadlock
        /\ Report(o)
    BY <1>4 DEF FindDeadlock
  <2>2. /\ t \in Seq(States) /\ IsTrace(Program, t) /\ Final(t) = Source
        /\ Len(t) = d + 1
    BY <2>1, BeforeCursor, TracesOfArena DEF Traced, Source, IInv
  <2> HIDE DEF t
  <2>3. /\ o.kind = "deadlock" /\ o.trace = t /\ OutcomeOK(o)
    BY <2>2 DEF Result, OutcomeOK
  <2>4. /\ d \in Nat /\ initCount # Initial
        /\ \A id \in DOMAIN arena : arena[id].depth < d => id \in DOMAIN edges
    BY <2>1, BeforeCursor
  <2> HIDE DEF d, o
  <2>5. ASSUME NEW n \in 0 .. d - 1 PROVE ExpandsAt(Program, config, n)
    BY <2>4, NearStatesExpand DEF ExpandsAt, Expands
  <2>6. \A n \in 0 .. Len(t) - 2 : ExpandsAt(Program, config, n)
    <3>1. Len(t) - 2 = d - 1
      BY <2>2, <2>4
    <3>2. QED
      BY <2>5, <3>1
  <2>7. Culprit(Program, config, "deadlock", Final(t))
    BY <2>1, <2>2 DEF Culprit
  <2>8. IsTrue(o) /\ FinishedOnly(o)
    BY <2>2, <2>3, <2>6, <2>7 DEF IsTrue, DeadlockIsTrue, FinishedOnly
  <2>9. QED
    BY <2>1, <2>3, <2>8, ReportStep
<1>5. QED
  BY <1>1, <1>2, <1>3, <1>4

-----------------------------------------------------------------------------
(***************************************************************************)
(* The targets of a state are its successors and itself, each once.        *)
(***************************************************************************)
LEMMA TargetsFacts ==
  ASSUME GraphTypeOK, NEW s \in States
  PROVE  /\ Targets(s) \in Seq(States)
         /\ Range(Targets(s)) = Range(Program.step[s]) \cup {s}
         /\ IsInjective(Targets(s))
<1> DEFINE q == Program.step[s]
<1>1. q \in Seq(States) /\ IsInjective(q)
  <2>1. Program \in Models
    BY ArenaTypes
  <2>2. QED
    BY <2>1, ModelFacts DEF WellFormed
<1>2. CASE s \in Range(q)
  <2>1. Targets(s) = q
    BY <1>2 DEF Targets
  <2> HIDE DEF q
  <2>2. QED
    BY <1>1, <1>2, <2>1 DEF q
<1>3. CASE s \notin Range(q)
  <2>1. Targets(s) = Append(q, s)
    BY <1>3 DEF Targets
  <2> HIDE DEF q
  <2>2. Append(q, s) \in Seq(States) /\ Range(Append(q, s)) = Range(q) \cup {s}
    BY <1>1, AppendFacts, RangeOfAppend
  <2>3. IsInjective(Append(q, s))
    <3> DEFINE u == Append(q, s)
    <3>1. /\ Len(q) \in Nat /\ DOMAIN q = 1 .. Len(q) /\ DOMAIN u = 1 .. Len(q) + 1
          /\ u[Len(q) + 1] = s
          /\ \A k \in 1 .. Len(q) : u[k] = q[k]
      BY <1>1, AppendFacts, ElementFacts
    <3> HIDE DEF u
    <3>2. \A k \in 1 .. Len(q) : u[k] # s
      BY <1>3, <3>1 DEF Range
    <3>3. \A i, k \in 1 .. Len(q) : u[i] = u[k] => i = k
      BY <1>1, <3>1 DEF IsInjective
    <3>4. \A k \in 1 .. Len(q) + 1 : k \in 1 .. Len(q) \/ k = Len(q) + 1
      BY <3>1
    <3>5. IsInjective(u)
      BY <3>1, <3>2, <3>3, <3>4 DEF IsInjective
    <3>6. QED
      BY <3>5 DEF u
  <2>4. QED
    BY <2>1, <2>2, <2>3 DEF q
<1>4. QED
  BY <1>2, <1>3

\* The states interned for the first time are successors of the source.
LEMMA FreshFacts ==
  ASSUME IInv, Expanding
  PROVE  /\ Fresh \in Seq(States)
         /\ IsInjective(Fresh)
         /\ Range(Fresh) = Range(Targets(Source)) \ Found(arena)
         /\ Range(Fresh) \subseteq Range(Program.step[Source])
         /\ Range(FailingFresh) = Range(Fresh) \cap spec.predFails
         /\ FailingFresh \in Seq(States)
<1>1. GraphTypeOK /\ Source \in States /\ Cursor \in DOMAIN arena
  BY BeforeCursor DEF IInv
<1> DEFINE q == Targets(Source)
<1>2. q \in Seq(States) /\ Range(q) = Range(Program.step[Source]) \cup {Source} /\ IsInjective(q)
  BY <1>1, TargetsFacts
<1> HIDE DEF q
<1>3. /\ Only(q, States \ Found(arena)) \in Seq(States)
      /\ Range(Only(q, States \ Found(arena))) = Range(q) \cap (States \ Found(arena))
      /\ IsInjective(Only(q, States \ Found(arena)))
  BY <1>2, OnlyFacts
<1>4. Fresh = Only(q, States \ Found(arena))
  BY DEF Fresh, q
<1>5. Source \in Found(arena)
  BY <1>1 DEF Source, Found
<1>6. Range(q) \subseteq States
  BY <1>2, RangeInStates
<1>7. Range(Fresh) = Range(q) \ Found(arena) /\ Range(Fresh) \subseteq Range(Program.step[Source])
  BY <1>2, <1>3, <1>4, <1>5, <1>6
<1>8. Fresh \in Seq(States) /\ IsInjective(Fresh)
  BY <1>3, <1>4
<1>9. Range(FailingFresh) = Range(Fresh) \cap spec.predFails /\ FailingFresh \in Seq(States)
  BY <1>8, OnlyFacts DEF FailingFresh
<1>10. QED
  BY <1>7, <1>8, <1>9 DEF q

\* The report of a fresh target at which a predicate fails.
LEMMA TargetReports ==
  ASSUME IInv, TargetFails
  PROVE  IInv'
<1> DEFINE t == TraceTo(arena, Cursor)
           s == FailingFresh[1]
           o == Failed(Append(t, s))
<1>1. Expanding /\ FailingFresh # << >> /\ Report(o)
  BY DEF TargetFails, Interns
<1>2. s \in Range(FailingFresh)
  <2>1. FailingFresh \in Seq(States)
    BY <1>1, FreshFacts
  <2>2. 1 \in DOMAIN FailingFresh
    BY <1>1, <2>1, ElementFacts
  <2>3. QED
    BY <2>2 DEF Range
<1>3. s \in spec.predFails /\ s \in Range(Program.step[Source])
  BY <1>1, <1>2, FreshFacts
<1>4. GraphTypeOK /\ Program \in Models
  BY ArenaTypes DEF IInv
<1>5. s \in States
  BY <1>3, <1>4, SpecFacts DEF GraphTypeOK
<1>6. t \in Seq(States) /\ IsTrace(Program, t) /\ Final(t) = Source
  BY <1>1, BeforeCursor, TracesOfArena DEF Traced, Source, IInv
<1> HIDE DEF t, s
<1>7. /\ Append(t, s) \in Seq(States) /\ IsTrace(Program, Append(t, s))
      /\ Final(Append(t, s)) = s
  BY <1>3, <1>4, <1>5, <1>6, TraceGoesOn
<1>8. /\ o.kind = "error" /\ o.trace = Append(t, s) /\ OutcomeOK(o)
  BY <1>7 DEF Failed, Result, OutcomeOK
<1> HIDE DEF o
<1>9. Fails(s)
  BY <1>3 DEF Fails
<1>10. Append(t, s) # << >>
  BY <1>7 DEF IsTrace
<1>11. IsTrue(o) /\ FinishedOnly(o)
  BY <1>7, <1>8, <1>9, <1>10 DEF IsTrue, ErrorIsTrue, FinishedOnly
<1>12. QED
  BY <1>1, <1>8, <1>11, ReportStep

\* Reports when every state has been expanded.
LEMMA AllExpand ==
  ASSUME IInv, Complete
  PROVE  /\ initCount # Initial /\ DOMAIN edges = DOMAIN arena /\ Len(edges) = Len(arena)
         /\ \A n \in Nat : \A s \in Layer(Program, n) :
              /\ \E id \in DOMAIN arena : arena[id].state = s /\ arena[id].depth <= n
              /\ Expands(s) /\ s \notin spec.actionFails /\ s \notin spec.predFails
              /\ ~ EdgeFailsAt(s)
<1>1. /\ Len(arena) \in Nat /\ DOMAIN arena = 1 .. Len(arena)
      /\ Len(edges) \in Nat /\ DOMAIN edges = 1 .. Len(edges)
  BY ArenaTypes DEF IInv
<1>2. initCount # Initial /\ Len(edges) = Len(arena) /\ DOMAIN edges = DOMAIN arena
  <2>1. Len(edges) <= Len(arena)
    BY DEF IInv, RootsFirst
  <2>2. initCount # Initial /\ Len(edges) + 1 > Len(arena)
    BY DEF Complete, Cursor
  <2>3. Len(arena) \in Nat /\ Len(edges) \in Nat
    BY <1>1
  <2>4. Len(edges) = Len(arena)
    BY <2>1, <2>2, <2>3
  <2>5. QED
    BY <1>1, <2>2, <2>4
<1>3. ASSUME NEW n \in Nat, NEW s \in Layer(Program, n)
      PROVE  /\ \E id \in DOMAIN arena : arena[id].state = s /\ arena[id].depth <= n
             /\ Expands(s) /\ s \notin spec.actionFails /\ s \notin spec.predFails
             /\ ~ EdgeFailsAt(s)
  <2> DEFINE d == n + 1
  <2>1. d \in Nat /\ n \in 0 .. d - 1
    OBVIOUS
  <2> HIDE DEF d
  <2>2. QED
    BY <1>2, <2>1, NearStatesExpand
<1>4. QED
  BY <1>2, <1>3

LEMMA FinalReports ==
  ASSUME IInv, GraphDone \/ FindViolation
  PROVE  IInv'
<1>0. Complete
  BY DEF GraphDone, FindViolation
<1>1. initCount # Initial /\ Len(edges) = Len(arena) /\ Horizon \in Nat
  BY <1>0, AllExpand, SearchAssumption
<1>2. ASSUME NEW n \in Nat PROVE ExpandsAt(Program, config, n)
  BY <1>0, AllExpand DEF ExpandsAt, Expands
<1>3. CASE GraphDone
  <2> DEFINE o == Result("graph", << >>, Len(arena))
  <2>1. Violating = {} /\ Report(o)
    BY <1>3 DEF GraphDone
  <2>2. Len(arena) \in Nat
    BY ArenaTypes DEF IInv
  <2>3. o.kind = "graph" /\ OutcomeOK(o)
    BY <2>2 DEF Result, OutcomeOK
  <2> HIDE DEF o
  <2>4. ASSUME NEW n \in Nat, NEW s \in Layer(Program, n)
        PROVE  Program.invs[s] = "holds" /\ ~ Fails(s)
    <3>1. /\ \E id \in DOMAIN arena : arena[id].state = s
          /\ Expands(s) /\ s \notin spec.actionFails /\ s \notin spec.predFails
          /\ ~ EdgeFailsAt(s)
      BY <1>0, AllExpand
    <3>2. Program.invs[s] = "holds"
      BY <2>1, <3>1 DEF Violating
    <3>3. QED
      BY <3>1, <3>2 DEF Fails, Expands
  <2>5. NothingToReport
    <3>1. \A n \in 0 .. Horizon : n \in Nat
      BY <1>1
    <3>2. QED
      BY <1>2, <2>4, <3>1 DEF NothingToReport, HoldsAt
  <2>6. IsTrue(o) /\ FinishedOnly(o)
    BY <1>1, <2>1, <2>3, <2>5 DEF IsTrue, FinishedOnly
  <2>7. QED
    BY <2>1, <2>3, <2>6, ReportStep
<1>4. CASE FindViolation
  <2>1. PICK id \in Violating :
          /\ IsFirst(id)
          /\ Report(IF Program.invs[arena[id].state] = "violated"
                    THEN Result("invariant", TraceTo(arena, id), 0)
                    ELSE Failed(TraceTo(arena, id)))
    BY <1>4 DEF FindViolation
  <2> DEFINE t == TraceTo(arena, id)
             s == arena[id].state
             d == arena[id].depth
  <2>2. id \in DOMAIN arena /\ Program.invs[s] # "holds"
    BY <2>1 DEF Violating
  <2>3. /\ d \in Nat /\ s \in States /\ Program \in Models
        /\ DOMAIN arena \subseteq Nat
        /\ \A i \in DOMAIN arena : arena[i].depth \in Nat
    BY <2>2, ArenaTypes DEF IInv
  <2>4. /\ t \in Seq(States) /\ IsTrace(Program, t) /\ Final(t) = s /\ Len(t) = d + 1
    BY <2>2, TracesOfArena DEF Traced, IInv
  <2>5. t # << >>
    BY <2>4 DEF IsTrace
  <2>6. CASE Program.invs[s] = "violated"
    <3> DEFINE o == Result("invariant", t, 0)
    <3>1. Report(o)
      BY <2>1, <2>6
    <3> HIDE DEF t
    <3>2. o.kind = "invariant" /\ o.trace = t /\ OutcomeOK(o)
      BY <2>4 DEF Result, OutcomeOK
    <3> HIDE DEF o
    <3>3. ASSUME NEW n \in 0 .. d - 1, NEW r \in Layer(Program, n)
          PROVE  Program.invs[r] = "holds"
      <4>1. n \in Nat /\ n < d
        BY <2>3
      <4>2. PICK j \in DOMAIN arena : arena[j].state = r /\ arena[j].depth <= n
        BY <1>0, <4>1, AllExpand
      <4>3. ~ (id <= j)
        <5>1. ~ (d <= arena[j].depth)
          BY <2>3, <4>1, <4>2
        <5>2. QED
          BY <2>2, <4>2, <5>1 DEF IInv, DepthsInOrder
      <4>4. j \notin Violating
        BY <2>1, <4>3 DEF IsFirst
      <4>5. QED
        BY <4>2, <4>4 DEF Violating
    <3>4. \A n \in 0 .. Len(t) - 2 : HoldsAt(Program, n)
      <4>1. Len(t) - 2 = d - 1
        BY <2>3, <2>4
      <4> HIDE DEF d
      <4>2. QED
        BY <3>3, <4>1 DEF HoldsAt
    <3>5. \A n \in 0 .. Horizon : ExpandsAt(Program, config, n)
      BY <1>1, <1>2
    <3>6. Culprit(Program, config, "violation", Final(t))
      BY <2>4, <2>6 DEF Culprit
    <3>7. IsTrue(o) /\ FinishedOnly(o)
      BY <2>4, <3>2, <3>4, <3>5, <3>6 DEF IsTrue, ViolationIsTrue, FinishedOnly
    <3>8. QED
      BY <3>1, <3>2, <3>7, ReportStep
  <2>7. CASE Program.invs[s] # "violated"
    <3> DEFINE o == Failed(t)
    <3>1. Report(o)
      BY <2>1, <2>7
    <3>2. Program.invs[s] = "error"
      <4>1. Program.invs[s] \in Verdicts
        BY <2>3, ModelFacts
      <4>2. QED
        BY <2>2, <2>7, <4>1 DEF Verdicts
    <3> HIDE DEF t
    <3>3. o.kind = "error" /\ o.trace = t /\ OutcomeOK(o)
      BY <2>4 DEF Failed, Result, OutcomeOK
    <3> HIDE DEF o
    <3>4. Fails(Final(t))
      BY <2>4, <3>2 DEF Fails
    <3>5. IsTrue(o) /\ FinishedOnly(o)
      BY <2>4, <2>5, <3>3, <3>4 DEF IsTrue, ErrorIsTrue, FinishedOnly
    <3>6. QED
      BY <3>1, <3>3, <3>5, ReportStep
  <2>8. QED
    BY <2>6, <2>7
<1>5. QED
  BY <1>3, <1>4

-----------------------------------------------------------------------------
(***************************************************************************)
(* Growth of the arena by a list of fresh states, of initial ones and of   *)
(* targets alike.                                                          *)
(***************************************************************************)
CanGrow(q, p, d) ==
  /\ q \in Seq(States) /\ p \in Nat /\ d \in Nat
  /\ IsInjective(q) /\ Range(q) \cap Found(arena) = {}
  /\ p = NoParent => d = 0 /\ Range(q) \subseteq Range(Program.init)
  /\ p # NoParent => /\ p \in DOMAIN arena /\ d = arena[p].depth + 1
                     /\ Range(q) \subseteq Range(Program.step[arena[p].state])
  /\ \A id \in DOMAIN arena : arena[id].depth <= d
  /\ arena' = arena \o Entries(q, p, d)
  /\ UNCHANGED <<spec, config>>

\* The arena is kept, and after it come the entries of the new states.
Grown(q, p, d) ==
  /\ arena' \in Seq(Entry)
  /\ Len(arena) \in Nat /\ Len(q) \in Nat
  /\ DOMAIN arena = 1 .. Len(arena)
  /\ Len(arena') = Len(arena) + Len(q)
  /\ DOMAIN arena' = 1 .. Len(arena) + Len(q)
  /\ \A i \in 1 .. Len(arena) : arena'[i] = arena[i]
  /\ \A i \in 1 .. Len(q) :
       /\ arena'[Len(arena) + i].state = q[i]
       /\ arena'[Len(arena) + i].parent = p
       /\ arena'[Len(arena) + i].depth = d

LEMMA GrowFacts ==
  ASSUME GraphTypeOK, NEW q, NEW p, NEW d, CanGrow(q, p, d)
  PROVE  Grown(q, p, d)
<1> DEFINE new == Entries(q, p, d)
<1>1. /\ q \in Seq(States) /\ p \in Nat /\ d \in Nat /\ arena' = arena \o new
      /\ arena \in Seq(Entry)
  BY DEF CanGrow, GraphTypeOK
<1>2. Len(q) \in Nat /\ DOMAIN q = 1 .. Len(q) /\ \A k \in 1 .. Len(q) : q[k] \in States
  BY <1>1, ElementFacts
<1>3. new = [k \in 1 .. Len(q) |-> [state |-> q[k], parent |-> p, depth |-> d]]
  BY <1>2 DEF Entries
<1>4. \A k \in 1 .. Len(q) : /\ new[k].state = q[k] /\ new[k].parent = p /\ new[k].depth = d
                             /\ new[k] \in Entry
  BY <1>1, <1>2, <1>3 DEF Entry
<1>5. new \in Seq(Entry) /\ Len(new) = Len(q)
  <2>1. new = [k \in 1 .. Len(q) |-> new[k]]
    BY <1>3
  <2> HIDE DEF new
  <2>2. QED
    BY <1>2, <1>4, <2>1
<1> HIDE DEF new
<1>6. /\ arena' \in Seq(Entry)
      /\ Len(arena') = Len(arena) + Len(q)
      /\ \A i \in 1 .. Len(arena) : arena'[i] = arena[i]
      /\ \A i \in 1 .. Len(q) : arena'[Len(arena) + i] = new[i]
  <2>1. arena \in Seq(Entry) /\ new \in Seq(Entry)
    BY <1>1, <1>5
  <2>2. /\ arena \o new \in Seq(Entry)
        /\ Len(arena \o new) = Len(arena) + Len(new)
        /\ \A i \in 1 .. Len(arena) : (arena \o new)[i] = arena[i]
        /\ \A i \in 1 .. Len(new) : (arena \o new)[Len(arena) + i] = new[i]
    BY <2>1, ConcatFacts
  <2>3. QED
    BY <1>1, <1>5, <2>2
<1>7. /\ Len(arena) \in Nat /\ DOMAIN arena = 1 .. Len(arena)
      /\ DOMAIN arena' = 1 .. Len(arena')
  BY <1>1, <1>6, ElementFacts
<1>8. \A i \in 1 .. Len(q) : /\ arena'[Len(arena) + i].state = q[i]
                             /\ arena'[Len(arena) + i].parent = p
                             /\ arena'[Len(arena) + i].depth = d
  BY <1>4, <1>6
<1>9. QED
  BY <1>2, <1>6, <1>7, <1>8 DEF Grown

\* An entry of the grown arena is an old one or of one of the new states.
LEMMA GrownEntries ==
  ASSUME NEW q \in Seq(States), NEW p, NEW d, Grown(q, p, d), NEW i \in DOMAIN arena'
  PROVE  \/ i \in DOMAIN arena /\ arena'[i] = arena[i]
         \/ /\ i > Len(arena) /\ i - Len(arena) \in 1 .. Len(q)
            /\ arena'[i].state = q[i - Len(arena)]
            /\ arena'[i].state \in Range(q)
            /\ arena'[i].parent = p /\ arena'[i].depth = d
<1>1. Len(arena) \in Nat /\ Len(q) \in Nat /\ i \in 1 .. Len(arena) + Len(q)
      /\ DOMAIN arena = 1 .. Len(arena)
  BY DEF Grown
<1>2. CASE i <= Len(arena)
  <2>1. i \in 1 .. Len(arena)
    BY <1>1, <1>2
  <2>2. QED
    BY <1>1, <2>1 DEF Grown
<1>3. CASE i > Len(arena)
  <2>1. PICK k \in Nat : k = i - Len(arena)
    BY <1>1, <1>3
  <2>2. k \in 1 .. Len(q) /\ Len(arena) + k = i
    BY <1>1, <1>3, <2>1
  <2>3. /\ arena'[Len(arena) + k].state = q[k]
        /\ arena'[Len(arena) + k].parent = p /\ arena'[Len(arena) + k].depth = d
    BY <2>2 DEF Grown
  <2>4. q[k] \in Range(q)
    BY <2>2, ElementFacts DEF Range
  <2>5. QED
    BY <1>3, <2>1, <2>2, <2>3, <2>4
<1>4. QED
  BY <1>1, <1>2, <1>3

\* Growth keeps the states apart, the links to be steps and the depths in order.
LEMMA GrowKeeps ==
  ASSUME IInv, NEW q, NEW p, NEW d, CanGrow(q, p, d)
  PROVE  /\ StatesOnce' /\ LinksAreSteps' /\ DepthsInOrder'
         /\ Found(arena') = Found(arena) \cup Range(q)
         /\ \A i \in DOMAIN arena' : arena'[i].depth <= d
<1>0. GraphTypeOK /\ q \in Seq(States) /\ p \in Nat /\ d \in Nat /\ Program' = Program
  BY SameProgram DEF CanGrow, IInv
<1>1. Grown(q, p, d)
  BY <1>0, GrowFacts
<1> DEFINE Old(i) == i \in DOMAIN arena /\ arena'[i] = arena[i]
           New(i) == /\ i > Len(arena) /\ i - Len(arena) \in 1 .. Len(q)
                     /\ arena'[i].state = q[i - Len(arena)]
                     /\ arena'[i].state \in Range(q)
                     /\ arena'[i].parent = p /\ arena'[i].depth = d
<1>2. \A i \in DOMAIN arena' : Old(i) \/ New(i)
  BY <1>0, <1>1, GrownEntries
<1>3. /\ Len(arena) \in Nat /\ DOMAIN arena = 1 .. Len(arena)
      /\ Len(q) \in Nat /\ DOMAIN arena' = 1 .. Len(arena) + Len(q)
      /\ DOMAIN arena \subseteq DOMAIN arena'
  BY <1>1 DEF Grown
<1>4. \A i \in DOMAIN arena : arena'[i] = arena[i]
  BY <1>1, <1>3 DEF Grown
<1>5. ASSUME NEW i \in DOMAIN arena', NEW j \in DOMAIN arena', arena'[i].state = arena'[j].state
      PROVE  i = j
  <2>1. \A k \in DOMAIN arena' : k \in Int
    BY <1>3
  <2>2. \A k \in DOMAIN arena : arena[k].state \in Found(arena)
    BY DEF Found
  <2>3. \A k \in DOMAIN arena' : New(k) => arena'[k].state \notin Found(arena)
    BY DEF CanGrow
  <2>4. CASE Old(i) /\ Old(j)
    BY <1>5, <2>4 DEF IInv, StatesOnce
  <2>5. CASE New(i) /\ New(j)
    <3>1. i - Len(arena) \in DOMAIN q /\ j - Len(arena) \in DOMAIN q
      BY <1>0, <2>5, ElementFacts
    <3>2. i - Len(arena) = j - Len(arena)
      BY <1>5, <2>5, <3>1 DEF CanGrow, IsInjective
    <3>3. QED
      BY <1>3, <2>1, <3>2
  <2> HIDE DEF New
  <2>6. QED
    BY <1>2, <1>5, <2>2, <2>3, <2>4, <2>5
<1>6. ASSUME NEW i \in DOMAIN arena'
      PROVE  LET e == arena'[i]
             IN  /\ e.parent < i
                 /\ e.parent = NoParent => e.depth = 0 /\ e.state \in Range(Program.init)
                 /\ e.parent # NoParent =>
                      /\ e.depth = arena'[e.parent].depth + 1
                      /\ e.state \in Range(Program.step[arena'[e.parent].state])
  <2>1. CASE Old(i)
    <3>1. /\ arena[i].parent \in Nat /\ arena[i].parent < i /\ i \in Nat
      BY <1>0, <2>1, ArenaTypes DEF IInv, LinksAreSteps
    <3>2. arena[i].parent # NoParent => arena[i].parent \in DOMAIN arena
      BY <1>3, <2>1, <3>1 DEF NoParent
    <3>3. arena[i].parent # NoParent => arena'[arena[i].parent] = arena[arena[i].parent]
      BY <1>4, <3>2
    <3>4. QED
      BY <2>1, <3>3 DEF IInv, LinksAreSteps
  <2>2. CASE New(i)
    <3>1. p # NoParent => p \in DOMAIN arena /\ arena'[p] = arena[p]
      BY <1>4 DEF CanGrow
    <3>2. p < i
      <4>1. p = NoParent \/ p <= Len(arena)
        BY <1>3, <3>1
      <4>2. QED
        BY <1>0, <1>3, <2>2, <4>1 DEF NoParent
    <3>3. QED
      BY <2>2, <3>1, <3>2 DEF CanGrow
  <2>3. QED
    BY <1>2, <2>1, <2>2
<1>7. ASSUME NEW i \in DOMAIN arena' PROVE arena'[i].depth <= d
  <2>1. CASE Old(i)
    BY <2>1 DEF CanGrow
  <2>2. CASE New(i)
    BY <1>0, <2>2
  <2>3. QED
    BY <1>2, <2>1, <2>2
<1>8. ASSUME NEW i \in DOMAIN arena', NEW j \in DOMAIN arena', i <= j
      PROVE  arena'[i].depth <= arena'[j].depth
  <2>1. CASE New(j)
    BY <1>7, <2>1
  <2>2. CASE Old(j)
    <3>1. i \in DOMAIN arena /\ arena'[i] = arena[i]
      BY <1>3, <1>4, <1>8, <2>2
    <3>2. QED
      BY <1>8, <2>2, <3>1 DEF IInv, DepthsInOrder
  <2>3. QED
    BY <1>2, <2>1, <2>2
<1>9. Found(arena') = Found(arena) \cup Range(q)
  <2>1. ASSUME NEW i \in DOMAIN arena' PROVE arena'[i].state \in Found(arena) \cup Range(q)
    BY <1>2 DEF Found
  <2>2. ASSUME NEW i \in DOMAIN arena PROVE arena[i].state \in Found(arena')
    BY <1>3, <1>4 DEF Found
  <2>3. ASSUME NEW k \in DOMAIN q PROVE q[k] \in Found(arena')
    <3>1. k \in 1 .. Len(q)
      BY <1>0, ElementFacts
    <3>2. Len(arena) + k \in DOMAIN arena' /\ arena'[Len(arena) + k].state = q[k]
      BY <1>1, <1>3, <3>1 DEF Grown
    <3>3. QED
      BY <3>2 DEF Found
  <2>4. QED
    BY <2>1, <2>2, <2>3 DEF Found, Range
<1>10. StatesOnce' /\ LinksAreSteps' /\ DepthsInOrder'
  BY <1>0, <1>5, <1>6, <1>8 DEF StatesOnce, LinksAreSteps, DepthsInOrder
<1>11. QED
  BY <1>7, <1>9, <1>10

-----------------------------------------------------------------------------
(***************************************************************************)
(* The cap and the atoms of a grown arena.                                 *)
(***************************************************************************)
LEMMA CapReported ==
  ASSUME IInv, Building, UNCHANGED <<spec, config>>, Len(arena') \in Nat,
         outcome' = CapReport(arena')
  PROVE  OutcomeOK(outcome') /\ GraphIsFinished' /\ BuildReportsAreTrue'
<1> DEFINE n == Len(arena')
           o == Result("incomplete", << >>, n)
<1>0. outcome.kind = "none" /\ OutcomeOK(outcome)
  BY DEF Building, IInv, GraphTypeOK, OutcomeOK
<1>1. CASE Reached(config.maxStates, n)
  <2>1. outcome' = o
    BY <1>1 DEF CapReport, AtCap
  <2>2. o.kind = "incomplete" /\ o.states = n /\ OutcomeOK(o)
    BY DEF Result, OutcomeOK
  <2> HIDE DEF o, n
  <2>3. OutcomeOK(outcome') /\ outcome'.kind = "incomplete" /\ outcome'.states = n
    BY <2>1, <2>2
  <2>4. Reached(config.maxStates, outcome.states)'
    BY <1>1, <2>3 DEF Reached
  <2>5. QED
    BY <2>3, <2>4 DEF GraphIsFinished, BuildReportsAreTrue, IsTrue
<1>2. CASE ~ Reached(config.maxStates, n)
  <2>1. outcome' = outcome
    BY <1>2 DEF CapReport, AtCap
  <2>2. QED
    BY <1>0, <2>1 DEF GraphIsFinished, BuildReportsAreTrue, IsTrue
<1>3. QED
  BY <1>1, <1>2

\* The atoms of old states stay, and new states have those of their predicates.
LEMMA BitsGrow ==
  ASSUME GraphTypeOK, DOMAIN arena \subseteq DOMAIN arena'
  PROVE  /\ BitsOf(stateBits, arena') \in [DOMAIN arena' -> SUBSET StateAtomsOf(spec)]
         /\ \A i \in DOMAIN arena : BitsOf(stateBits, arena')[i] = stateBits[i]
         /\ \A i \in DOMAIN arena' :
              i \notin DOMAIN arena =>
                BitsOf(stateBits, arena')[i] = PredBits(arena'[i].state)
<1> DEFINE new == BitsOf(stateBits, arena')
<1>1. stateBits \in [DOMAIN arena -> SUBSET StateAtomsOf(spec)]
  BY DEF GraphTypeOK
<1>2. new = [i \in DOMAIN arena' |-> IF i \in DOMAIN arena THEN stateBits[i]
                                      ELSE PredBits(arena'[i].state)]
  BY <1>1 DEF BitsOf
<1> HIDE DEF new
<1>3. \A s : PredBits(s) \in SUBSET StateAtomsOf(spec)
  BY DEF PredBits, StateAtomsOf
<1>4. \A i \in DOMAIN arena : stateBits[i] \in SUBSET StateAtomsOf(spec)
  BY <1>1
<1>5. new \in [DOMAIN arena' -> SUBSET StateAtomsOf(spec)]
  BY <1>2, <1>3, <1>4
<1>6. QED
  BY <1>2, <1>5 DEF new

\* The next initial state is a fresh one.
LEMMA InternGrows ==
  ASSUME IInv, InternInitial
  PROVE  /\ CanGrow(<<NextInitial>>, NoParent, 0)
         /\ <<NextInitial>> \in Seq(States) /\ Len(<<NextInitial>>) = 1
         /\ <<NextInitial>>[1] = NextInitial
         /\ NextInitial = Program.init[Len(arena) + 1]
<1> DEFINE s == NextInitial
           n == Len(arena)
<1>1. /\ GraphTypeOK /\ Program \in Models /\ Program.init \in Seq(States)
      /\ n \in Nat /\ DOMAIN arena = 1 .. n
      /\ \A i \in DOMAIN arena : arena[i].depth \in Nat
  BY ArenaTypes DEF IInv
<1>2. initCount = Initial /\ n < Len(Program.init)
  BY DEF InternInitial, InitialLeft, Interning
<1>3. Len(Program.init) \in Nat /\ DOMAIN Program.init = 1 .. Len(Program.init)
  BY <1>1, ElementFacts
<1>4. n + 1 \in DOMAIN Program.init /\ \A k \in 1 .. n : k \in DOMAIN Program.init /\ k # n + 1
  BY <1>1, <1>2, <1>3
<1>5. s = Program.init[n + 1]
  BY DEF NextInitial
<1> HIDE DEF s, n
<1>6. s \in Range(Program.init) /\ s \in States
  <2>1. s \in Range(Program.init)
    BY <1>4, <1>5 DEF Range
  <2>2. QED
    BY <1>1, <2>1, RangeInStates
<1>7. s \notin Found(arena)
  <2>1. IsInjective(Program.init)
    BY <1>1, ModelFacts DEF WellFormed
  <2>2. \A k \in 1 .. n : arena[k].state = Program.init[k]
    BY <1>1, <1>4 DEF IInv, RootsFirst
  <2>3. \A k \in 1 .. n : arena[k].state # s
    BY <1>4, <1>5, <2>1, <2>2 DEF IsInjective
  <2>4. QED
    BY <1>1, <2>3 DEF Found
<1>8. /\ <<s>> \in Seq(States) /\ Len(<<s>>) = 1 /\ <<s>>[1] = s
      /\ Range(<<s>>) = {s} /\ IsInjective(<<s>>)
  BY <1>6 DEF Range, IsInjective
<1>9. \A i \in DOMAIN arena : arena[i].depth <= 0
  BY <1>1, <1>2 DEF IInv, TwoLevels
<1>10. arena' = arena \o Entries(<<s>>, NoParent, 0) /\ UNCHANGED <<spec, config>>
  BY DEF InternInitial, InitialLeft, s
<1>11. CanGrow(<<s>>, NoParent, 0)
  BY <1>6, <1>7, <1>8, <1>9, <1>10 DEF CanGrow, NoParent
<1>12. QED
  BY <1>5, <1>8, <1>11 DEF s, n

LEMMA InternStep ==
  ASSUME IInv, InternInitial
  PROVE  IInv'
<1> DEFINE s == NextInitial
           n == Len(arena)
<1>1. /\ CanGrow(<<s>>, NoParent, 0) /\ <<s>> \in Seq(States) /\ Len(<<s>>) = 1 /\ <<s>>[1] = s
      /\ s = Program.init[n + 1]
  BY InternGrows
<1>2. /\ GraphTypeOK /\ Program \in Models /\ Program.init \in Seq(States) /\ RootsFirst
      /\ n \in Nat /\ DOMAIN arena = 1 .. n /\ TwoLevels /\ AtomsAreTrue
  BY ArenaTypes DEF IInv
<1>3. /\ s \notin spec.predFails /\ stateBits' = BitsOf(stateBits, arena')
      /\ outcome' = CapReport(arena') /\ UNCHANGED <<spec, config, edges, initCount>>
      /\ Building /\ initCount = Initial /\ n < Len(Program.init)
  BY DEF InternInitial, InitialLeft, Interning
<1> HIDE DEF s
<1>4. Grown(<<s>>, NoParent, 0)
  BY <1>1, <1>2, GrowFacts
<1>5. /\ arena' \in Seq(Entry) /\ Len(arena') = n + 1 /\ DOMAIN arena' = 1 .. n + 1
      /\ DOMAIN arena \subseteq DOMAIN arena'
      /\ \A i \in 1 .. n : arena'[i] = arena[i]
      /\ arena'[n + 1].state = s /\ arena'[n + 1].depth = 0
  BY <1>1, <1>2, <1>4 DEF Grown
<1>6. /\ StatesOnce' /\ LinksAreSteps' /\ DepthsInOrder'
      /\ \A i \in DOMAIN arena' : arena'[i].depth <= 0
  BY <1>1, GrowKeeps
<1>7. edges = << >> /\ edges' = << >> /\ Program' = Program
  BY <1>2, <1>3, SameProgram DEF RootsFirst
<1>8. OutcomeOK(outcome') /\ GraphIsFinished' /\ BuildReportsAreTrue'
  BY <1>2, <1>3, <1>5, CapReported
<1> DEFINE bits == BitsOf(stateBits, arena')
<1>9. /\ bits \in [DOMAIN arena' -> SUBSET StateAtomsOf(spec)]
      /\ \A i \in DOMAIN arena : bits[i] = stateBits[i]
      /\ \A i \in DOMAIN arena' :
           i \notin DOMAIN arena => bits[i] = PredBits(arena'[i].state)
  BY <1>2, <1>5, BitsGrow
<1>10. stateBits' = bits
  BY <1>3
<1> HIDE DEF bits
<1>11. GraphTypeOK'
  <2>1. stateBits' \in [DOMAIN arena' -> SUBSET StateAtomsOf(spec')]
    BY <1>3, <1>9, <1>10
  <2>2. QED
    BY <1>2, <1>3, <1>5, <1>8, <2>1 DEF GraphTypeOK, OutcomeOK, StateAtomsOf, EdgeAtomsOf
<1>12. TwoLevels'
  <2>1. \A i \in DOMAIN arena' : arena'[i].depth \in Nat
    <3>1. \A i \in DOMAIN arena' : arena'[i] \in Entry
      BY <1>5
    <3>2. \A e \in Entry : e.depth \in Nat
      BY DEF Entry
    <3>3. QED
      BY <3>1, <3>2
  <2>2. \A i \in DOMAIN arena' : arena'[i].depth = 0
    BY <1>6, <2>1
  <2>3. Cursor' = 1 /\ 1 \in DOMAIN arena'
    BY <1>2, <1>5, <1>7 DEF Cursor
  <2>4. QED
    BY <2>2, <2>3 DEF TwoLevels
<1>13. RootsFirst'
  <2>1. ASSUME NEW k \in DOMAIN arena'
        PROVE  arena'[k].state = Program.init[k] /\ arena'[k].depth = 0
    <3>1. k \in 1 .. n \/ k = n + 1
      BY <1>2, <1>5
    <3>2. CASE k \in 1 .. n
      <4>1. k \in DOMAIN arena /\ k \in DOMAIN Program.init /\ arena'[k] = arena[k]
        BY <1>2, <1>3, <1>5, <3>2, ElementFacts
      <4>2. QED
        BY <1>2, <4>1 DEF RootsFirst
    <3>3. CASE k = n + 1
      BY <1>1, <1>5, <3>3
    <3>4. QED
      BY <3>1, <3>2, <3>3
  <2>2. Len(edges') = 0 /\ Len(edges') <= Len(arena')
    BY <1>2, <1>5, <1>7
  <2>3. Len(arena') <= Len(Program.init)
    BY <1>2, <1>3, <1>5, ElementFacts
  <2>4. QED
    BY <1>3, <1>7, <2>1, <2>2, <2>3 DEF RootsFirst
<1>14. EdgesAreTargets'
  BY <1>7 DEF EdgesAreTargets
<1>15. AtomsAreTrue'
  <2>1. ASSUME NEW i \in DOMAIN arena'
        PROVE  arena'[i].state \notin spec.predFails /\ stateBits'[i] = PredBits(arena'[i].state)
    <3>1. CASE i \in DOMAIN arena
      <4>1. arena'[i] = arena[i] /\ i \notin DOMAIN edges
        BY <1>2, <1>5, <1>7, <3>1
      <4>2. arena[i].state \notin spec.predFails /\ stateBits[i] = PredBits(arena[i].state)
        BY <1>2, <3>1, <4>1 DEF AtomsAreTrue
      <4>3. QED
        BY <1>9, <1>10, <3>1, <4>1, <4>2
    <3>2. CASE i \notin DOMAIN arena
      <4>1. i = n + 1
        BY <1>2, <1>5, <3>2
      <4>2. QED
        BY <1>3, <1>5, <1>9, <1>10, <3>2, <4>1
    <3>3. QED
      BY <3>1, <3>2
  <2>2. \A s1 : PredBits(s1)' = PredBits(s1)
    BY <1>3, SameProgram
  <2>3. DOMAIN edges' = {}
    BY <1>7
  <2>4. QED
    BY <1>3, <2>1, <2>2, <2>3 DEF AtomsAreTrue
<1>16. QED
  BY <1>6, <1>8, <1>11, <1>12, <1>13, <1>14, <1>15 DEF IInv

\* The end of the initial states.
LEMMA InitDoneStep ==
  ASSUME IInv, InitDone
  PROVE  IInv'
<1>1. /\ UNCHANGED <<spec, config, arena, stateBits, edges, outcome>>
      /\ initCount' = Len(arena) /\ Len(arena) = Len(Program.init)
      /\ outcome.kind = "none" /\ initCount = Initial
  BY DEF InitDone, Interning, Building
<1>2. /\ GraphTypeOK /\ RootsFirst /\ TwoLevels /\ Len(arena) \in Nat
      /\ \A i \in DOMAIN arena : arena[i].depth \in Nat
      /\ DOMAIN arena = 1 .. Len(arena)
  BY ArenaTypes DEF IInv
<1>3. Program' = Program /\ initCount' # Initial
  BY <1>1, <1>2, SameProgram DEF Initial
<1>4. GraphTypeOK'
  BY <1>1, <1>2 DEF GraphTypeOK, StateAtomsOf, EdgeAtomsOf
<1>5. StatesOnce' /\ LinksAreSteps' /\ DepthsInOrder'
  BY <1>1, <1>3 DEF IInv, StatesOnce, LinksAreSteps, DepthsInOrder
<1>6. edges = << >> /\ \A i \in DOMAIN arena : arena[i].depth = 0
  BY <1>1, <1>2 DEF RootsFirst, TwoLevels
<1>7. TwoLevels'
  <2>1. Cursor' = 1 /\ Cursor = 1
    BY <1>1, <1>6 DEF Cursor
  <2>2. 1 <= Len(arena) => \A i \in DOMAIN arena : arena[i].depth <= arena[1].depth + 1
    BY <1>2, <1>6
  <2>3. QED
    BY <1>1, <1>3, <2>1, <2>2 DEF TwoLevels
<1>8. RootsFirst'
  BY <1>1, <1>2, <1>3 DEF RootsFirst
<1>9. EdgesAreTargets'
  BY <1>1, <1>6 DEF EdgesAreTargets
<1>10. AtomsAreTrue'
  BY <1>1, SameProgram DEF IInv, AtomsAreTrue
<1>11. GraphIsFinished' /\ BuildReportsAreTrue'
  BY <1>1 DEF GraphIsFinished, BuildReportsAreTrue, IsTrue
<1>12. QED
  BY <1>4, <1>5, <1>7, <1>8, <1>9, <1>10, <1>11 DEF IInv

-----------------------------------------------------------------------------
(***************************************************************************)
(* Expansion.                                                              *)
(***************************************************************************)
LEMMA ExpandGrows ==
  ASSUME IInv, Expand
  PROVE  /\ CanGrow(Fresh, Cursor, NextDepth)
         /\ Expanding /\ arena' = GrownArena
         /\ Cursor \in DOMAIN arena /\ Source \in States /\ NextDepth \in Nat
         /\ Fresh \in Seq(States) /\ Range(Fresh) \cap spec.predFails = {}
<1>1. /\ Expanding /\ arena' = GrownArena /\ FailingFresh = << >>
      /\ UNCHANGED <<spec, config>>
  BY DEF Expand, Interns
<1>2. /\ Cursor \in DOMAIN arena /\ Source \in States /\ arena[Cursor].depth \in Nat
  BY <1>1, BeforeCursor
<1>3. NextDepth = arena[Cursor].depth + 1 /\ NextDepth \in Nat
  BY <1>2 DEF NextDepth
<1>4. /\ Fresh \in Seq(States) /\ IsInjective(Fresh)
      /\ Range(Fresh) \cap Found(arena) = {}
      /\ Range(Fresh) \subseteq Range(Program.step[Source])
      /\ Range(FailingFresh) = Range(Fresh) \cap spec.predFails
  BY <1>1, FreshFacts
<1>5. Range(Fresh) \cap spec.predFails = {}
  <2>1. Range(<< >>) = {}
    BY DEF Range
  <2>2. QED
    BY <1>1, <1>4, <2>1
<1>6. Cursor \in Nat /\ Cursor # NoParent
  BY <1>2, ArenaTypes DEF IInv, NoParent
<1>7. \A id \in DOMAIN arena : arena[id].depth <= NextDepth
  BY <1>1, <1>3 DEF IInv, TwoLevels, Expanding
<1>8. arena' = arena \o Entries(Fresh, Cursor, NextDepth)
  BY <1>1 DEF GrownArena
<1>9. CanGrow(Fresh, Cursor, NextDepth)
  BY <1>1, <1>2, <1>3, <1>4, <1>6, <1>7, <1>8 DEF CanGrow, Source
<1>10. QED
  BY <1>1, <1>2, <1>3, <1>4, <1>5, <1>9

\* Every target has an id, and the edges lead there.
LEMMA EdgesLead ==
  ASSUME IInv, Expand
  PROVE  LET out == EdgesOf(GrownArena, Source)
         IN  /\ out \in Seq([to : Nat, atoms : SUBSET EdgeAtomsOf(spec)])
             /\ Len(out) = Len(Targets(Source))
             /\ \A k \in DOMAIN Targets(Source) :
                  /\ out[k].to \in DOMAIN arena'
                  /\ arena'[out[k].to].state = Targets(Source)[k]
                  /\ out[k].atoms = EdgeBits(Source, Targets(Source)[k])
<1> DEFINE q == Targets(Source)
           out == EdgesOf(GrownArena, Source)
<1>1. /\ CanGrow(Fresh, Cursor, NextDepth) /\ Expanding /\ arena' = GrownArena
      /\ Source \in States /\ GraphTypeOK
  BY ExpandGrows DEF IInv
<1>2. q \in Seq(States) /\ Len(q) \in Nat /\ DOMAIN q = 1 .. Len(q)
  BY <1>1, TargetsFacts, ElementFacts
<1>3. Range(Fresh) = Range(q) \ Found(arena)
  BY <1>1, FreshFacts
<1>4. Found(arena') = Found(arena) \cup Range(Fresh)
  BY <1>1, GrowKeeps
<1>5. Grown(Fresh, Cursor, NextDepth)
  BY <1>1, GrowFacts
<1>6. DOMAIN arena' \subseteq Nat
  BY <1>5 DEF Grown
<1>7. ASSUME NEW s \in Range(q)
      PROVE  IdOf(GrownArena, s) \in DOMAIN arena' /\ arena'[IdOf(GrownArena, s)].state = s
  <2>1. \E i \in DOMAIN arena' : arena'[i].state = s
    BY <1>3, <1>4 DEF Found
  <2>2. QED
    BY <1>1, <2>1 DEF IdOf
<1>8. out = [k \in DOMAIN q |-> [to |-> IdOf(GrownArena, q[k]), atoms |-> EdgeBits(Source, q[k])]]
  BY DEF EdgesOf
<1>9. \A s, t : EdgeBits(s, t) \in SUBSET EdgeAtomsOf(spec)
  BY DEF EdgeBits, TakenBits, KeptBits, NextBits, EdgeAtomsOf
<1>10. \A k \in DOMAIN q : q[k] \in Range(q)
  BY DEF Range
<1> HIDE DEF q, out
<1>11. ASSUME NEW k \in DOMAIN q
       PROVE  /\ out[k].to = IdOf(GrownArena, q[k]) /\ out[k].atoms = EdgeBits(Source, q[k])
              /\ out[k] \in [to : Nat, atoms : SUBSET EdgeAtomsOf(spec)]
  <2>1. out[k] = [to |-> IdOf(GrownArena, q[k]), atoms |-> EdgeBits(Source, q[k])]
    BY <1>8
  <2>2. IdOf(GrownArena, q[k]) \in Nat /\ EdgeBits(Source, q[k]) \in SUBSET EdgeAtomsOf(spec)
    BY <1>6, <1>7, <1>9, <1>10
  <2>3. QED
    BY <2>1, <2>2
<1>12. out \in Seq([to : Nat, atoms : SUBSET EdgeAtomsOf(spec)]) /\ Len(out) = Len(q)
  <2>1. out = [k \in 1 .. Len(q) |-> out[k]]
    BY <1>2, <1>8
  <2>2. QED
    BY <1>2, <1>11, <2>1
<1>13. \A k \in DOMAIN q : /\ out[k].to \in DOMAIN arena'
                           /\ arena'[out[k].to].state = q[k]
                           /\ out[k].atoms = EdgeBits(Source, q[k])
  BY <1>7, <1>10, <1>11
<1>14. QED
  BY <1>12, <1>13 DEF q, out

LEMMA ExpandStep ==
  ASSUME IInv, Expand
  PROVE  IInv'
<1> DEFINE n == Len(arena)
           c == Cursor
           d == arena[Cursor].depth
           m == Len(edges)
<1>1. /\ CanGrow(Fresh, c, NextDepth) /\ Expanding /\ arena' = GrownArena
      /\ c \in DOMAIN arena /\ Source \in States /\ Fresh \in Seq(States)
      /\ Range(Fresh) \cap spec.predFails = {}
  BY ExpandGrows
<1>2. /\ GraphTypeOK /\ RootsFirst /\ EdgesAreTargets /\ AtomsAreTrue
      /\ n \in Nat /\ DOMAIN arena = 1 .. n /\ m \in Nat /\ DOMAIN edges = 1 .. m
      /\ d \in Nat /\ c \in Nat /\ c = m + 1
  BY <1>1, ArenaTypes DEF IInv, Cursor
<1> DEFINE bits == BitsOf(stateBits, arena')
           out == EdgesOf(GrownArena, Source)
<1>3. /\ stateBits' = [bits EXCEPT ![c] = @ \cup EnabledBits(Source)]
      /\ edges' = Append(edges, out)
      /\ outcome' = CapReport(arena') /\ UNCHANGED <<spec, config, initCount>>
      /\ Building /\ initCount # Initial
      /\ Expands(Source) /\ Source \notin spec.actionFails /\ ~ EdgeFailsAt(Source)
  BY <1>1 DEF Expand, Interns, Expanding
<1>4. Source = arena[c].state /\ NextDepth = d + 1
  BY DEF Source, NextDepth
<1>5. Grown(Fresh, c, NextDepth)
  BY <1>1, <1>2, GrowFacts
<1>6. /\ arena' \in Seq(Entry) /\ Len(arena') \in Nat /\ n <= Len(arena')
      /\ DOMAIN arena' = 1 .. Len(arena') /\ DOMAIN arena \subseteq DOMAIN arena'
      /\ \A i \in DOMAIN arena : arena'[i] = arena[i]
  BY <1>2, <1>5 DEF Grown
<1>7. \A i \in DOMAIN arena' :
        i \notin DOMAIN arena => arena'[i].state \in Range(Fresh)
  BY <1>1, <1>5, GrownEntries
<1>8. /\ StatesOnce' /\ LinksAreSteps' /\ DepthsInOrder'
      /\ \A i \in DOMAIN arena' : arena'[i].depth <= d + 1
  BY <1>1, <1>4, GrowKeeps
<1>9. /\ out \in Seq([to : Nat, atoms : SUBSET EdgeAtomsOf(spec)])
      /\ Len(out) = Len(Targets(Source))
      /\ \A k \in DOMAIN Targets(Source) :
           /\ out[k].to \in DOMAIN arena'
           /\ arena'[out[k].to].state = Targets(Source)[k]
           /\ out[k].atoms = EdgeBits(Source, Targets(Source)[k])
  BY EdgesLead
<1>10. /\ bits \in [DOMAIN arena' -> SUBSET StateAtomsOf(spec)]
       /\ \A i \in DOMAIN arena : bits[i] = stateBits[i]
       /\ \A i \in DOMAIN arena' :
            i \notin DOMAIN arena => bits[i] = PredBits(arena'[i].state)
  BY <1>2, <1>6, BitsGrow
<1> HIDE DEF bits, out, c
<1>11. OutcomeOK(outcome') /\ GraphIsFinished' /\ BuildReportsAreTrue'
  BY <1>3, <1>6, CapReported
<1>12. /\ edges' \in Seq(Seq([to : Nat, atoms : SUBSET EdgeAtomsOf(spec)]))
       /\ Len(edges') = m + 1 /\ DOMAIN edges' = 1 .. m + 1
       /\ edges'[m + 1] = out /\ \A i \in 1 .. m : edges'[i] = edges[i]
  <2>1. edges \in Seq(Seq([to : Nat, atoms : SUBSET EdgeAtomsOf(spec)]))
    BY <1>2 DEF GraphTypeOK
  <2>2. QED
    BY <1>3, <1>9, <2>1, AppendFacts
<1>13. /\ stateBits'[c] = bits[c] \cup EnabledBits(Source)
       /\ \A i \in DOMAIN arena' : i # c => stateBits'[i] = bits[i]
       /\ stateBits' \in [DOMAIN arena' -> SUBSET StateAtomsOf(spec)]
  <2>1. c \in DOMAIN arena'
    BY <1>1, <1>6
  <2>2. EnabledBits(Source) \in SUBSET StateAtomsOf(spec)
    BY DEF EnabledBits, StateAtomsOf
  <2>3. QED
    BY <1>3, <1>10, <2>1, <2>2
<1>14. GraphTypeOK'
  BY <1>2, <1>3, <1>6, <1>11, <1>12, <1>13
     DEF GraphTypeOK, OutcomeOK, StateAtomsOf, EdgeAtomsOf
<1>15. TwoLevels'
  <2>1. Cursor' = c + 1
    BY <1>2, <1>12 DEF Cursor
  <2>2. ASSUME c + 1 <= Len(arena'), NEW i \in DOMAIN arena'
        PROVE  arena'[i].depth <= arena'[c + 1].depth + 1
    <3>1. c \in DOMAIN arena' /\ c + 1 \in DOMAIN arena' /\ c <= c + 1
      BY <1>1, <1>2, <1>6, <2>2
    <3>2. arena'[c].depth = d
      BY <1>1, <1>6 DEF c
    <3>3. d <= arena'[c + 1].depth
      BY <1>8, <3>1, <3>2 DEF DepthsInOrder
    <3>4. arena'[i].depth \in Nat /\ arena'[c + 1].depth \in Nat
      <4>1. arena'[i] \in Entry /\ arena'[c + 1] \in Entry
        BY <1>6, <3>1
      <4>2. QED
        BY <4>1 DEF Entry
    <3>5. arena'[i].depth <= d + 1
      BY <1>8
    <3> HIDE DEF d
    <3>6. QED
      BY <1>2, <3>3, <3>4, <3>5
  <2>3. QED
    BY <1>3, <2>1, <2>2 DEF TwoLevels
<1>16. RootsFirst'
  <2>1. Program' = Program /\ initCount' = initCount /\ Len(Program.init) \in Nat
    BY <1>2, <1>3, SameProgram, ArenaTypes, ElementFacts
  <2>2. initCount = Len(Program.init) /\ initCount <= n
    BY <1>2, <1>3 DEF RootsFirst
  <2>3. ASSUME NEW k \in DOMAIN arena' \cap DOMAIN Program.init
        PROVE  arena'[k].state = Program.init[k] /\ arena'[k].depth = 0
    <3>1. k \in 1 .. Len(Program.init)
      BY <1>2, ArenaTypes, ElementFacts
    <3>2. k \in DOMAIN arena
      BY <1>2, <2>1, <2>2, <3>1
    <3>3. QED
      BY <1>2, <1>6, <3>2 DEF RootsFirst
  <2>4. Len(edges') <= Len(arena')
    <3>1. m + 1 <= n
      BY <1>1, <1>2
    <3>2. QED
      BY <1>2, <1>6, <1>12, <3>1
  <2>5. initCount <= Len(arena')
    BY <1>2, <1>6, <2>1, <2>2
  <2>6. QED
    BY <1>3, <2>1, <2>2, <2>3, <2>4, <2>5 DEF RootsFirst
<1>17. EdgesAreTargets'
  <2>1. ASSUME NEW i \in DOMAIN edges' PROVE Expanded(i)'
    <3>1. i \in DOMAIN arena /\ arena'[i] = arena[i]
      BY <1>1, <1>2, <1>6, <1>12
    <3>2. PICK s : s = arena[i].state
      OBVIOUS
    <3>3. /\ Expands(s) /\ s \notin spec.actionFails /\ ~ EdgeFailsAt(s)
          /\ Len(edges'[i]) = Len(Targets(s))
          /\ \A k \in DOMAIN Targets(s) :
               LET e == edges'[i][k]
               IN  /\ e.to \in DOMAIN arena'
                   /\ arena'[e.to].state = Targets(s)[k]
                   /\ arena'[e.to].depth <= arena'[i].depth + 1
                   /\ e.atoms = EdgeBits(s, Targets(s)[k])
      <4>1. CASE i = c
        <5>1. s = Source /\ edges'[i] = out /\ arena'[i].depth = d
          BY <1>2, <1>4, <1>12, <3>1, <3>2, <4>1 DEF c
        <5> HIDE DEF d
        <5>2. QED
          BY <1>3, <1>8, <1>9, <5>1
      <4>2. CASE i # c
        <5>1. i \in DOMAIN edges /\ edges'[i] = edges[i]
          BY <1>2, <1>12, <4>2
        <5>2. Expanded(i)
          BY <1>2, <5>1 DEF EdgesAreTargets
        <5>3. QED
          BY <1>6, <3>1, <3>2, <5>1, <5>2 DEF Expanded
      <4>3. QED
        BY <4>1, <4>2
    <3>4. s = arena'[i].state
      BY <3>1, <3>2
    <3>5. /\ Expands(s)' = Expands(s) /\ EdgeFailsAt(s)' = EdgeFailsAt(s)
          /\ Targets(s)' = Targets(s) /\ spec' = spec
          /\ \A t : EdgeBits(s, t)' = EdgeBits(s, t)
      BY <1>3, SameProgram
    <3>6. QED
      BY <3>3, <3>4, <3>5 DEF Expanded
  <2>2. QED
    BY <2>1 DEF EdgesAreTargets
<1>18. AtomsAreTrue'
  <2>1. ASSUME NEW i \in DOMAIN arena'
        PROVE  LET s == arena'[i].state
               IN  /\ s \notin spec.predFails
                   /\ stateBits'[i] = PredBits(s) \cup
                                       (IF i \in DOMAIN edges' THEN EnabledBits(s) ELSE {})
    <3>1. CASE i \in DOMAIN arena
      <4>1. /\ arena'[i] = arena[i] /\ arena[i].state \notin spec.predFails
            /\ bits[i] = PredBits(arena[i].state) \cup
                          (IF i \in DOMAIN edges THEN EnabledBits(arena[i].state) ELSE {})
        BY <1>2, <1>6, <1>10, <3>1 DEF AtomsAreTrue
      <4>2. CASE i = c
        <5>1. i \notin DOMAIN edges /\ i \in DOMAIN edges' /\ arena[i].state = Source
          BY <1>2, <1>4, <1>12, <4>2
        <5>2. QED
          BY <1>13, <4>1, <4>2, <5>1
      <4>3. CASE i # c
        <5>1. i \in DOMAIN edges <=> i \in DOMAIN edges'
          BY <1>2, <1>12, <3>1, <4>3
        <5>2. QED
          BY <1>13, <4>1, <4>3, <5>1
      <4>4. QED
        BY <4>2, <4>3
    <3>2. CASE i \notin DOMAIN arena
      <4>1. i # c /\ i \notin DOMAIN edges'
        BY <1>1, <1>2, <1>12, <3>2
      <4>2. arena'[i].state \in Range(Fresh) /\ arena'[i].state \notin spec.predFails
        BY <1>1, <1>7, <3>2
      <4>3. QED
        BY <1>10, <1>13, <3>2, <4>1, <4>2
    <3>3. QED
      BY <3>1, <3>2
  <2>2. /\ \A s : PredBits(s)' = PredBits(s) /\ EnabledBits(s)' = EnabledBits(s)
        /\ spec' = spec
    BY <1>3, SameProgram
  <2>3. QED
    BY <2>1, <2>2 DEF AtomsAreTrue
<1>19. QED
  BY <1>8, <1>11, <1>14, <1>15, <1>16, <1>17, <1>18 DEF IInv

-----------------------------------------------------------------------------
(***************************************************************************)
(* The invariant holds at the start and is kept by every step of build.    *)
(***************************************************************************)
LEMMA IInvInit == GraphInit => IInv
<1> SUFFICES ASSUME GraphInit PROVE IInv
  OBVIOUS
<1>1. /\ spec \in Specs /\ config \in Configs
      /\ arena = << >> /\ stateBits = << >> /\ edges = << >> /\ initCount = Initial
      /\ outcome = Result("none", << >>, 0)
  BY DEF GraphInit
<1>2. DOMAIN arena = {} /\ DOMAIN edges = {} /\ Len(arena) = 0 /\ Len(edges) = 0
  BY <1>1
<1>3. /\ outcome.kind = "none"
      /\ outcome \in [kind : {"none", "error", "deadlock", "incomplete", "invariant", "graph"},
                       trace : Seq(States), states : Nat]
  BY <1>1 DEF Result
<1>4. GraphTypeOK
  BY <1>1, <1>2, <1>3 DEF GraphTypeOK
<1>5. RootsFirst
  <2>1. Len(Program.init) \in Nat
    BY <1>4, ArenaTypes, ElementFacts
  <2>2. QED
    BY <1>1, <1>2, <2>1 DEF RootsFirst
<1>6. TwoLevels
  BY <1>1, <1>2 DEF TwoLevels, Cursor
<1>7. GraphIsFinished /\ BuildReportsAreTrue
  BY <1>3 DEF GraphIsFinished, BuildReportsAreTrue, IsTrue
<1>8. QED
  BY <1>2, <1>4, <1>5, <1>6, <1>7
     DEF IInv, StatesOnce, LinksAreSteps, DepthsInOrder, EdgesAreTargets, AtomsAreTrue

LEMMA StutterStep ==
  ASSUME IInv, UNCHANGED graphVars
  PROVE  IInv'
<1>1. UNCHANGED <<spec, config, arena, stateBits, edges, initCount, outcome>>
  BY DEF graphVars
<1>2. GraphTypeOK'
  BY <1>1 DEF IInv, GraphTypeOK, StateAtomsOf, EdgeAtomsOf
<1>3. StatesOnce' /\ LinksAreSteps' /\ DepthsInOrder' /\ TwoLevels' /\ RootsFirst'
  BY <1>1 DEF IInv, StatesOnce, LinksAreSteps, DepthsInOrder, TwoLevels, RootsFirst, Program,
     Cursor
<1>4. EdgesAreTargets'
  BY <1>1, SameProgram DEF IInv, EdgesAreTargets, Expanded
<1>5. AtomsAreTrue'
  BY <1>1, SameProgram DEF IInv, AtomsAreTrue
<1>6. GraphIsFinished'
  BY <1>1 DEF IInv, GraphIsFinished, Violating, Program
<1>7. BuildReportsAreTrue'
  <2>1. PICK o : o = outcome
    OBVIOUS
  <2>2. IsTrue(o)'
    BY <1>1, <2>1, TrueStays DEF IInv, BuildReportsAreTrue
  <2>3. QED
    BY <1>1, <2>1, <2>2
       DEF BuildReportsAreTrue, IsTrue, DeadlockIsTrue, ViolationIsTrue, ErrorIsTrue
<1>8. QED
  BY <1>2, <1>3, <1>4, <1>5, <1>6, <1>7 DEF IInv

LEMMA IInvStep == IInv /\ [BuildStep]_graphVars => IInv'
<1> SUFFICES ASSUME IInv, [BuildStep]_graphVars PROVE IInv'
  OBVIOUS
<1>1. CASE InitFails \/ InitialFails
  BY <1>1, InitialReports
<1>2. CASE InternInitial
  BY <1>2, InternStep
<1>3. CASE InitDone
  BY <1>3, InitDoneStep
<1>4. CASE StepFails \/ FindDeadlock \/ ActionFails \/ EdgeFails
  BY <1>4, ExpansionReports
<1>5. CASE TargetFails
  BY <1>5, TargetReports
<1>6. CASE Expand
  BY <1>6, ExpandStep
<1>7. CASE GraphDone \/ FindViolation
  BY <1>7, FinalReports
<1>8. CASE UNCHANGED graphVars
  BY <1>8, StutterStep
<1>9. QED
  BY <1>1, <1>2, <1>3, <1>4, <1>5, <1>6, <1>7, <1>8 DEF BuildStep

(***************************************************************************)
(* What the invariant gives: the properties of the graph.                  *)
(***************************************************************************)
LEMMA GraphReachable == IInv => GraphIsReachable
<1> SUFFICES ASSUME IInv, outcome.kind = "graph"
             PROVE  /\ \A n \in 0 .. Horizon : Layer(Program, n) \subseteq Found(arena)
                    /\ \A i \in DOMAIN arena :
                         LET s == arena[i].state
                         IN  /\ s \in Layer(Program, arena[i].depth)
                             /\ \A n \in 0 .. arena[i].depth - 1 : s \notin Layer(Program, n)
                             /\ stateBits[i] = PredBits(s) \cup EnabledBits(s)
                             /\ {arena[e.to].state : e \in Range(edges[i])}
                                   = Range(Program.step[s]) \cup {s}
                             /\ IsInjective([k \in DOMAIN edges[i] |-> edges[i][k].to])
  BY DEF GraphIsReachable
<1>1. /\ GraphTypeOK /\ StatesOnce /\ LinksAreSteps /\ RootsFirst /\ EdgesAreTargets
      /\ AtomsAreTrue
  BY DEF IInv
<1>2. initCount # Initial /\ DOMAIN edges = DOMAIN arena /\ Horizon \in Nat
  BY <1>1, ArenaTypes, SearchAssumption DEF IInv, GraphIsFinished
<1>3. ASSUME NEW n \in Nat, NEW s \in Layer(Program, n)
      PROVE  \E j \in DOMAIN arena : arena[j].state = s /\ arena[j].depth <= n
  <2>1. n \in 0 .. n
    OBVIOUS
  <2>2. FoundBy(s, n)
    BY <1>1, <1>2, <1>3, <2>1, LayersFound
  <2>3. QED
    BY <2>2 DEF FoundBy
<1>4. \A n \in 0 .. Horizon : Layer(Program, n) \subseteq Found(arena)
  BY <1>2, <1>3 DEF Found
<1>5. ASSUME NEW i \in DOMAIN arena
      PROVE  LET s == arena[i].state
             IN  /\ s \in Layer(Program, arena[i].depth)
                 /\ \A n \in 0 .. arena[i].depth - 1 : s \notin Layer(Program, n)
                 /\ stateBits[i] = PredBits(s) \cup EnabledBits(s)
                 /\ {arena[e.to].state : e \in Range(edges[i])}
                       = Range(Program.step[s]) \cup {s}
                 /\ IsInjective([k \in DOMAIN edges[i] |-> edges[i][k].to])
  <2>1. PICK s : s = arena[i].state
    OBVIOUS
  <2>2. s \in States /\ arena[i].depth \in Nat
    BY <1>1, <2>1, ArenaTypes
  <2>3. s \in Layer(Program, arena[i].depth)
    BY <1>1, <2>1, DepthsAreLayers
  <2>4. \A n \in 0 .. arena[i].depth - 1 : s \notin Layer(Program, n)
    <3> SUFFICES ASSUME NEW n \in 0 .. arena[i].depth - 1, s \in Layer(Program, n) PROVE FALSE
      OBVIOUS
    <3>1. n \in Nat /\ n < arena[i].depth
      BY <2>2
    <3>2. PICK j \in DOMAIN arena : arena[j].state = s /\ arena[j].depth <= n
      BY <1>3, <3>1
    <3>3. j = i
      BY <1>1, <2>1, <3>2 DEF StatesOnce
    <3>4. QED
      BY <2>2, <3>1, <3>2, <3>3
  <2>5. stateBits[i] = PredBits(s) \cup EnabledBits(s)
    BY <1>1, <1>2, <2>1 DEF AtomsAreTrue
  <2>6. /\ DOMAIN edges[i] = DOMAIN Targets(s)
        /\ \A k \in DOMAIN Targets(s) :
              edges[i][k].to \in DOMAIN arena /\ arena[edges[i][k].to].state = Targets(s)[k]
    <3>1. Expanded(i)
      BY <1>1, <1>2 DEF EdgesAreTargets
    <3>2. edges[i] \in Seq([to : Nat, atoms : SUBSET EdgeAtomsOf(spec)])
      BY <1>1, <1>2 DEF GraphTypeOK
    <3>3. Targets(s) \in Seq(States)
      BY <1>1, <2>2, TargetsFacts
    <3>4. DOMAIN edges[i] = 1 .. Len(edges[i]) /\ DOMAIN Targets(s) = 1 .. Len(Targets(s))
      BY <3>2, <3>3
    <3>5. QED
      BY <2>1, <3>1, <3>4 DEF Expanded
  <2>7. {arena[e.to].state : e \in Range(edges[i])} = Range(Program.step[s]) \cup {s}
    <3>1. Range(Targets(s)) = Range(Program.step[s]) \cup {s}
      BY <1>1, <2>2, TargetsFacts
    <3>2. {arena[e.to].state : e \in Range(edges[i])} = Range(Targets(s))
      BY <2>6 DEF Range
    <3>3. QED
      BY <3>1, <3>2
  <2>8. IsInjective([k \in DOMAIN edges[i] |-> edges[i][k].to])
    <3>1. \A j, k \in DOMAIN Targets(s) : Targets(s)[j] = Targets(s)[k] => j = k
      BY <1>1, <2>2, TargetsFacts DEF IsInjective
    <3>2. QED
      BY <2>6, <3>1 DEF IsInjective
  <2>9. QED
    BY <2>1, <2>3, <2>4, <2>5, <2>7, <2>8
<1>6. QED
  BY <1>4, <1>5

LEMMA StutterHarmless == IInv => StutterIsHarmless
<1> SUFFICES ASSUME IInv, NEW i \in DOMAIN edges, NEW e \in Range(edges[i]), e.to = i
             PROVE  /\ e.atoms \cap DOMAIN spec.taken = {}
                    /\ DOMAIN spec.kept \subseteq e.atoms
  BY DEF StutterIsHarmless
<1>1. GraphTypeOK /\ spec \in Specs /\ Expanded(i)
  BY DEF IInv, GraphTypeOK, EdgesAreTargets
<1>2. i \in DOMAIN arena
  BY <1>1, ArenaTypes DEF IInv, RootsFirst
<1>3. PICK s : s = arena[i].state
  OBVIOUS
<1>4. DOMAIN edges[i] = DOMAIN Targets(s)
  <2>1. edges[i] \in Seq([to : Nat, atoms : SUBSET EdgeAtomsOf(spec)])
    BY <1>1 DEF GraphTypeOK
  <2>2. Targets(s) \in Seq(States)
    BY <1>1, <1>2, <1>3, ArenaTypes, TargetsFacts
  <2>3. Len(edges[i]) = Len(Targets(s))
    BY <1>1, <1>3 DEF Expanded
  <2>4. QED
    BY <2>1, <2>2, <2>3
<1>5. PICK k \in DOMAIN Targets(s) : e = edges[i][k]
  BY <1>4 DEF Range
<1>6. Targets(s)[k] = s /\ e.atoms = EdgeBits(s, s)
  BY <1>1, <1>3, <1>5 DEF Expanded
<1>7. TakenBits(s, s) = {} /\ KeptBits(s, s) = DOMAIN spec.kept
  BY DEF TakenBits, KeptBits
<1>8. NextBits(s, s) \subseteq DOMAIN spec.nextPreds
  BY DEF NextBits
<1>9. DOMAIN spec.taken \cap (DOMAIN spec.kept \cup DOMAIN spec.nextPreds) = {}
  BY <1>1, SpecFacts
<1>10. QED
  BY <1>6, <1>7, <1>8, <1>9 DEF EdgeBits

-----------------------------------------------------------------------------
(***************************************************************************)
(* The inductive invariant holds in every state of a build.                *)
(***************************************************************************)
THEOREM Invariance == GraphSpec => []IInv
<1>1. GraphInit => IInv
  BY IInvInit
<1>2. IInv /\ [BuildStep]_graphVars => IInv'
  BY IInvStep
<1>3. QED
  BY <1>1, <1>2, PTL DEF GraphSpec

(***************************************************************************)
(* Type correctness: the arena, the edges and the atoms of a graph that is *)
(* being built, and its result, stay in their types (graph.rs, Graph).     *)
(***************************************************************************)
THEOREM TypeCorrectness == GraphSpec => []GraphTypeOK
<1>1. IInv => GraphTypeOK
  BY DEF IInv
<1>2. QED
  BY <1>1, Invariance, PTL

(***************************************************************************)
(* A finished graph has exactly the reachable states, each once, at its    *)
(* distance from the initial states, with the atoms true of it, and with   *)
(* one edge to each of its next states and to itself.                      *)
(***************************************************************************)
THEOREM GraphIsReachableAlways == GraphSpec => []GraphIsReachable
BY Invariance, GraphReachable, PTL

(***************************************************************************)
(* On the edge from a state to itself no <A>_v holds and every [A]_v does, *)
(* so that one edge can stand for a step of the program and for stuttering *)
(* (graph.rs:4-8).                                                         *)
(***************************************************************************)
THEOREM StutterIsHarmlessAlways == GraphSpec => []StutterIsHarmless
BY Invariance, StutterHarmless, PTL

(***************************************************************************)
(* Whatever build returns is true of the program: a deadlock or a violated *)
(* invariant is a nearest one with a trace of real steps to it, an error   *)
(* is at the end of a trace of real steps, a graph means that no state at  *)
(* any distance up to Horizon has anything to report.                      *)
(***************************************************************************)
THEOREM BuildReportsAreTrueAlways == GraphSpec => []BuildReportsAreTrue
<1>1. IInv => BuildReportsAreTrue
  BY DEF IInv
<1>2. QED
  BY <1>1, Invariance, PTL

-------------------------------------------------------------------------------
(***************************************************************************)
(* Reachability inside a set of nodes, from its definition by closed sets. *)
(***************************************************************************)
LEMMA AfterFacts ==
  ASSUME NEW S, NEW v \in S
  PROVE  /\ After(S, v) \subseteq S
         /\ Out(S, v) \subseteq After(S, v)
         /\ Closed(S, After(S, v))
         /\ \A R \in SUBSET S : Out(S, v) \subseteq R /\ Closed(S, R) => After(S, v) \subseteq R
<1>1. After(S, v) \subseteq S
  BY DEF After
<1>2. Out(S, v) \subseteq After(S, v)
  BY DEF After, Out
<1>3. ASSUME NEW R \in SUBSET S, Out(S, v) \subseteq R, Closed(S, R)
      PROVE  After(S, v) \subseteq R
  BY <1>3 DEF After
<1>4. ASSUME NEW x \in After(S, v), NEW y \in Out(S, x) PROVE y \in After(S, v)
  <2>1. y \in S
    BY <1>4 DEF Out
  <2>2. ASSUME NEW R \in SUBSET S, Out(S, v) \subseteq R, Closed(S, R) PROVE y \in R
    <3>1. x \in R
      BY <1>3, <2>2
    <3>2. QED
      BY <2>2, <3>1 DEF Closed
  <2>3. QED
    BY <2>1, <2>2 DEF After
<1>5. QED
  BY <1>1, <1>2, <1>3, <1>4 DEF Closed

\* A closed set is not left.
LEMMA StaysInClosed ==
  ASSUME NEW S, NEW R \in SUBSET S, Closed(S, R), NEW x \in R, NEW y, Leads(S, x, y)
  PROVE  y \in R
<1>1. CASE y = x
  BY <1>1
<1>2. CASE y \in After(S, x)
  <2>1. Out(S, x) \subseteq R
    BY DEF Closed
  <2>2. After(S, x) \subseteq R
    BY <2>1, AfterFacts
  <2>3. QED
    BY <1>2, <2>2
<1>3. QED
  BY <1>1, <1>2 DEF Leads

LEMMA LeadsInside ==
  ASSUME NEW S, NEW x \in S, NEW y, Leads(S, x, y)
  PROVE  y \in S
BY AfterFacts DEF Leads

LEMMA LeadsOn ==
  ASSUME NEW S, NEW x \in S, NEW y, NEW z, Leads(S, x, y), Leads(S, y, z)
  PROVE  Leads(S, x, z)
<1>1. y \in S
  BY LeadsInside
<1>2. CASE y = x
  BY <1>2
<1>3. CASE y \in After(S, x)
  <2>1. After(S, x) \in SUBSET S /\ Closed(S, After(S, x))
    BY AfterFacts
  <2>2. z \in After(S, x)
    BY <1>3, <2>1, StaysInClosed
  <2>3. QED
    BY <2>2 DEF Leads
<1>4. QED
  BY <1>2, <1>3 DEF Leads

LEMMA LeadsAlongEdge ==
  ASSUME NEW S, NEW x \in S, NEW y \in Out(S, x)
  PROVE  Leads(S, x, y)
BY AfterFacts DEF Leads

\* More nodes lead at least as far.
LEMMA AfterGrows ==
  ASSUME NEW S, NEW T, S \subseteq T, NEW v \in S
  PROVE  After(S, v) \subseteq After(T, v)
<1>1. ASSUME NEW w \in After(S, v) PROVE w \in After(T, v)
  <2>1. v \in T /\ w \in T
    BY AfterFacts
  <2>2. ASSUME NEW R \in SUBSET T, Out(T, v) \subseteq R, Closed(T, R) PROVE w \in R
    <3>1. R \cap S \in SUBSET S /\ Out(S, v) \subseteq R \cap S
      BY <2>2 DEF Out
    <3>2. Closed(S, R \cap S)
      BY <2>2 DEF Closed, Out
    <3>3. w \in R \cap S
      BY <1>1, <3>1, <3>2, AfterFacts
    <3>4. QED
      BY <3>3
  <2>3. QED
    BY <2>1, <2>2 DEF After
<1>2. QED
  BY <1>1

(***************************************************************************)
(* A class is connected by itself: the way from one of its nodes to        *)
(* another does not leave it.                                              *)
(***************************************************************************)
LEMMA ClassIsConnected ==
  ASSUME NEW S, NEW C \in SUBSET S, IsClass(S, C), NEW v \in C, NEW w \in C
  PROVE  Leads(C, v, w)
<1>1. v \in S /\ w \in S /\ Leads(S, v, w) /\ Leads(S, w, v)
  BY DEF IsClass
<1>2. CASE w = v
  BY <1>2 DEF Leads
<1>3. CASE w \in After(S, v)
  <2> DEFINE R == {x \in After(S, v) : x \in C => x \in After(C, v)}
  <2>1. R \in SUBSET S /\ R \subseteq After(S, v)
    BY <1>1, AfterFacts
  <2>2. ASSUME NEW x \in S, Leads(S, v, x), x \in C => x = v \/ x \in After(C, v),
               NEW y \in Out(S, x)
        PROVE  y \in R
    <3>1. y \in S /\ Leads(S, x, y)
      BY <2>2, LeadsAlongEdge DEF Out
    <3>2. y \in After(S, v)
      <4>1. CASE x = v
        BY <1>1, <2>2, <4>1, AfterFacts
      <4>2. CASE x \in After(S, v)
        BY <1>1, <2>2, <4>2, AfterFacts DEF Closed
      <4>3. QED
        BY <2>2, <4>1, <4>2 DEF Leads
    <3>3. ASSUME y \in C PROVE y \in After(C, v)
      <4>1. Leads(S, y, v)
        BY <1>1, <3>1, <3>3 DEF IsClass
      <4>2. Leads(S, x, v)
        BY <2>2, <3>1, <4>1, LeadsOn
      <4>3. x \in C
        BY <2>2, <4>2 DEF IsClass
      <4>4. y \in Out(C, x)
        BY <2>2, <3>3 DEF Out
      <4>5. QED
        BY <2>2, <4>3, <4>4, AfterFacts DEF Closed
    <3>4. QED
      BY <3>2, <3>3
  <2>3. Out(S, v) \subseteq R
    <3>1. ASSUME NEW y \in Out(S, v) PROVE y \in R
      <4>1. Leads(S, v, v)
        BY DEF Leads
      <4>2. QED
        BY <1>1, <2>2, <3>1, <4>1
    <3>2. QED
      BY <3>1
  <2>4. Closed(S, R)
    <3>1. ASSUME NEW x \in R, NEW y \in Out(S, x) PROVE y \in R
      <4>1. x \in S /\ Leads(S, v, x) /\ (x \in C => x \in After(C, v))
        BY <2>1 DEF Leads
      <4> HIDE DEF R
      <4>2. QED
        BY <2>2, <3>1, <4>1
    <3>2. QED
      BY <3>1 DEF Closed
  <2> HIDE DEF R
  <2>5. After(S, v) \subseteq R
    BY <1>1, <2>1, <2>3, <2>4, AfterFacts
  <2>6. w \in After(C, v)
    BY <1>3, <2>5 DEF R
  <2>7. QED
    BY <2>6 DEF Leads
<1>4. QED
  BY <1>1, <1>2, <1>3 DEF Leads


(***************************************************************************)
(* Nothing about the product changes when only other variables do.         *)
(***************************************************************************)
LEMMA SameProblem ==
  ASSUME UNCHANGED problem
  PROVE  /\ Nodes' = Nodes
         /\ \A S, v : Out(S, v)' = Out(S, v)
         /\ \A S, R : Closed(S, R)' <=> Closed(S, R)
         /\ \A S, v : After(S, v)' = After(S, v)
         /\ \A S, v, w : Leads(S, v, w)' <=> Leads(S, v, w)
         /\ \A S, C : IsClass(S, C)' <=> IsClass(S, C)
         /\ \A q, v : Induced(q, v)' = Induced(q, v)
         /\ \A S : Connected(S)' <=> Connected(S)
         /\ \A S, f : FairIn(S, f)' <=> FairIn(S, f)
         /\ \A S : Fair(S)' <=> Fair(S)
<1>1. Nodes' = Nodes /\ \A q, v : Induced(q, v)' = Induced(q, v)
  BY DEF Nodes, Induced
<1>2. \A S, v : Out(S, v)' = Out(S, v)
  BY DEF Out
<1>3. \A S, R : Closed(S, R)' <=> Closed(S, R)
  BY <1>2 DEF Closed
<1>4. \A S, v : After(S, v)' = After(S, v)
  BY <1>2, <1>3 DEF After
<1>5. \A S, v, w : Leads(S, v, w)' <=> Leads(S, v, w)
  BY <1>4 DEF Leads
<1>6. \A S, C : IsClass(S, C)' <=> IsClass(S, C)
  BY <1>5 DEF IsClass
<1>7. \A S : Connected(S)' <=> Connected(S)
  BY <1>4 DEF Connected
<1>8. \A S, f : FairIn(S, f)' <=> FairIn(S, f)
  BY <1>2 DEF FairIn
<1>9. \A S : Fair(S)' <=> Fair(S)
  BY <1>7, <1>8 DEF Fair
<1>10. QED
  BY <1>1, <1>2, <1>3, <1>4, <1>5, <1>6, <1>7, <1>8, <1>9

\* The fields of the problem are of their types.
LEMMA ProblemFacts ==
  ASSUME IsProblem(problem)
  PROVE  /\ Len(problem.adj) \in Nat /\ Nodes = 1 .. Len(problem.adj)
         /\ \A v \in Nodes : problem.adj[v] \in Seq(Nodes) /\ IsInjective(problem.adj[v])
         /\ IsFiniteSet(Nodes)
         /\ problem.init \in Seq(Nodes)
         /\ problem.acc \in Seq(SUBSET Nodes)
         /\ problem.fairness \in Seq([strong : BOOLEAN, taken : SUBSET (Nodes \X Nodes),
                                      enabled : SUBSET Nodes])
<1>1. /\ problem.adj \in Seq(Seq(Nodes)) /\ \A v \in Nodes : IsInjective(problem.adj[v])
      /\ problem.init \in Seq(Nodes)
      /\ problem.acc \in Seq(SUBSET Nodes)
      /\ problem.fairness \in Seq([strong : BOOLEAN, taken : SUBSET (Nodes \X Nodes),
                                   enabled : SUBSET Nodes])
  BY DEF IsProblem, Nodes
<1>2. /\ Len(problem.adj) \in Nat /\ Nodes = 1 .. Len(problem.adj)
      /\ \A v \in 1 .. Len(problem.adj) : problem.adj[v] \in Seq(Nodes)
  <2> DEFINE S == Seq(Nodes)
  <2>1. problem.adj \in Seq(S)
    BY <1>1
  <2>2. Nodes = DOMAIN problem.adj
    BY DEF Nodes
  <2> HIDE DEF S
  <2>3. Len(problem.adj) \in Nat /\ DOMAIN problem.adj = 1 .. Len(problem.adj)
        /\ \A v \in 1 .. Len(problem.adj) : problem.adj[v] \in S
    BY <2>1, ElementFacts
  <2>4. QED
    BY <2>2, <2>3 DEF S
<1>3. IsFiniteSet(Nodes)
  BY <1>2, FS_Interval
<1>4. QED
  BY <1>1, <1>2, <1>3

\* The successors inside a list are each listed once.
LEMMA InducedFacts ==
  ASSUME IsProblem(problem), NEW q, NEW v \in Nodes
  PROVE  /\ Induced(q, v) \in Seq(Nodes)
         /\ Range(Induced(q, v)) = Out(Range(q), v)
         /\ IsInjective(Induced(q, v))
         /\ Len(Induced(q, v)) \in Nat /\ DOMAIN Induced(q, v) = 1 .. Len(Induced(q, v))
         /\ \A k \in 1 .. Len(Induced(q, v)) : Induced(q, v)[k] \in Out(Range(q), v)
<1>1. problem.adj[v] \in Seq(Nodes) /\ IsInjective(problem.adj[v])
  BY ProblemFacts
<1>2. /\ Induced(q, v) \in Seq(Nodes)
      /\ Range(Induced(q, v)) = Out(Range(q), v)
      /\ IsInjective(Induced(q, v))
  BY <1>1, OnlyFacts DEF Induced, Out
<1>3. Len(Induced(q, v)) \in Nat /\ DOMAIN Induced(q, v) = 1 .. Len(Induced(q, v))
  BY <1>2, ElementFacts
<1>4. QED
  BY <1>2, <1>3 DEF Range

(***************************************************************************)
(* What the types and the order of the stack and of the calls say.         *)
(***************************************************************************)
LEMMA TarjanShapes ==
  ASSUME SccTypeOK
  PROVE  /\ IsProblem(problem)
         /\ Len(stack) \in Nat /\ DOMAIN stack = 1 .. Len(stack)
         /\ Len(calls) \in Nat /\ DOMAIN calls = 1 .. Len(calls)
         /\ \A i \in DOMAIN calls : calls[i][1] \in Visited /\ calls[i][2] \in Nat \ {0}
         /\ OnStack \subseteq Visited /\ Visited \subseteq Range(view)
         /\ Range(view) \subseteq Nodes
         /\ IsFiniteSet(Visited) /\ Cardinality(Visited) \in Nat
         /\ DOMAIN low = Visited
         /\ \A v \in Visited : index[v] \in Nat /\ low[v] \in Nat
<1>1. Len(stack) \in Nat /\ DOMAIN stack = 1 .. Len(stack) /\ OnStack \subseteq Visited
  <2>1. stack \in Seq(Visited)
    BY DEF SccTypeOK
  <2> HIDE DEF Visited
  <2>2. QED
    BY <2>1, ElementFacts DEF OnStack, Range
<1>2. /\ Len(calls) \in Nat /\ DOMAIN calls = 1 .. Len(calls)
      /\ \A i \in DOMAIN calls : calls[i] \in Visited \X (Nat \ {0})
  <2> DEFINE C == Visited \X (Nat \ {0})
  <2>1. calls \in Seq(C)
    BY DEF SccTypeOK
  <2> HIDE DEF C
  <2>2. Len(calls) \in Nat /\ DOMAIN calls = 1 .. Len(calls)
        /\ \A i \in DOMAIN calls : calls[i] \in C
    BY <2>1, ElementFacts
  <2>3. QED
    BY <2>2 DEF C
<1>3. Visited \subseteq Range(view) /\ Range(view) \subseteq Nodes
  BY ElementFacts DEF SccTypeOK, Range
<1>4. IsFiniteSet(Visited) /\ Cardinality(Visited) \in Nat
  <2>1. IsFiniteSet(Nodes)
    BY ProblemFacts DEF SccTypeOK
  <2>2. IsFiniteSet(Visited)
    BY <1>3, <2>1, FS_Subset
  <2>3. QED
    BY <2>2, FS_CardinalityType
<1>5. DOMAIN low = Visited /\ \A v \in Visited : index[v] \in Nat /\ low[v] \in Nat
  BY DEF SccTypeOK
<1>6. QED
  BY <1>1, <1>2, <1>3, <1>4, <1>5 DEF SccTypeOK

\* No node is called twice, and the innermost call is the last node met.
LEMMA CallShapes ==
  ASSUME SccTypeOK, TarjanInv
  PROVE  /\ \A i \in DOMAIN calls : calls[i][1] \in OnStack
         /\ \A i, j \in DOMAIN calls : calls[i][1] = calls[j][1] => i = j
         /\ calls # <<>> => /\ 1 \in DOMAIN calls /\ V \in OnStack
                            /\ V = calls[1][1] /\ V \in Nodes
                            /\ calls[1][2] \in Nat \ {0}
                            /\ \A i \in DOMAIN calls : index[calls[i][1]] <= index[V]
<1>1. /\ \A i \in DOMAIN calls : calls[i][1] \in OnStack
      /\ \A i, j \in DOMAIN calls : i < j => index[calls[j][1]] < index[calls[i][1]]
  BY DEF TarjanInv, CallsInOrder
<1>2. \A i \in DOMAIN calls : index[calls[i][1]] \in Nat
  BY TarjanShapes
<1>3. ASSUME NEW i \in DOMAIN calls, NEW j \in DOMAIN calls, calls[i][1] = calls[j][1]
      PROVE  i = j
  <2>1. i \in Nat /\ j \in Nat
    BY TarjanShapes
  <2>2. ~ (i < j) /\ ~ (j < i)
    BY <1>1, <1>2, <1>3
  <2>3. QED
    BY <2>1, <2>2
<1>4. ASSUME calls # <<>>
      PROVE  1 \in DOMAIN calls /\ \A i \in DOMAIN calls : index[calls[i][1]] <= index[V]
  <2>1. Len(calls) # 0
    BY <1>4, EmptyFacts DEF SccTypeOK
  <2>2. 1 \in DOMAIN calls
    BY <2>1, TarjanShapes
  <2>3. ASSUME NEW i \in DOMAIN calls PROVE index[calls[i][1]] <= index[V]
    <3>1. i = 1 \/ 1 < i
      BY TarjanShapes
    <3>2. QED
      BY <1>1, <1>2, <2>2, <3>1 DEF V
  <2>4. QED
    BY <2>2, <2>3
<1>5. QED
  BY <1>1, <1>3, <1>4, TarjanShapes DEF V

\* What is followed from x when its call goes on by one child, or not at all.
LEMMA FollowedGrows ==
  ASSUME SccTypeOK, UNCHANGED <<problem, view>>, NEW x, NEW W,
         \A i \in DOMAIN calls : calls[i][1] = x =>
            \E j \in DOMAIN calls' :
               /\ calls'[j][1] = x
               /\ \/ calls'[j][2] = calls[i][2]
                  \/ calls'[j][2] = calls[i][2] + 1 /\ Induced(view, x)[calls[i][2]] \in W
  PROVE  Followed(x)' \subseteq Followed(x) \cup W
<1>1. /\ Range(view)' = Range(view) /\ Out(Range(view), x)' = Out(Range(view), x)
      /\ Induced(view, x)' = Induced(view, x)
  BY SameProblem
<1>2. ASSUME NEW z \in Followed(x)', z \notin W PROVE z \in Followed(x)
  <2>1. z \in Out(Range(view), x)
    BY <1>1, <1>2 DEF Followed
  <2>2. \A j \in DOMAIN calls' : calls'[j][1] = x =>
           \E k \in 1 .. calls'[j][2] - 1 :
              k \in DOMAIN Induced(view, x) /\ Induced(view, x)[k] = z
    BY <1>1, <1>2 DEF Followed
  <2>3. ASSUME NEW i \in DOMAIN calls, calls[i][1] = x
        PROVE  \E k \in 1 .. calls[i][2] - 1 :
                  k \in DOMAIN Induced(view, x) /\ Induced(view, x)[k] = z
    <3>1. PICK j \in DOMAIN calls' :
               /\ calls'[j][1] = x
               /\ \/ calls'[j][2] = calls[i][2]
                  \/ calls'[j][2] = calls[i][2] + 1 /\ Induced(view, x)[calls[i][2]] \in W
      BY <2>3
    <3>2. PICK k \in 1 .. calls'[j][2] - 1 :
               k \in DOMAIN Induced(view, x) /\ Induced(view, x)[k] = z
      BY <2>2, <3>1
    <3>3. calls[i][2] \in Nat
      BY TarjanShapes
    <3>4. CASE calls'[j][2] = calls[i][2]
      BY <3>2, <3>4
    <3>5. CASE calls'[j][2] = calls[i][2] + 1 /\ Induced(view, x)[calls[i][2]] \in W
      <4>1. k # calls[i][2]
        BY <1>2, <3>2, <3>5
      <4>2. k \in 1 .. calls[i][2] - 1
        BY <3>2, <3>3, <3>5, <4>1
      <4>3. QED
        BY <3>2, <4>2
    <3>6. QED
      BY <3>1, <3>4, <3>5
  <2>4. QED
    BY <2>1, <2>3 DEF Followed
<1>3. QED
  BY <1>2

(***************************************************************************)
(* A node is met: as a root, when there are no calls, or as the child of V. *)
(***************************************************************************)
IsMet(w, callers) ==
  /\ w \in Range(view) \ Visited
  /\ callers \in Seq(Visited \X (Nat \ {0}))
  /\ Len(callers) = Len(calls)
  /\ \A i \in DOMAIN calls :
        /\ callers[i][1] = calls[i][1]
        /\ IF i = 1 THEN callers[i][2] = calls[i][2] + 1 /\ Induced(view, V)[calls[1][2]] = w
           ELSE callers[i][2] = calls[i][2]
  /\ calls # <<>> => w \in Out(Range(view), V)
  /\ Discover(w, callers)

LEMMA MetShapes ==
  ASSUME SccTypeOK, TarjanInv, NEW w, NEW callers, IsMet(w, callers)
  PROVE  /\ Visited' = Visited \cup {w} /\ w \notin Visited /\ w \in Nodes
         /\ OnStack' = OnStack \cup {w}
         /\ \A x \in Visited : index'[x] = index[x] /\ low'[x] = low[x]
         /\ index'[w] = Cardinality(Visited) /\ low'[w] = Cardinality(Visited)
         /\ \A x \in Visited : index[x] < Cardinality(Visited)
         /\ Cardinality(Visited') = Cardinality(Visited) + 1
         /\ stack' \in Seq(Visited') /\ calls' \in Seq(Visited' \X (Nat \ {0}))
         /\ DOMAIN stack' = 1 .. Len(stack) + 1 /\ stack'[1] = w
         /\ \A k \in DOMAIN stack : stack'[k + 1] = stack[k]
         /\ DOMAIN calls' = 1 .. Len(calls) + 1 /\ calls'[1] = <<w, 1>>
         /\ \A k \in DOMAIN calls : calls'[k + 1] = callers[k]
         /\ UNCHANGED <<problem, view, sccs>>
<1>1. /\ UNCHANGED <<problem, view, sccs>>
      /\ index' = Put(index, w, Cardinality(Visited)) /\ low' = Put(low, w, Cardinality(Visited))
      /\ stack' = <<w>> \o stack /\ calls' = <<<<w, 1>>>> \o callers
      /\ w \in Range(view) \ Visited /\ callers \in Seq(Visited \X (Nat \ {0}))
      /\ Len(callers) = Len(calls)
  BY DEF IsMet, Discover
<1>2. w \in Nodes /\ w \notin Visited
  BY <1>1, TarjanShapes
<1>3. /\ Visited' = Visited \cup {w}
      /\ \A x \in Visited : index'[x] = index[x] /\ low'[x] = low[x]
      /\ index'[w] = Cardinality(Visited) /\ low'[w] = Cardinality(Visited)
  BY <1>1, <1>2, TarjanShapes DEF Put, Visited
<1>4. Cardinality(Visited') = Cardinality(Visited) + 1
  BY <1>2, <1>3, TarjanShapes, FS_AddElement
<1>5. \A x \in Visited : index[x] < Cardinality(Visited)
  BY DEF TarjanInv, NumbersOnce
<1>6. /\ stack' \in Seq(Visited') /\ OnStack' = OnStack \cup {w}
      /\ DOMAIN stack' = 1 .. Len(stack) + 1 /\ stack'[1] = w
      /\ \A k \in DOMAIN stack : stack'[k + 1] = stack[k]
  <2> DEFINE U == Visited \cup {w}
             one == <<w>>
             new == one \o stack
  <2>1. one \in Seq(U) /\ Len(one) = 1 /\ one[1] = w /\ Range(one) = {w}
    BY DEF Range
  <2>2. stack \in Seq(U) /\ DOMAIN stack = 1 .. Len(stack) /\ Len(stack) \in Nat
    <3>1. \A k \in 1 .. Len(stack) : stack[k] \in U
      BY TarjanShapes DEF OnStack, Range
    <3>2. QED
      BY <3>1, TarjanShapes DEF SccTypeOK
  <2> HIDE DEF U, one
  <2>3. /\ new \in Seq(U) /\ Len(new) = 1 + Len(stack) /\ new[1] = w
        /\ \A k \in 1 .. Len(stack) : new[1 + k] = stack[k]
        /\ Range(new) = {w} \cup Range(stack)
    <3>1. /\ one \o stack \in Seq(U)
          /\ Len(one \o stack) = Len(one) + Len(stack)
          /\ \A k \in 1 .. Len(one) : (one \o stack)[k] = one[k]
          /\ \A k \in 1 .. Len(stack) : (one \o stack)[Len(one) + k] = stack[k]
          /\ Range(one \o stack) = Range(one) \cup Range(stack)
      <4>1. one \in Seq(U) /\ stack \in Seq(U)
        BY <2>1, <2>2
      <4>2. QED
        BY <4>1, ConcatFacts
    <3> HIDE DEF new
    <3>2. 1 \in 1 .. Len(one)
      BY <2>1
    <3>3. QED
      BY <2>1, <3>1, <3>2 DEF new
  <2>4. stack' = new
    BY <1>1 DEF one
  <2> HIDE DEF new
  <2>5. DOMAIN new = 1 .. Len(stack) + 1 /\ \A k \in DOMAIN stack : k + 1 = 1 + k
    BY <2>2, <2>3, ElementFacts
  <2>6. QED
    BY <1>3, <2>2, <2>3, <2>4, <2>5 DEF OnStack, U
<1>7. /\ calls' \in Seq(Visited' \X (Nat \ {0}))
      /\ DOMAIN calls' = 1 .. Len(calls) + 1 /\ calls'[1] = <<w, 1>>
      /\ \A k \in DOMAIN calls : calls'[k + 1] = callers[k]
  <2> DEFINE U == (Visited \cup {w}) \X (Nat \ {0})
             one == <<<<w, 1>>>>
             new == one \o callers
  <2>1. one \in Seq(U) /\ Len(one) = 1 /\ one[1] = <<w, 1>>
    OBVIOUS
  <2>2. callers \in Seq(U) /\ DOMAIN calls = 1 .. Len(calls) /\ Len(calls) \in Nat
    <3>1. Visited \X (Nat \ {0}) \subseteq U
      OBVIOUS
    <3> HIDE DEF U
    <3>2. QED
      BY <1>1, <3>1, TarjanShapes
  <2>3. /\ new \in Seq(U) /\ Len(new) = 1 + Len(callers) /\ new[1] = <<w, 1>>
        /\ \A k \in 1 .. Len(callers) : new[1 + k] = callers[k]
    <3> HIDE DEF U, one
    <3>0. one \in Seq(U) /\ callers \in Seq(U)
      BY <2>1, <2>2
    <3>1. /\ one \o callers \in Seq(U)
          /\ Len(one \o callers) = Len(one) + Len(callers)
          /\ \A k \in 1 .. Len(one) : (one \o callers)[k] = one[k]
          /\ \A k \in 1 .. Len(callers) : (one \o callers)[Len(one) + k] = callers[k]
      BY <3>0, ConcatFacts
    <3> HIDE DEF new
    <3>2. 1 \in 1 .. Len(one)
      BY <2>1
    <3>3. QED
      BY <2>1, <3>1, <3>2 DEF new
  <2>4. calls' = new
    BY <1>1
  <2> HIDE DEF new
  <2>5. DOMAIN new = 1 .. Len(calls) + 1 /\ \A k \in DOMAIN calls : k + 1 = 1 + k
    <3> HIDE DEF U
    <3>1. QED
      BY <1>1, <2>2, <2>3, ElementFacts
  <2>6. QED
    BY <1>1, <1>3, <2>2, <2>3, <2>4, <2>5
<1>8. QED
  BY <1>1, <1>2, <1>3, <1>4, <1>5, <1>6, <1>7

\* What is followed then: nothing from the node met, and the edge to it from V.
LEMMA MetIsFollowed ==
  ASSUME SccTypeOK, TarjanInv, NEW w, NEW callers, IsMet(w, callers)
  PROVE  /\ Followed(w)' = {}
         /\ \A x \in Visited : Followed(x)' \subseteq Followed(x) \cup {w}
         /\ \A x \in Visited : w \in Followed(x)' => calls # <<>> /\ x = V
<1>1. /\ DOMAIN calls' = 1 .. Len(calls) + 1 /\ calls'[1] = <<w, 1>>
      /\ \A k \in DOMAIN calls : calls'[k + 1] = callers[k]
      /\ UNCHANGED <<problem, view>> /\ w \notin Visited
  BY MetShapes
<1>2. Len(calls) \in Nat /\ DOMAIN calls = 1 .. Len(calls)
  BY TarjanShapes
<1>3. Followed(w)' = {}
  <2>1. 1 \in DOMAIN calls' /\ calls'[1][1] = w /\ calls'[1][2] = 1
    BY <1>1, <1>2
  <2>2. 1 .. calls'[1][2] - 1 = {}
    BY <2>1
  <2>3. QED
    BY <2>1, <2>2 DEF Followed
<1>4. ASSUME NEW x \in Visited, NEW i \in DOMAIN calls, calls[i][1] = x
      PROVE  \E j \in DOMAIN calls' :
                /\ calls'[j][1] = x
                /\ \/ calls'[j][2] = calls[i][2]
                   \/ /\ calls'[j][2] = calls[i][2] + 1
                      /\ Induced(view, x)[calls[i][2]] \in {y \in {w} : calls # <<>> /\ x = V}
  <2>1. i + 1 \in DOMAIN calls' /\ calls'[i + 1] = callers[i]
    BY <1>1, <1>2
  <2>2. callers[i][1] = x
    BY <1>4 DEF IsMet
  <2>3. CASE i # 1
    <3>1. callers[i][2] = calls[i][2]
      BY <2>3 DEF IsMet
    <3>2. QED
      BY <2>1, <2>2, <3>1
  <2>4. CASE i = 1
    <3>1. callers[i][2] = calls[i][2] + 1 /\ Induced(view, V)[calls[1][2]] = w
      BY <2>4 DEF IsMet
    <3>2. calls # <<>> /\ x = V
      BY <1>2, <1>4, <2>4 DEF V
    <3>3. QED
      BY <2>1, <2>2, <2>4, <3>1, <3>2
  <2>5. QED
    BY <2>3, <2>4
<1>5. ASSUME NEW x \in Visited
      PROVE  Followed(x)' \subseteq Followed(x) \cup {y \in {w} : calls # <<>> /\ x = V}
  BY <1>1, <1>4, FollowedGrows
<1>6. ASSUME NEW x \in Visited PROVE w \notin Followed(x)
  <2>1. Followed(x) \subseteq Visited
    BY DEF TarjanInv, FollowedAreMet
  <2>2. QED
    BY <1>1, <2>1
<1>7. QED
  BY <1>3, <1>5, <1>6

LEMMA MetKeepsTarjan ==
  ASSUME SccTypeOK, TarjanInv, NEW w, NEW callers, IsMet(w, callers)
  PROVE  TarjanInv'
<1> DEFINE m == Cardinality(Visited)
           T == Range(view)
<1>1. /\ Visited' = Visited \cup {w} /\ w \notin Visited /\ w \in Nodes
      /\ OnStack' = OnStack \cup {w}
      /\ \A x \in Visited : index'[x] = index[x] /\ low'[x] = low[x]
      /\ index'[w] = m /\ low'[w] = m
      /\ \A x \in Visited : index[x] < m
      /\ Cardinality(Visited') = m + 1
      /\ DOMAIN stack' = 1 .. Len(stack) + 1 /\ stack'[1] = w
      /\ \A k \in DOMAIN stack : stack'[k + 1] = stack[k]
      /\ DOMAIN calls' = 1 .. Len(calls) + 1 /\ calls'[1] = <<w, 1>>
      /\ \A k \in DOMAIN calls : calls'[k + 1] = callers[k]
      /\ UNCHANGED <<problem, view, sccs>>
  BY MetShapes
<1>2. /\ Len(stack) \in Nat /\ DOMAIN stack = 1 .. Len(stack)
      /\ Len(calls) \in Nat /\ DOMAIN calls = 1 .. Len(calls)
      /\ \A i \in DOMAIN calls : calls[i][1] \in Visited
      /\ OnStack \subseteq Visited /\ Visited \subseteq T /\ T \subseteq Nodes
      /\ m \in Nat
      /\ \A v \in Visited : index[v] \in Nat /\ low[v] \in Nat
  BY TarjanShapes
<1>3. \A i \in DOMAIN calls : calls[i][1] \in OnStack
  BY CallShapes
<1>4. /\ calls'[1][1] = w
      /\ \A k \in DOMAIN calls : calls'[k + 1][1] = calls[k][1]
  <2>1. \A k \in DOMAIN calls : callers[k][1] = calls[k][1]
    BY DEF IsMet
  <2>2. <<w, 1>>[1] = w
    OBVIOUS
  <2>3. QED
    BY <1>1, <2>1, <2>2
<1>5. ASSUME NEW i \in DOMAIN calls'
      PROVE  i = 1 \/ \E k \in DOMAIN calls : i = k + 1
  <2>1. i = 1 \/ (i - 1 \in DOMAIN calls /\ i = (i - 1) + 1)
    BY <1>1, <1>2
  <2>2. QED
    BY <2>1
<1>6. T' = T /\ \A x, y : Leads(T, x, y)' <=> Leads(T, x, y)
  BY <1>1, SameProblem
<1>7. /\ Followed(w)' = {}
      /\ \A x \in Visited : Followed(x)' \subseteq Followed(x) \cup {w}
      /\ \A x \in Visited : w \in Followed(x)' => calls # <<>> /\ x = V
  BY MetIsFollowed
<1>8. calls # <<>> => Leads(T, V, w) /\ V \in OnStack /\ 1 \in DOMAIN calls /\ V = calls[1][1]
                      /\ \A i \in DOMAIN calls : index[calls[i][1]] <= index[V]
  <2>1. ASSUME calls # <<>> PROVE w \in Out(T, V)
    BY <2>1 DEF IsMet
  <2>2. calls # <<>> => V \in T /\ V \in OnStack /\ 1 \in DOMAIN calls /\ V = calls[1][1]
                      /\ \A i \in DOMAIN calls : index[calls[i][1]] <= index[V]
    BY <1>2, CallShapes
  <2> HIDE DEF T
  <2>3. QED
    BY <2>1, <2>2, LeadsAlongEdge
<1> HIDE DEF m, T
<1>10. NumbersOnce'
  <2>1. IsInjective(index)
    BY DEF TarjanInv, NumbersOnce
  <2>2. DOMAIN index = Visited /\ DOMAIN index' = Visited'
    BY DEF Visited
  <2>3. IsInjective(index')
    BY <1>1, <1>2, <2>1, <2>2 DEF IsInjective
  <2>4. \A v \in Visited' : index'[v] < Cardinality(Visited')
    BY <1>1, <1>2
  <2>5. QED
    BY <2>3, <2>4 DEF NumbersOnce
<1>11. StackInOrder'
  <2>1. ASSUME NEW i \in DOMAIN stack', NEW j \in DOMAIN stack', i < j
        PROVE  index'[stack'[j]] < index'[stack'[i]]
    <3>1. j - 1 \in DOMAIN stack /\ stack'[j] = stack[j - 1]
      <4>1. j - 1 \in DOMAIN stack /\ (j - 1) + 1 = j
        BY <1>1, <1>2, <2>1
      <4>2. QED
        BY <1>1, <4>1
    <3>2. stack[j - 1] \in Visited
      BY <1>2, <3>1 DEF OnStack, Range
    <3>3. CASE i = 1
      BY <1>1, <3>1, <3>2, <3>3
    <3>4. CASE i # 1
      <4>1. i - 1 \in DOMAIN stack /\ (i - 1) + 1 = i /\ i - 1 < j - 1
        BY <1>1, <1>2, <2>1, <3>4
      <4>2. stack'[i] = stack[i - 1] /\ stack[i - 1] \in Visited
        BY <1>1, <1>2, <4>1 DEF OnStack, Range
      <4>3. index[stack[j - 1]] < index[stack[i - 1]]
        BY <3>1, <4>1 DEF TarjanInv, StackInOrder
      <4>4. QED
        BY <1>1, <3>1, <3>2, <4>2, <4>3
    <3>5. QED
      BY <3>3, <3>4
  <2>2. QED
    BY <2>1 DEF StackInOrder
<1>12. CallsInOrder'
  <2>1. ASSUME NEW i \in DOMAIN calls' PROVE calls'[i][1] \in OnStack'
    BY <1>1, <1>3, <1>4, <1>5
  <2>2. ASSUME NEW i \in DOMAIN calls', NEW j \in DOMAIN calls', i < j
        PROVE  index'[calls'[j][1]] < index'[calls'[i][1]]
    <3>1. PICK k \in DOMAIN calls : j = k + 1
      <4>1. j # 1
        BY <1>1, <1>2, <2>2
      <4>2. QED
        BY <1>5, <4>1
    <3>2. calls'[j][1] = calls[k][1] /\ calls[k][1] \in Visited
      BY <1>2, <1>4, <3>1
    <3>3. CASE i = 1
      BY <1>1, <1>4, <3>2, <3>3
    <3>4. ASSUME NEW l \in DOMAIN calls, i = l + 1
          PROVE  index'[calls'[j][1]] < index'[calls'[i][1]]
      <4>1. l < k
        BY <1>2, <2>2, <3>1, <3>4
      <4>2. index[calls[k][1]] < index[calls[l][1]]
        BY <4>1 DEF TarjanInv, CallsInOrder
      <4>3. calls'[i][1] = calls[l][1] /\ calls[l][1] \in Visited
        BY <1>2, <1>4, <3>4
      <4>4. /\ index'[calls[k][1]] = index[calls[k][1]]
            /\ index'[calls[l][1]] = index[calls[l][1]]
        BY <1>1, <3>2, <4>3
      <4>5. QED
        BY <3>2, <4>2, <4>3, <4>4
    <3>5. QED
      BY <1>5, <3>3, <3>4
  <2>3. QED
    BY <2>1, <2>2 DEF CallsInOrder
<1>13. FollowedAreMet'
  <2>1. ASSUME NEW v \in Visited' PROVE Followed(v)' \subseteq Visited'
    <3>1. CASE v = w
      BY <1>7, <3>1
    <3>2. CASE v \in Visited
      <4>1. Followed(v) \subseteq Visited
        BY <3>2 DEF TarjanInv, FollowedAreMet
      <4>2. QED
        BY <1>1, <1>7, <3>2, <4>1
    <3>3. QED
      BY <1>1, <3>1, <3>2
  <2>2. QED
    BY <2>1 DEF FollowedAreMet
<1>14. FinishedIsClosed'
  <2>1. Visited' \ OnStack' = Visited \ OnStack
    BY <1>1, <1>2
  <2>2. Closed(T, Visited \ OnStack)
    BY DEF TarjanInv, FinishedIsClosed, T
  <2>3. Closed(T, Visited \ OnStack)'
    BY <1>1, <1>6, <2>1, <2>2, SameProblem
  <2>4. QED
    BY <2>3 DEF FinishedIsClosed, T
<1>15. CallsLead'
  <2>1. ASSUME NEW i \in DOMAIN calls', NEW y \in OnStack', index'[calls'[i][1]] <= index'[y]
        PROVE  Leads(T, calls'[i][1], y)
    <3>1. CASE i = 1
      <4>1. y = w
        BY <1>1, <1>2, <1>4, <2>1, <3>1
      <4>2. QED
        BY <1>4, <3>1, <4>1 DEF Leads
    <3>2. ASSUME NEW k \in DOMAIN calls, i = k + 1 PROVE Leads(T, calls'[i][1], y)
      <4>1. calls'[i][1] = calls[k][1] /\ calls[k][1] \in Visited /\ calls[k][1] \in T
        BY <1>2, <1>4, <3>2
      <4>2. CASE y \in OnStack
        <5>1. index[calls[k][1]] <= index[y]
          BY <1>1, <1>2, <2>1, <4>1, <4>2
        <5>2. QED
          BY <4>1, <4>2, <5>1 DEF TarjanInv, CallsLead, T
      <4>3. CASE y = w
        <5>1. calls # <<>>
          BY <1>2
        <5>2. Leads(T, calls[k][1], V)
          BY <1>8, <5>1 DEF TarjanInv, CallsLead, T
        <5>3. QED
          BY <1>8, <4>1, <4>3, <5>1, <5>2, LeadsOn
      <4>4. QED
        BY <1>1, <4>2, <4>3
    <3>3. QED
      BY <1>5, <3>1, <3>2
  <2>2. QED
    BY <1>6, <2>1 DEF CallsLead, T
<1>16. LeadToCalls'
  <2>1. ASSUME NEW x \in OnStack'
        PROVE  \E i \in DOMAIN calls' :
                  index'[calls'[i][1]] <= index'[x] /\ Leads(T, x, calls'[i][1])
    <3>1. CASE x = w
      <4>1. 1 \in DOMAIN calls'
        BY <1>1, <1>2
      <4>2. Leads(T, w, w)
        BY DEF Leads
      <4>3. QED
        BY <1>1, <1>2, <1>4, <3>1, <4>1, <4>2
    <3>2. CASE x \in OnStack
      <4>1. PICK k \in DOMAIN calls : index[calls[k][1]] <= index[x] /\ Leads(T, x, calls[k][1])
        BY <3>2 DEF TarjanInv, LeadToCalls, T
      <4>2. k + 1 \in DOMAIN calls'
        BY <1>1, <1>2
      <4>3. index'[calls'[k + 1][1]] <= index'[x] /\ Leads(T, x, calls'[k + 1][1])
        BY <1>1, <1>2, <1>4, <3>2, <4>1
      <4>4. QED
        BY <4>2, <4>3
    <3>3. QED
      BY <1>1, <3>1, <3>2
  <2>2. QED
    BY <1>6, <2>1 DEF LeadToCalls, T
<1>17. LowIsLed'
  <2>1. ASSUME NEW i \in DOMAIN calls'
        PROVE  /\ low'[calls'[i][1]] <= index'[calls'[i][1]]
               /\ \E y \in OnStack' : low'[calls'[i][1]] = index'[y] /\ Leads(T, calls'[i][1], y)
    <3>1. CASE i = 1
      <4>1. Leads(T, w, w) /\ w \in OnStack'
        BY <1>1 DEF Leads
      <4>2. QED
        BY <1>1, <1>2, <1>4, <3>1, <4>1
    <3>2. ASSUME NEW k \in DOMAIN calls, i = k + 1
          PROVE  /\ low'[calls'[i][1]] <= index'[calls'[i][1]]
                 /\ \E y \in OnStack' :
                       low'[calls'[i][1]] = index'[y] /\ Leads(T, calls'[i][1], y)
      <4>1. low[calls[k][1]] <= index[calls[k][1]]
        BY DEF TarjanInv, LowIsLed
      <4>2. PICK y \in OnStack : low[calls[k][1]] = index[y] /\ Leads(T, calls[k][1], y)
        BY DEF TarjanInv, LowIsLed, T
      <4>3. calls'[i][1] = calls[k][1] /\ calls[k][1] \in Visited
        BY <1>2, <1>4, <3>2
      <4>4. y \in Visited /\ y \in OnStack'
        BY <1>1, <1>2
      <4>5. /\ index'[calls[k][1]] = index[calls[k][1]] /\ index'[y] = index[y]
            /\ low'[calls[k][1]] = low[calls[k][1]]
        BY <1>1, <4>3, <4>4
      <4>6. QED
        BY <4>1, <4>2, <4>3, <4>4, <4>5
    <3>3. QED
      BY <1>5, <3>1, <3>2
  <2>2. QED
    BY <1>6, <2>1 DEF LowIsLed, T
<1>18. LowIsLeast'
  <2>1. ASSUME NEW y \in OnStack', NEW z \in OnStack', z \in Followed(y)',
               NEW i \in DOMAIN calls', index'[calls'[i][1]] <= index'[y]
        PROVE  \E j \in 1 .. i : low'[calls'[j][1]] <= index'[z]
    <3>1. y # w /\ y \in OnStack /\ y \in Visited
      BY <1>1, <1>2, <1>7, <2>1
    <3>2. PICK k \in DOMAIN calls : i = k + 1
      <4>1. i # 1
        BY <1>1, <1>2, <1>4, <2>1, <3>1
      <4>2. QED
        BY <1>5, <4>1
    <3>3. CASE z = w
      <4>1. calls # <<>> /\ y = V
        BY <1>7, <2>1, <3>1, <3>3
      <4>2. 2 \in 1 .. i /\ 2 = 1 + 1
        BY <1>2, <3>2
      <4>3. calls'[2][1] = V /\ V \in Visited
        BY <1>2, <1>4, <1>8, <4>1, <4>2
      <4>4. low[V] <= index[V]
        BY <1>8, <4>1 DEF TarjanInv, LowIsLed
      <4>5. low'[calls'[2][1]] <= index'[z]
        BY <1>1, <1>2, <3>3, <4>3, <4>4
      <4>6. QED
        BY <4>2, <4>5
    <3>4. CASE z # w
      <4>1. z \in OnStack /\ z \in Followed(y)
        BY <1>1, <1>7, <2>1, <3>1, <3>4
      <4>2. index[calls[k][1]] <= index[y]
        BY <1>1, <1>2, <1>4, <2>1, <3>1, <3>2
      <4>3. PICK j \in 1 .. k : low[calls[j][1]] <= index[z]
        BY <3>1, <4>1, <4>2 DEF TarjanInv, LowIsLeast
      <4>4. j \in DOMAIN calls /\ j + 1 \in 1 .. i
        BY <1>2, <3>2
      <4>5. low'[calls'[j + 1][1]] <= index'[z]
        BY <1>1, <1>2, <1>4, <4>1, <4>3, <4>4
      <4>6. QED
        BY <4>4, <4>5
    <3>5. QED
      BY <3>3, <3>4
  <2>2. QED
    BY <2>1 DEF LowIsLeast
<1>19. PoppedOnce' /\ ClassesOf(Range(view))' /\ FinishedAreListed'
  <2>1. PoppedOnce'
    BY <1>1 DEF TarjanInv, PoppedOnce
  <2>2. \A i \in DOMAIN sccs : IsClass(T, Range(sccs[i]))
    BY DEF TarjanInv, ClassesOf, T
  <2>3. \A i \in DOMAIN sccs : IsClass(T, Range(sccs[i]))'
    BY <1>1, <1>6, <2>2, SameProblem
  <2>4. ClassesOf(Range(view))'
    BY <1>1, <2>3 DEF ClassesOf, T
  <2>5. Visited' \ OnStack' = Visited \ OnStack
    BY <1>1, <1>2
  <2>6. FinishedAreListed'
    BY <1>1, <2>5 DEF TarjanInv, FinishedAreListed
  <2>7. QED
    BY <2>1, <2>4, <2>6
<1>20. QED
  BY <1>10, <1>11, <1>12, <1>13, <1>14, <1>15, <1>16, <1>17, <1>18, <1>19 DEF TarjanInv

\* The next child, and the call that goes on to the one after it.
LEMMA ChildFacts ==
  ASSUME SccTypeOK, TarjanInv, HasChild
  PROVE  /\ calls # <<>> /\ 1 \in DOMAIN calls
         /\ Child \in Out(Range(view), V) /\ Child \in Range(view)
         /\ Child = Induced(view, V)[calls[1][2]]
         /\ Advanced \in Seq(Visited \X (Nat \ {0})) /\ Len(Advanced) = Len(calls)
         /\ DOMAIN Advanced = DOMAIN calls
         /\ \A i \in DOMAIN calls :
               /\ Advanced[i][1] = calls[i][1]
               /\ Advanced[i][2] = IF i = 1 THEN calls[i][2] + 1 ELSE calls[i][2]
<1>1. /\ calls # <<>> /\ calls[1][2] <= Len(Induced(view, V))
      /\ calls[1][2] \in Nat \ {0} /\ V \in Nodes /\ V \in OnStack /\ V = calls[1][1]
      /\ 1 \in DOMAIN calls
  BY CallShapes DEF HasChild, Children
<1>2. Child = Induced(view, V)[calls[1][2]] /\ Child \in Out(Range(view), V)
  <2>1. /\ Len(Induced(view, V)) \in Nat
        /\ \A k \in 1 .. Len(Induced(view, V)) : Induced(view, V)[k] \in Out(Range(view), V)
    BY <1>1, TarjanShapes, InducedFacts
  <2>2. calls[1][2] \in 1 .. Len(Induced(view, V))
    BY <1>1, <2>1
  <2>3. Child = Induced(view, V)[calls[1][2]]
    BY DEF Child, Children
  <2>4. QED
    BY <2>1, <2>2, <2>3
<1>3. Child \in Range(view)
  BY <1>2 DEF Out
<1>4. /\ Advanced \in Seq(Visited \X (Nat \ {0})) /\ Len(Advanced) = Len(calls)
      /\ DOMAIN Advanced = DOMAIN calls
      /\ \A i \in DOMAIN calls :
            /\ Advanced[i][1] = calls[i][1]
            /\ Advanced[i][2] = IF i = 1 THEN calls[i][2] + 1 ELSE calls[i][2]
  <2> DEFINE U == Visited \X (Nat \ {0})
             next == <<V, calls[1][2] + 1>>
             new == [calls EXCEPT ![1] = next]
  <2>1. next \in U /\ next[1] = calls[1][1] /\ next[2] = calls[1][2] + 1
    BY <1>1, TarjanShapes
  <2>2. calls \in Seq(U) /\ DOMAIN calls = 1 .. Len(calls) /\ Len(calls) \in Nat
    BY TarjanShapes DEF SccTypeOK
  <2>3. Advanced = new
    BY DEF Advanced
  <2> HIDE DEF U, next
  <2>4. /\ new \in Seq(U) /\ Len(new) = Len(calls) /\ new[1] = next
        /\ \A j \in 1 .. Len(calls) : j # 1 => new[j] = calls[j]
    BY <1>1, <2>1, <2>2, ExceptFacts
  <2> HIDE DEF new
  <2>5. DOMAIN new = 1 .. Len(calls)
    BY <2>2, <2>4, ElementFacts
  <2>6. \A i \in DOMAIN calls :
            /\ Advanced[i][1] = calls[i][1]
            /\ Advanced[i][2] = IF i = 1 THEN calls[i][2] + 1 ELSE calls[i][2]
    BY <2>1, <2>2, <2>3, <2>4
  <2>7. QED
    BY <2>2, <2>3, <2>4, <2>5, <2>6 DEF U
<1>5. QED
  BY <1>1, <1>2, <1>3, <1>4

LEMMA DescendMeets ==
  ASSUME SccTypeOK, TarjanInv, Descend
  PROVE  IsMet(Child, Advanced)
<1>1. HasChild /\ Child \notin Visited /\ Discover(Child, Advanced)
  BY DEF Descend
<1>2. QED
  BY <1>1, ChildFacts DEF IsMet

LEMMA RootMeets ==
  ASSUME SccTypeOK, TarjanInv, NextRoot
  PROVE  IsMet(Head(Roots), <<>>)
<1>1. calls = <<>> /\ Roots # <<>> /\ Discover(Head(Roots), <<>>)
  BY DEF NextRoot
<1>2. Head(Roots) \in Range(view) \ Visited
  <2>1. view \in Seq(Nodes)
    BY DEF SccTypeOK
  <2>2. Roots \in Seq(Nodes) /\ Range(Roots) = Range(view) \cap (Range(view) \ Visited)
    BY <2>1, OnlyFacts DEF Roots
  <2>3. Head(Roots) \in Range(Roots)
    BY <1>1, <2>2, TailFacts
  <2>4. QED
    BY <2>2, <2>3
<1>3. <<>> \in Seq(Visited \X (Nat \ {0})) /\ Len(<<>>) = 0 /\ DOMAIN calls = {}
  <2>1. \A S : <<>> \in Seq(S) /\ Len(<<>>) = 0
    BY EmptyFacts
  <2>2. DOMAIN calls = {}
    BY <1>1, <2>1, TarjanShapes
  <2>3. QED
    BY <2>1, <2>2
<1>4. QED
  BY <1>1, <1>2, <1>3, TarjanShapes DEF IsMet

(***************************************************************************)
(* A child that has been met is passed; on the stack, it lowers the link.  *)
(***************************************************************************)
LEMMA PassedKeepsTarjan ==
  ASSUME SccTypeOK, TarjanInv, LowerLink \/ SkipChild
  PROVE  TarjanInv'
<1> DEFINE T == Range(view)
           w == Child
<1>1. /\ UNCHANGED <<problem, view, index, stack, sccs>> /\ calls' = Advanced
      /\ HasChild
      /\ low' = IF w \in OnStack THEN [low EXCEPT ![V] = MinOf(low[V], index[w])] ELSE low
      /\ w \in Visited
  <2>1. OnStack \subseteq Visited
    BY TarjanShapes
  <2>2. QED
    BY <2>1 DEF LowerLink, SkipChild
<1>2. /\ Len(calls) \in Nat /\ DOMAIN calls = 1 .. Len(calls)
      /\ \A i \in DOMAIN calls : calls[i][1] \in Visited
      /\ OnStack \subseteq Visited /\ Visited \subseteq T /\ T \subseteq Nodes
      /\ DOMAIN low = Visited
      /\ \A v \in Visited : index[v] \in Nat /\ low[v] \in Nat
  BY TarjanShapes
<1>3. /\ \A i \in DOMAIN calls : calls[i][1] \in OnStack
      /\ \A i, j \in DOMAIN calls : calls[i][1] = calls[j][1] => i = j
      /\ 1 \in DOMAIN calls /\ V = calls[1][1] /\ V \in OnStack
      /\ \A i \in DOMAIN calls : index[calls[i][1]] <= index[V]
  BY <1>1, CallShapes, ChildFacts
<1>4. /\ DOMAIN calls' = DOMAIN calls
      /\ \A i \in DOMAIN calls : calls'[i][1] = calls[i][1]
      /\ \A i \in DOMAIN calls : calls'[i][2] = IF i = 1 THEN calls[i][2] + 1 ELSE calls[i][2]
      /\ w \in Out(T, V) /\ w = Induced(view, V)[calls[1][2]]
  BY <1>1, ChildFacts
<1>5. /\ Visited' = Visited /\ OnStack' = OnStack /\ T' = T
      /\ \A x, y : Leads(T, x, y)' <=> Leads(T, x, y)
  BY <1>1, SameProblem DEF Visited, OnStack
<1>6. Leads(T, V, w)
  <2>1. V \in T
    BY <1>2, <1>3
  <2> HIDE DEF T, w
  <2>2. QED
    BY <1>4, <2>1, LeadsAlongEdge
<1>7. \A x : Followed(x)' \subseteq Followed(x) \cup {y \in {w} : x = V}
  <2>1. ASSUME NEW x, NEW i \in DOMAIN calls, calls[i][1] = x
        PROVE  /\ calls'[i][1] = x /\ i \in DOMAIN calls'
               /\ \/ calls'[i][2] = calls[i][2]
                  \/ calls'[i][2] = calls[i][2] + 1
                     /\ Induced(view, x)[calls[i][2]] \in {y \in {w} : x = V}
    <3>1. CASE i # 1
      BY <1>4, <2>1, <3>1
    <3>2. CASE i = 1
      BY <1>3, <1>4, <2>1, <3>2
    <3>3. QED
      BY <3>1, <3>2
  <2>2. UNCHANGED <<problem, view>>
    BY <1>1
  <2> HIDE DEF w
  <2>3. ASSUME NEW x PROVE Followed(x)' \subseteq Followed(x) \cup {y \in {w} : x = V}
    <3> DEFINE W == {y \in {w} : x = V}
    <3>1. \A i \in DOMAIN calls : calls[i][1] = x =>
             \E j \in DOMAIN calls' :
                /\ calls'[j][1] = x
                /\ \/ calls'[j][2] = calls[i][2]
                   \/ calls'[j][2] = calls[i][2] + 1 /\ Induced(view, x)[calls[i][2]] \in W
      BY <2>1
    <3> HIDE DEF W
    <3>2. Followed(x)' \subseteq Followed(x) \cup W
      BY <2>2, <3>1, FollowedGrows
    <3>3. QED
      BY <3>2 DEF W
  <2>4. QED
    BY <2>3
<1>8. /\ \A x \in Visited : low'[x] <= low[x] /\ (x # V => low'[x] = low[x])
      /\ w \in OnStack => low'[V] <= index[w]
      /\ low'[V] = low[V] \/ (w \in OnStack /\ low'[V] = index[w])
      /\ low'[V] \in Nat
  <2>1. V \in Visited /\ index[w] \in Nat
    BY <1>1, <1>2, <1>3
  <2>2. low[V] \in Nat
    BY <1>2, <2>1
  <2> HIDE DEF w
  <2>3. QED
    BY <1>1, <1>2, <2>1, <2>2 DEF MinOf
<1> HIDE DEF T, w
<1>9. NumbersOnce' /\ StackInOrder' /\ CallsInOrder' /\ FinishedIsClosed'
  <2>1. NumbersOnce'
    BY <1>1, <1>5 DEF TarjanInv, NumbersOnce
  <2>2. StackInOrder'
    BY <1>1 DEF TarjanInv, StackInOrder
  <2>3. CallsInOrder'
    BY <1>1, <1>4, <1>5 DEF TarjanInv, CallsInOrder
  <2>4. Closed(T, Visited \ OnStack)
    BY DEF TarjanInv, FinishedIsClosed, T
  <2>5. Closed(T, Visited \ OnStack)'
    BY <1>1, <1>5, <2>4, SameProblem
  <2>6. QED
    BY <2>1, <2>2, <2>3, <2>5 DEF FinishedIsClosed, T
<1>10. FollowedAreMet'
  <2>1. ASSUME NEW v \in Visited PROVE Followed(v)' \subseteq Visited
    BY <1>1, <1>7 DEF TarjanInv, FollowedAreMet
  <2>2. QED
    BY <1>5, <2>1 DEF FollowedAreMet
<1>11. CallsLead' /\ LeadToCalls'
  <2>1. \A i \in DOMAIN calls : \A y \in OnStack :
            index[calls[i][1]] <= index[y] => Leads(T, calls[i][1], y)
    BY DEF TarjanInv, CallsLead, T
  <2>2. \A x \in OnStack : \E i \in DOMAIN calls :
            index[calls[i][1]] <= index[x] /\ Leads(T, x, calls[i][1])
    BY DEF TarjanInv, LeadToCalls, T
  <2>3. CallsLead'
    BY <1>1, <1>4, <1>5, <2>1 DEF CallsLead, T
  <2>4. LeadToCalls'
    <3>1. \A x \in OnStack : \E i \in DOMAIN calls' :
              index'[calls'[i][1]] <= index'[x] /\ Leads(T, x, calls'[i][1])
      BY <1>1, <1>4, <2>2
    <3>2. QED
      BY <1>5, <3>1 DEF LeadToCalls, T
  <2>5. QED
    BY <2>3, <2>4
<1>12. LowIsLed'
  <2>1. ASSUME NEW i \in DOMAIN calls
        PROVE  /\ low'[calls[i][1]] <= index[calls[i][1]]
               /\ \E y \in OnStack : low'[calls[i][1]] = index[y] /\ Leads(T, calls[i][1], y)
    <3>1. calls[i][1] \in Visited /\ index[calls[i][1]] \in Nat /\ low[calls[i][1]] \in Nat
      BY <1>2
    <3>2. low[calls[i][1]] <= index[calls[i][1]]
      BY DEF TarjanInv, LowIsLed
    <3>3. PICK y \in OnStack : low[calls[i][1]] = index[y] /\ Leads(T, calls[i][1], y)
      BY DEF TarjanInv, LowIsLed, T
    <3>4. low'[calls[i][1]] \in Nat
      BY <1>8, <3>1
    <3>5. low'[calls[i][1]] <= index[calls[i][1]]
      BY <1>8, <3>1, <3>2, <3>4
    <3>6. CASE calls[i][1] # V
      BY <1>8, <3>1, <3>3, <3>5, <3>6
    <3>7. CASE calls[i][1] = V
      BY <1>6, <1>8, <3>3, <3>5, <3>7
    <3>8. QED
      BY <3>6, <3>7
  <2>2. QED
    BY <1>1, <1>4, <1>5, <2>1 DEF LowIsLed, T
<1>13. LowIsLeast'
  <2>1. ASSUME NEW y \in OnStack, NEW z \in OnStack, z \in Followed(y)',
               NEW i \in DOMAIN calls, index[calls[i][1]] <= index[y]
        PROVE  \E j \in 1 .. i : low'[calls[j][1]] <= index[z]
    <3>1. CASE z \in Followed(y)
      <4>1. PICK j \in 1 .. i : low[calls[j][1]] <= index[z]
        BY <2>1, <3>1 DEF TarjanInv, LowIsLeast
      <4>2. j \in DOMAIN calls
        BY <1>2
      <4>3. calls[j][1] \in Visited /\ low[calls[j][1]] \in Nat /\ index[z] \in Nat
        BY <1>2, <4>2
      <4>4. low'[calls[j][1]] \in Nat
        BY <1>8, <4>3
      <4>5. low'[calls[j][1]] <= low[calls[j][1]]
        BY <1>8, <4>3
      <4>6. QED
        BY <4>1, <4>3, <4>4, <4>5
    <3>2. CASE z \notin Followed(y)
      <4>1. y = V /\ z = w
        BY <1>7, <2>1, <3>2
      <4>2. 1 \in 1 .. i
        BY <1>2
      <4>3. QED
        BY <1>3, <1>8, <2>1, <4>1, <4>2
    <3>3. QED
      BY <3>1, <3>2
  <2>2. ASSUME NEW y \in OnStack', NEW z \in OnStack', z \in Followed(y)',
               NEW i \in DOMAIN calls', index'[calls'[i][1]] <= index'[y]
        PROVE  \E j \in 1 .. i : low'[calls'[j][1]] <= index'[z]
    <3>1. PICK j \in 1 .. i : low'[calls[j][1]] <= index[z]
      BY <1>1, <1>4, <1>5, <2>1, <2>2
    <3>2. j \in DOMAIN calls
      BY <1>2, <1>4
    <3>3. QED
      BY <1>1, <1>4, <3>1, <3>2
  <2>3. QED
    BY <2>2 DEF LowIsLeast
<1>14. PoppedOnce' /\ ClassesOf(Range(view))' /\ FinishedAreListed'
  <2>1. PoppedOnce'
    BY <1>1 DEF TarjanInv, PoppedOnce
  <2>2. \A i \in DOMAIN sccs : IsClass(T, Range(sccs[i]))
    BY DEF TarjanInv, ClassesOf, T
  <2>3. \A i \in DOMAIN sccs : IsClass(T, Range(sccs[i]))'
    BY <1>1, <1>5, <2>2, SameProblem
  <2>4. ClassesOf(Range(view))'
    BY <1>1, <1>5, <2>3 DEF ClassesOf, T
  <2>5. FinishedAreListed'
    BY <1>1, <1>5 DEF TarjanInv, FinishedAreListed
  <2>6. QED
    BY <2>1, <2>4, <2>5
<1>15. QED
  BY <1>9, <1>10, <1>11, <1>12, <1>13, <1>14 DEF TarjanInv

(***************************************************************************)
(* V is done.                                                              *)
(***************************************************************************)
LEMMA RetreatFacts ==
  ASSUME SccTypeOK, TarjanInv, Retreat
  PROVE  /\ UNCHANGED <<problem, view, index>>
         /\ 1 \in DOMAIN calls /\ V \in OnStack /\ V = calls[1][1]
         /\ DOMAIN calls' = 1 .. Len(calls) - 1
         /\ \A k \in DOMAIN calls' : k + 1 \in DOMAIN calls /\ calls'[k] = calls[k + 1]
         /\ \A k \in DOMAIN calls : k # 1 => k - 1 \in DOMAIN calls' /\ calls'[k - 1] = calls[k]
         /\ \A k \in DOMAIN calls : k # 1 => index[calls[k][1]] < index[V]
         /\ low' \in [Visited -> Nat]
         /\ \A x \in Visited : low'[x] <= low[x] /\ (low'[x] = low[x] \/ low'[x] = low[V])
         /\ \A x \in Visited : low'[x] # low[x] => 2 \in DOMAIN calls /\ x = calls[2][1]
         /\ 2 \in DOMAIN calls => low'[calls[2][1]] <= low[V]
         /\ \A x \in Visited :
               (\A k \in DOMAIN calls : k # 1 => calls[k][1] # x)
                   => Out(Range(view), x) \subseteq Followed(x)
         /\ \A x : Followed(x)' \subseteq Followed(x)
<1>1. /\ calls # <<>> /\ ~HasChild /\ calls' = Tail(calls)
      /\ UNCHANGED <<problem, view, index>>
      /\ low' = IF Len(calls) = 1 THEN low
                ELSE [low EXCEPT ![calls[2][1]] = MinOf(low[calls[2][1]], low[V])]
  BY DEF Retreat
<1>2. /\ 1 \in DOMAIN calls /\ V \in OnStack /\ V = calls[1][1] /\ V \in Nodes
      /\ calls[1][2] \in Nat \ {0} /\ V \in Visited
      /\ \A i, j \in DOMAIN calls : calls[i][1] = calls[j][1] => i = j
  BY <1>1, CallShapes, TarjanShapes
<1>3. /\ Len(calls) \in Nat /\ DOMAIN calls = 1 .. Len(calls)
      /\ \A i \in DOMAIN calls : calls[i][1] \in Visited
      /\ DOMAIN low = Visited
      /\ \A v \in Visited : index[v] \in Nat /\ low[v] \in Nat
  BY TarjanShapes
<1>4. /\ DOMAIN calls' = 1 .. Len(calls) - 1
      /\ \A k \in 1 .. Len(calls) - 1 : calls'[k] = calls[k + 1]
  <2> DEFINE U == Visited \X (Nat \ {0})
  <2>1. calls \in Seq(U)
    BY DEF SccTypeOK
  <2> HIDE DEF U
  <2>2. /\ Tail(calls) \in Seq(U) /\ Len(Tail(calls)) = Len(calls) - 1
        /\ \A k \in 1 .. Len(calls) - 1 : Tail(calls)[k] = calls[k + 1]
    BY <1>1, <2>1, TailFacts
  <2>3. DOMAIN Tail(calls) = 1 .. Len(calls) - 1
    BY <2>2, ElementFacts
  <2>4. QED
    BY <1>1, <2>2, <2>3
<1>5. /\ \A k \in DOMAIN calls' : k + 1 \in DOMAIN calls /\ calls'[k] = calls[k + 1]
      /\ \A k \in DOMAIN calls : k # 1 => k - 1 \in DOMAIN calls' /\ calls'[k - 1] = calls[k]
  <2>1. ASSUME NEW k \in DOMAIN calls, k # 1
        PROVE  k - 1 \in 1 .. Len(calls) - 1 /\ (k - 1) + 1 = k
    BY <1>3, <2>1
  <2>2. ASSUME NEW k \in 1 .. Len(calls) - 1 PROVE k + 1 \in DOMAIN calls
    BY <1>3
  <2>3. ASSUME NEW k \in DOMAIN calls, k # 1 PROVE calls'[k - 1] = calls[k]
    <3>1. calls'[k - 1] = calls[(k - 1) + 1]
      BY <1>4, <2>1, <2>3
    <3>2. QED
      BY <2>1, <2>3, <3>1
  <2>4. QED
    BY <1>4, <2>1, <2>2, <2>3
<1>6. ASSUME NEW k \in DOMAIN calls, k # 1 PROVE index[calls[k][1]] < index[V]
  <2>1. 1 < k
    BY <1>3, <1>6
  <2>2. QED
    BY <1>2, <2>1 DEF TarjanInv, CallsInOrder
<1>7. /\ low' \in [Visited -> Nat]
      /\ \A x \in Visited : low'[x] <= low[x] /\ (low'[x] = low[x] \/ low'[x] = low[V])
      /\ \A x \in Visited : low'[x] # low[x] => 2 \in DOMAIN calls /\ x = calls[2][1]
      /\ 2 \in DOMAIN calls => low'[calls[2][1]] <= low[V]
  <2>1. CASE Len(calls) = 1
    <3>1. low' = low /\ 2 \notin DOMAIN calls
      BY <1>1, <1>3, <2>1
    <3>2. low \in [Visited -> Nat]
      BY DEF SccTypeOK
    <3>3. \A x \in Visited : low[x] <= low[x]
      BY <1>3
    <3>4. QED
      BY <3>1, <3>2, <3>3
  <2>2. CASE Len(calls) # 1
    <3>1. 2 \in DOMAIN calls
      BY <1>2, <1>3, <2>2
    <3> DEFINE c == calls[2][1]
               l == MinOf(low[c], low[V])
    <3>2. c \in Visited /\ low[c] \in Nat /\ low[V] \in Nat
      BY <1>2, <1>3, <3>1
    <3>3. l \in Nat /\ l <= low[c] /\ l <= low[V] /\ (l = low[c] \/ l = low[V])
      BY <3>2 DEF MinOf
    <3>4. low' = [low EXCEPT ![c] = l] /\ low \in [Visited -> Nat]
      BY <1>1, <2>2 DEF SccTypeOK
    <3> HIDE DEF l, c
    <3>5. low' \in [Visited -> Nat] /\ low'[c] = l /\ \A x \in Visited : x # c => low'[x] = low[x]
      BY <3>2, <3>3, <3>4
    <3>6. \A x \in Visited : low[x] <= low[x]
      BY <1>3
    <3>7. QED
      BY <3>1, <3>3, <3>5, <3>6 DEF c
  <2>3. QED
    BY <2>1, <2>2
<1>8. \A z \in Out(Range(view), V) : \E k \in 1 .. calls[1][2] - 1 :
          k \in DOMAIN Induced(view, V) /\ Induced(view, V)[k] = z
  <2>1. ~ (calls[1][2] <= Len(Induced(view, V)))
    BY <1>1 DEF HasChild, Children
  <2>2. /\ Range(Induced(view, V)) = Out(Range(view), V)
        /\ Len(Induced(view, V)) \in Nat
        /\ DOMAIN Induced(view, V) = 1 .. Len(Induced(view, V))
    BY <1>2, TarjanShapes, InducedFacts
  <2>3. 1 .. Len(Induced(view, V)) \subseteq 1 .. calls[1][2] - 1
    BY <1>2, <2>1, <2>2
  <2>4. QED
    BY <2>2, <2>3 DEF Range
<1>9. ASSUME NEW x \in Visited, \A k \in DOMAIN calls : k # 1 => calls[k][1] # x
      PROVE  Out(Range(view), x) \subseteq Followed(x)
  <2>1. \A i \in DOMAIN calls : calls[i][1] = x => i = 1 /\ x = V
    BY <1>2, <1>9
  <2>2. QED
    BY <1>8, <2>1 DEF Followed
<1>10. ASSUME NEW x, NEW z \in Followed(x)' PROVE z \in Followed(x)
  <2>1. Out(Range(view), x)' = Out(Range(view), x) /\ Induced(view, x)' = Induced(view, x)
    BY <1>1, SameProblem
  <2>2. z \in Out(Range(view), x)
    BY <1>10, <2>1 DEF Followed
  <2>3. \A j \in DOMAIN calls' : calls'[j][1] = x =>
           \E k \in 1 .. calls'[j][2] - 1 :
              k \in DOMAIN Induced(view, x) /\ Induced(view, x)[k] = z
    BY <1>10, <2>1 DEF Followed
  <2>4. ASSUME NEW i \in DOMAIN calls, calls[i][1] = x
        PROVE  \E k \in 1 .. calls[i][2] - 1 :
                  k \in DOMAIN Induced(view, x) /\ Induced(view, x)[k] = z
    <3>1. CASE i = 1
      BY <1>2, <1>8, <2>2, <2>4, <3>1
    <3>2. CASE i # 1
      <4>1. i - 1 \in DOMAIN calls' /\ calls'[i - 1] = calls[i]
        BY <1>5, <3>2
      <4>2. QED
        BY <2>3, <2>4, <4>1
    <3>3. QED
      BY <3>1, <3>2
  <2>5. QED
    BY <2>2, <2>4 DEF Followed
<1>11. QED
  BY <1>1, <1>2, <1>4, <1>5, <1>6, <1>7, <1>9, <1>10

\* V is not a root: it leads to a call below it.
LEMMA InnerRetreatKeepsTarjan ==
  ASSUME SccTypeOK, TarjanInv, Retreat, low[V] # index[V]
  PROVE  TarjanInv'
<1> DEFINE T == Range(view)
<1>1. UNCHANGED <<problem, view, index, stack, sccs>>
  BY DEF Retreat
<1>2. /\ Len(calls) \in Nat /\ DOMAIN calls = 1 .. Len(calls)
      /\ \A i \in DOMAIN calls : calls[i][1] \in Visited
      /\ OnStack \subseteq Visited /\ Visited \subseteq T /\ T \subseteq Nodes
      /\ \A v \in Visited : index[v] \in Nat /\ low[v] \in Nat
  BY TarjanShapes
<1>3. /\ 1 \in DOMAIN calls /\ V \in OnStack /\ V = calls[1][1]
      /\ DOMAIN calls' = 1 .. Len(calls) - 1
      /\ \A k \in DOMAIN calls' : k + 1 \in DOMAIN calls /\ calls'[k] = calls[k + 1]
      /\ \A k \in DOMAIN calls : k # 1 => k - 1 \in DOMAIN calls' /\ calls'[k - 1] = calls[k]
      /\ \A k \in DOMAIN calls : k # 1 => index[calls[k][1]] < index[V]
      /\ low' \in [Visited -> Nat]
      /\ \A x \in Visited : low'[x] <= low[x] /\ (low'[x] = low[x] \/ low'[x] = low[V])
      /\ \A x \in Visited : low'[x] # low[x] => 2 \in DOMAIN calls /\ x = calls[2][1]
      /\ 2 \in DOMAIN calls => low'[calls[2][1]] <= low[V]
      /\ \A x : Followed(x)' \subseteq Followed(x)
  BY RetreatFacts
<1>4. /\ Visited' = Visited /\ OnStack' = OnStack /\ T' = T
      /\ \A x, y : Leads(T, x, y)' <=> Leads(T, x, y)
  BY <1>1, SameProblem DEF Visited, OnStack
<1> HIDE DEF T
<1>5. PICK y \in OnStack : low[V] = index[y] /\ Leads(T, V, y) /\ index[y] < index[V]
  <2>1. low[V] <= index[V]
    BY <1>3 DEF TarjanInv, LowIsLed
  <2>2. PICK y \in OnStack : low[V] = index[y] /\ Leads(T, V, y)
    BY <1>3 DEF TarjanInv, LowIsLed, T
  <2>3. index[y] < index[V]
    BY <1>2, <1>3, <2>1, <2>2
  <2>4. QED
    BY <2>2, <2>3
<1>6. PICK b \in DOMAIN calls : b # 1 /\ index[calls[b][1]] <= index[y] /\ Leads(T, V, calls[b][1])
  <2>1. PICK b \in DOMAIN calls : index[calls[b][1]] <= index[y] /\ Leads(T, y, calls[b][1])
    BY DEF TarjanInv, LeadToCalls, T
  <2>2. b # 1
    BY <1>2, <1>3, <1>5, <2>1
  <2>3. V \in T
    BY <1>2, <1>3
  <2>4. Leads(T, V, calls[b][1])
    BY <1>5, <2>1, <2>3, LeadsOn
  <2>5. QED
    BY <2>1, <2>2, <2>4
<1>7. NumbersOnce' /\ StackInOrder' /\ CallsInOrder' /\ FollowedAreMet' /\ FinishedIsClosed'
  <2>1. NumbersOnce'
    BY <1>1, <1>4 DEF TarjanInv, NumbersOnce
  <2>2. StackInOrder'
    BY <1>1 DEF TarjanInv, StackInOrder
  <2>3. CallsInOrder'
    <3>1. ASSUME NEW i \in DOMAIN calls', NEW j \in DOMAIN calls', i < j
          PROVE  index[calls'[j][1]] < index[calls'[i][1]]
      <4>1. i + 1 \in DOMAIN calls /\ j + 1 \in DOMAIN calls /\ i + 1 < j + 1
        BY <1>2, <1>3, <3>1
      <4>2. QED
        BY <1>3, <4>1 DEF TarjanInv, CallsInOrder
    <3>2. \A i \in DOMAIN calls' : calls'[i][1] \in OnStack
      BY <1>3 DEF TarjanInv, CallsInOrder
    <3>3. QED
      BY <1>1, <1>4, <3>1, <3>2 DEF CallsInOrder
  <2>4. FollowedAreMet'
    <3>1. \A v \in Visited : Followed(v)' \subseteq Visited
      BY <1>3 DEF TarjanInv, FollowedAreMet
    <3>2. QED
      BY <1>4, <3>1 DEF FollowedAreMet
  <2>5. FinishedIsClosed'
    <3>1. Closed(T, Visited \ OnStack)
      BY DEF TarjanInv, FinishedIsClosed, T
    <3>2. Closed(T, Visited \ OnStack)'
      BY <1>1, <1>4, <3>1, SameProblem
    <3>3. QED
      BY <3>2 DEF FinishedIsClosed, T
  <2>6. QED
    BY <2>1, <2>2, <2>3, <2>4, <2>5
<1>8. CallsLead'
  <2>1. ASSUME NEW i \in DOMAIN calls', NEW x \in OnStack, index[calls'[i][1]] <= index[x]
        PROVE  Leads(T, calls'[i][1], x)
    BY <1>3, <2>1 DEF TarjanInv, CallsLead, T
  <2>2. QED
    BY <1>1, <1>4, <2>1 DEF CallsLead, T
<1>9. LeadToCalls'
  <2>1. ASSUME NEW x \in OnStack
        PROVE  \E i \in DOMAIN calls' :
                  index[calls'[i][1]] <= index[x] /\ Leads(T, x, calls'[i][1])
    <3>1. PICK i \in DOMAIN calls : index[calls[i][1]] <= index[x] /\ Leads(T, x, calls[i][1])
      BY DEF TarjanInv, LeadToCalls, T
    <3>2. CASE i # 1
      BY <1>3, <3>1, <3>2
    <3>3. CASE i = 1
      <4>1. index[V] <= index[x] /\ Leads(T, x, V) /\ x \in T
        BY <1>2, <1>3, <3>1, <3>3
      <4>2. Leads(T, x, calls[b][1])
        BY <1>6, <4>1, LeadsOn
      <4>3. index[calls[b][1]] <= index[x]
        <5>1. index[calls[b][1]] \in Nat /\ index[V] \in Nat /\ index[x] \in Nat
          BY <1>2, <1>3
        <5>2. index[calls[b][1]] < index[V]
          BY <1>3, <1>6
        <5>3. QED
          BY <4>1, <5>1, <5>2
      <4>4. b - 1 \in DOMAIN calls' /\ calls'[b - 1] = calls[b]
        BY <1>3, <1>6
      <4>5. QED
        BY <4>2, <4>3, <4>4
    <3>4. QED
      BY <3>2, <3>3
  <2>2. QED
    BY <1>1, <1>4, <2>1 DEF LeadToCalls, T
<1>10. LowIsLed'
  <2>1. ASSUME NEW i \in DOMAIN calls, i # 1
        PROVE  /\ low'[calls[i][1]] <= index[calls[i][1]]
               /\ \E x \in OnStack : low'[calls[i][1]] = index[x] /\ Leads(T, calls[i][1], x)
    <3> DEFINE c == calls[i][1]
    <3>1. c \in Visited /\ low[c] \in Nat /\ low'[c] \in Nat /\ index[c] \in Nat
          /\ low[c] <= index[c] /\ low'[c] <= low[c] /\ c \in T
      BY <1>2, <1>3 DEF TarjanInv, LowIsLed
    <3>2. CASE low'[c] = low[c]
      <4>1. PICK x \in OnStack : low[c] = index[x] /\ Leads(T, c, x)
        BY DEF TarjanInv, LowIsLed, T
      <4>2. QED
        BY <3>1, <3>2, <4>1
    <3>3. CASE low'[c] # low[c]
      <4>1. low'[c] = low[V]
        BY <1>3, <3>1, <3>3
      <4>2. index[c] <= index[V]
        <5>1. index[c] < index[V]
          BY <1>3, <2>1
        <5>2. index[V] \in Nat
          BY <1>2, <1>3
        <5> HIDE DEF c
        <5>3. QED
          BY <3>1, <5>1, <5>2
      <4>3. Leads(T, c, V)
        BY <1>3, <4>2 DEF TarjanInv, CallsLead, T
      <4> HIDE DEF c
      <4>4. Leads(T, c, y)
        BY <1>5, <3>1, <4>3, LeadsOn
      <4>5. QED
        BY <1>5, <3>1, <4>1, <4>4 DEF c
    <3>4. QED
      BY <3>2, <3>3
  <2>2. ASSUME NEW i \in DOMAIN calls'
        PROVE  /\ low'[calls'[i][1]] <= index[calls'[i][1]]
               /\ \E x \in OnStack : low'[calls'[i][1]] = index[x] /\ Leads(T, calls'[i][1], x)
    <3>1. i + 1 \in DOMAIN calls /\ i + 1 # 1 /\ calls'[i] = calls[i + 1]
      BY <1>2, <1>3
    <3>2. QED
      BY <2>1, <3>1
  <2>3. QED
    BY <1>1, <1>4, <2>2 DEF LowIsLed, T
<1>11. LowIsLeast'
  <2>1. ASSUME NEW x \in OnStack, NEW z \in OnStack, z \in Followed(x)',
               NEW i \in DOMAIN calls', index[calls'[i][1]] <= index[x]
        PROVE  \E j \in 1 .. i : low'[calls'[j][1]] <= index[z]
    <3>1. i + 1 \in DOMAIN calls /\ calls'[i] = calls[i + 1] /\ z \in Followed(x)
      BY <1>3, <2>1
    <3>2. PICK j \in 1 .. i + 1 : low[calls[j][1]] <= index[z]
      BY <2>1, <3>1 DEF TarjanInv, LowIsLeast
    <3>3. j \in DOMAIN calls /\ index[z] \in Nat /\ i \in Nat
      <4>1. z \in Visited
        BY <1>2
      <4>2. i \in Nat /\ i + 1 <= Len(calls) /\ DOMAIN calls = 1 .. Len(calls)
            /\ Len(calls) \in Nat
        BY <1>2, <1>3, <3>1
      <4>3. j \in 1 .. Len(calls)
        BY <4>2
      <4>4. QED
        BY <1>2, <4>1, <4>2, <4>3
    <3>4. calls[j][1] \in Visited /\ low[calls[j][1]] \in Nat /\ low'[calls[j][1]] \in Nat
      BY <1>2, <1>3, <3>3
    <3>5. CASE j # 1
      <4>1. j - 1 \in 1 .. i /\ calls'[j - 1] = calls[j]
        BY <1>3, <3>3, <3>5
      <4>2. low'[calls[j][1]] <= low[calls[j][1]]
        BY <1>3, <3>4
      <4>3. low'[calls[j][1]] <= index[z]
        BY <3>2, <3>3, <3>4, <4>2
      <4>4. QED
        BY <4>1, <4>3
    <3>6. CASE j = 1
      <4>1. 1 \in 1 .. i /\ 1 \in DOMAIN calls' /\ 1 + 1 = 2
        BY <1>2, <1>3, <3>1
      <4>2. calls'[1] = calls[2] /\ 2 \in DOMAIN calls
        BY <1>3, <4>1
      <4>3. low[V] \in Nat /\ low'[calls[2][1]] \in Nat
        BY <1>2, <1>3, <4>2
      <4>4. low'[calls[2][1]] <= low[V]
        BY <1>3, <4>2
      <4>5. low[V] <= index[z]
        BY <1>3, <3>2, <3>6
      <4>6. low'[calls'[1][1]] <= index[z]
        BY <3>3, <4>2, <4>3, <4>4, <4>5
      <4>7. QED
        BY <4>1, <4>6
    <3>7. QED
      BY <3>5, <3>6
  <2>2. QED
    BY <1>1, <1>4, <2>1 DEF LowIsLeast
<1>12. PoppedOnce' /\ ClassesOf(Range(view))' /\ FinishedAreListed'
  <2>1. PoppedOnce'
    BY <1>1 DEF TarjanInv, PoppedOnce
  <2>2. \A i \in DOMAIN sccs : IsClass(T, Range(sccs[i]))
    BY DEF TarjanInv, ClassesOf, T
  <2>3. \A i \in DOMAIN sccs : IsClass(T, Range(sccs[i]))'
    BY <1>1, <1>4, <2>2, SameProblem
  <2>4. ClassesOf(Range(view))'
    BY <1>1, <1>4, <2>3 DEF ClassesOf, T
  <2>5. FinishedAreListed'
    BY <1>1, <1>4 DEF TarjanInv, FinishedAreListed
  <2>6. QED
    BY <2>1, <2>4, <2>5
<1>13. QED
  BY <1>7, <1>8, <1>9, <1>10, <1>11, <1>12 DEF TarjanInv

(***************************************************************************)
(* V is a root: what is on the stack since V was met is a class.           *)
(***************************************************************************)
Above(u) == {x \in OnStack : index[u] <= index[x]}

\* The popped part of the stack, and what remains of it.
LEMMA PoppedFacts ==
  ASSUME SccTypeOK, TarjanInv, Retreat, low[V] = index[V]
  PROVE  \E q \in Seq(Visited) :
            /\ sccs' = Append(sccs, q)
            /\ q # <<>> /\ IsInjective(q) /\ Range(q) = Above(V)
            /\ stack' \in Seq(Visited) /\ OnStack' = OnStack \ Above(V)
            /\ StackInOrder'
<1> DEFINE n == CHOOSE i \in DOMAIN stack : stack[i] = V
           q == SubSeq(stack, 1, n)
           r == SubSeq(stack, n + 1, Len(stack))
<1>1. sccs' = Append(sccs, q) /\ stack' = r /\ UNCHANGED index
  BY DEF Retreat
<1>2. /\ Len(stack) \in Nat /\ DOMAIN stack = 1 .. Len(stack) /\ stack \in Seq(Visited)
      /\ OnStack = {stack[k] : k \in 1 .. Len(stack)}
      /\ \A v \in Visited : index[v] \in Nat
      /\ \A k \in 1 .. Len(stack) : stack[k] \in Visited
  <2>1. stack \in Seq(Visited)
    BY DEF SccTypeOK
  <2>2. Len(stack) \in Nat /\ DOMAIN stack = 1 .. Len(stack)
        /\ \A v \in Visited : index[v] \in Nat
    BY TarjanShapes
  <2>3. OnStack = {stack[k] : k \in 1 .. Len(stack)} /\ OnStack \subseteq Visited
    BY <2>2, TarjanShapes DEF OnStack, Range
  <2>4. QED
    BY <2>1, <2>2, <2>3
<1>3. n \in 1 .. Len(stack) /\ stack[n] = V
  <2>1. V \in OnStack
    BY RetreatFacts
  <2>2. \E i \in DOMAIN stack : stack[i] = V
    BY <1>2, <2>1
  <2>3. QED
    BY <1>2, <2>2
<1> HIDE DEF n
<1>4. /\ q \in Seq(Visited) /\ Len(q) = n /\ DOMAIN q = 1 .. n
      /\ \A k \in 1 .. n : q[k] = stack[k]
      /\ Range(q) = {stack[k] : k \in 1 .. n}
  <2>1. n \in 0 .. Len(stack)
    BY <1>2, <1>3
  <2>2. /\ q \in Seq(Visited) /\ Len(q) = n /\ DOMAIN q = 1 .. n
        /\ \A k \in 1 .. n : q[k] = stack[k]
    BY <1>2, <2>1, PrefixFacts
  <2> HIDE DEF q
  <2>3. Range(q) = {stack[k] : k \in 1 .. n}
    BY <2>2 DEF Range
  <2>4. QED
    BY <2>2, <2>3
<1>5. /\ r \in Seq(Visited) /\ Range(r) = {stack[k] : k \in n + 1 .. Len(stack)}
      /\ DOMAIN r = 1 .. Len(stack) - n
      /\ \A k \in 1 .. Len(stack) - n : r[k] = stack[k + n]
  <2>1. n \in Nat /\ n <= Len(stack) /\ Len(stack) <= Len(stack)
    BY <1>2, <1>3
  <2>2. r \in Seq(Visited) /\ Range(r) = {stack[k] : k \in n + 1 .. Len(stack)}
    <3>1. stack \in Seq(Visited) /\ Len(stack) \in Nat
      BY <1>2
    <3> DEFINE l == Len(stack)
    <3>2. /\ SubSeq(stack, n + 1, l) \in Seq(Visited)
          /\ Range(SubSeq(stack, n + 1, l)) = {stack[k] : k \in n + 1 .. l}
      BY <2>1, <3>1, SubSeqFacts
    <3>3. QED
      BY <3>2
  <2>3. DOMAIN r = 1 .. Len(stack) - n /\ \A k \in 1 .. Len(stack) - n : r[k] = stack[k + n]
    BY <1>2, <2>1
  <2>4. QED
    BY <2>2, <2>3
<1> HIDE DEF q, r
<1>6. \A i, j \in 1 .. Len(stack) : i < j => index[stack[j]] < index[stack[i]]
  BY <1>2 DEF TarjanInv, StackInOrder
<1>7. ASSUME NEW k \in 1 .. Len(stack) PROVE k <= n <=> index[V] <= index[stack[k]]
  <2>1. index[stack[k]] \in Nat /\ index[V] \in Nat /\ k \in Nat /\ n \in Nat
    BY <1>2, <1>3
  <2>2. k < n => index[V] < index[stack[k]]
    BY <1>3, <1>6
  <2>3. n < k => index[stack[k]] < index[V]
    BY <1>3, <1>6
  <2>4. k = n => index[V] = index[stack[k]]
    BY <1>3
  <2>5. QED
    BY <2>1, <2>2, <2>3, <2>4
<1>8. Range(q) = Above(V)
  <2>1. ASSUME NEW x \in Above(V) PROVE x \in Range(q)
    <3>1. PICK k \in 1 .. Len(stack) : x = stack[k]
      BY <1>2 DEF Above
    <3>2. k \in 1 .. n
      BY <1>2, <1>3, <1>7, <3>1 DEF Above
    <3>3. QED
      BY <1>4, <3>1, <3>2
  <2>2. ASSUME NEW k \in 1 .. n PROVE stack[k] \in Above(V)
    <3>1. k \in 1 .. Len(stack) /\ k <= n
      BY <1>2, <1>3
    <3>2. QED
      BY <1>2, <1>7, <3>1 DEF Above
  <2>3. QED
    BY <1>4, <2>1, <2>2
<1>9. OnStack' = OnStack \ Above(V)
  <2>1. OnStack' = {stack[k] : k \in n + 1 .. Len(stack)}
    BY <1>1, <1>5 DEF OnStack
  <2>2. ASSUME NEW x \in OnStack \ Above(V) PROVE x \in OnStack'
    <3>1. PICK k \in 1 .. Len(stack) : x = stack[k]
      BY <1>2
    <3>2. ~ (index[V] <= index[stack[k]])
      BY <2>2, <3>1 DEF Above
    <3>3. k \in n + 1 .. Len(stack)
      BY <1>2, <1>3, <1>7, <3>2
    <3>4. QED
      BY <2>1, <3>1, <3>3
  <2>3. ASSUME NEW k \in n + 1 .. Len(stack) PROVE stack[k] \in OnStack \ Above(V)
    <3>1. k \in 1 .. Len(stack) /\ ~ (k <= n)
      BY <1>2, <1>3
    <3>2. ~ (index[V] <= index[stack[k]])
      BY <1>7, <3>1
    <3>3. QED
      BY <1>2, <3>1, <3>2 DEF Above
  <2>4. QED
    BY <2>1, <2>2, <2>3
<1>10. q # <<>> /\ IsInjective(q)
  <2>1. q # <<>>
    BY <1>3, <1>4
  <2>2. ASSUME NEW i \in 1 .. n, NEW j \in 1 .. n, q[i] = q[j] PROVE i = j
    <3>1. i \in 1 .. Len(stack) /\ j \in 1 .. Len(stack) /\ i \in Nat /\ j \in Nat
      BY <1>2, <1>3
    <3>2. index[stack[i]] = index[stack[j]] /\ index[stack[i]] \in Nat
      BY <1>2, <1>4, <2>2, <3>1
    <3>3. ~ (i < j) /\ ~ (j < i)
      BY <1>6, <3>1, <3>2
    <3>4. QED
      BY <3>1, <3>3
  <2>3. QED
    BY <1>4, <2>1, <2>2 DEF IsInjective
<1>11. StackInOrder'
  <2>1. ASSUME NEW i \in 1 .. Len(stack) - n, NEW j \in 1 .. Len(stack) - n, i < j
        PROVE  index[r[j]] < index[r[i]]
    <3>1. i + n \in 1 .. Len(stack) /\ j + n \in 1 .. Len(stack) /\ i + n < j + n
      BY <1>2, <1>3, <2>1
    <3>2. QED
      BY <1>5, <1>6, <3>1
  <2>2. QED
    BY <1>1, <1>5, <2>1 DEF StackInOrder
<1>12. QED
  BY <1>1, <1>4, <1>5, <1>8, <1>9, <1>10, <1>11

\* No edge leaves what is above V but to what has left the stack.
LEMMA AboveIsClosed ==
  ASSUME SccTypeOK, TarjanInv, Retreat, low[V] = index[V]
  PROVE  Closed(Range(view), Above(V) \cup (Visited \ OnStack))
<1> DEFINE T == Range(view)
           R == Above(V) \cup (Visited \ OnStack)
<1>1. ASSUME NEW x \in Above(V), NEW y \in Out(T, x) PROVE y \in R
  <2>1. x \in Visited /\ x \in OnStack /\ index[V] <= index[x]
    BY TarjanShapes DEF Above
  <2>2. index[x] \in Nat /\ index[V] \in Nat
    BY <2>1, RetreatFacts, TarjanShapes
  <2>3. \A k \in DOMAIN calls : k # 1 => calls[k][1] # x
    <3>1. \A k \in DOMAIN calls : k # 1 => index[calls[k][1]] < index[V]
      BY RetreatFacts
    <3>2. QED
      BY <2>1, <2>2, <3>1
  <2>4. y \in Followed(x)
    BY <1>1, <2>1, <2>3, RetreatFacts
  <2>5. y \in Visited
    BY <2>1, <2>4 DEF TarjanInv, FollowedAreMet
  <2>6. CASE y \in OnStack
    <3>1. 1 \in DOMAIN calls /\ V = calls[1][1]
      BY RetreatFacts
    <3>2. PICK j \in 1 .. 1 : low[calls[j][1]] <= index[y]
      BY <2>1, <2>4, <2>6, <3>1 DEF TarjanInv, LowIsLeast
    <3>3. j = 1
      BY <3>2
    <3>4. QED
      BY <2>6, <3>1, <3>2, <3>3 DEF Above
  <2>7. QED
    BY <2>5, <2>6
<1>2. ASSUME NEW x \in Visited \ OnStack, NEW y \in Out(T, x) PROVE y \in R
  BY <1>2 DEF TarjanInv, FinishedIsClosed, Closed
<1>3. QED
  BY <1>1, <1>2 DEF Closed

\* What is above V is a class.
LEMMA AboveIsClass ==
  ASSUME SccTypeOK, TarjanInv, Retreat, low[V] = index[V]
  PROVE  IsClass(Range(view), Above(V))
<1> DEFINE T == Range(view)
           C == Above(V)
           F == Visited \ OnStack
<1>1. /\ C \subseteq OnStack /\ OnStack \subseteq Visited /\ Visited \subseteq T
      /\ V \in OnStack /\ V \in T /\ V \in C /\ V = calls[1][1] /\ 1 \in DOMAIN calls
  <2>1. OnStack \subseteq Visited /\ Visited \subseteq T /\ C \subseteq OnStack
    BY TarjanShapes DEF Above
  <2>2. V \in OnStack /\ V = calls[1][1] /\ 1 \in DOMAIN calls
    BY RetreatFacts
  <2>3. index[V] <= index[V]
    BY <2>1, <2>2, TarjanShapes
  <2>4. QED
    BY <2>1, <2>2, <2>3 DEF Above
<1>2. Closed(T, C \cup F) /\ C \cup F \in SUBSET T
  <2>1. C \cup F \in SUBSET T
    BY <1>1
  <2>2. QED
    BY <2>1, AboveIsClosed
<1>3. Closed(T, F) /\ F \in SUBSET T
  BY <1>1 DEF TarjanInv, FinishedIsClosed
<1>4. ASSUME NEW x \in C PROVE Leads(T, x, V) /\ Leads(T, V, x)
  <2>1. Leads(T, V, x)
    BY <1>1, <1>4 DEF TarjanInv, CallsLead, Above
  <2>2. PICK i \in DOMAIN calls : index[calls[i][1]] <= index[x] /\ Leads(T, x, calls[i][1])
    BY <1>1, <1>4 DEF TarjanInv, LeadToCalls
  <2>3. calls[i][1] \in C \cup F
    <3>1. x \in C \cup F
      BY <1>4
    <3> HIDE DEF C, F, T
    <3>2. QED
      BY <1>2, <2>2, <3>1, StaysInClosed
  <2>4. calls[i][1] \in OnStack
    BY DEF TarjanInv, CallsInOrder
  <2>5. index[V] <= index[calls[i][1]] /\ index[calls[i][1]] \in Nat /\ index[V] \in Nat
    BY <1>1, <2>3, <2>4, TarjanShapes DEF Above
  <2>6. i = 1
    <3>1. \A k \in DOMAIN calls : k # 1 => index[calls[k][1]] < index[V]
      BY RetreatFacts
    <3>2. QED
      BY <2>5, <3>1
  <2>7. QED
    BY <1>1, <2>1, <2>2, <2>6
<1> HIDE DEF T, C, F
<1>5. ASSUME NEW v \in C, NEW w \in T, w \in C PROVE Leads(T, v, w) /\ Leads(T, w, v)
  <2>1. v \in T
    BY <1>1
  <2>2. QED
    BY <1>4, <1>5, <2>1, LeadsOn
<1>6. ASSUME NEW v \in C, NEW w \in T, Leads(T, v, w), Leads(T, w, v) PROVE w \in C
  <2>1. w \in C \cup F
    BY <1>2, <1>6, StaysInClosed
  <2>2. w \notin F
    <3>1. SUFFICES ASSUME w \in F PROVE FALSE
      OBVIOUS
    <3>2. v \in F
      BY <1>3, <1>6, <3>1, StaysInClosed
    <3>3. QED
      BY <1>1, <3>2 DEF F
  <2>3. QED
    BY <2>1, <2>2
<1>7. QED
  BY <1>5, <1>6 DEF IsClass, T, C

LEMMA RootRetreatKeepsTarjan ==
  ASSUME SccTypeOK, TarjanInv, Retreat, low[V] = index[V]
  PROVE  TarjanInv'
<1> DEFINE T == Range(view)
           C == Above(V)
<1>1. PICK q \in Seq(Visited) :
          /\ sccs' = Append(sccs, q)
          /\ q # <<>> /\ IsInjective(q) /\ Range(q) = C
          /\ OnStack' = OnStack \ C
          /\ StackInOrder'
  BY PoppedFacts
<1>2. /\ Len(calls) \in Nat /\ DOMAIN calls = 1 .. Len(calls)
      /\ \A i \in DOMAIN calls : calls[i][1] \in Visited
      /\ OnStack \subseteq Visited /\ Visited \subseteq T /\ T \subseteq Nodes
      /\ \A v \in Visited : index[v] \in Nat /\ low[v] \in Nat
  BY TarjanShapes
<1>3. /\ 1 \in DOMAIN calls /\ V \in OnStack /\ V = calls[1][1]
      /\ DOMAIN calls' = 1 .. Len(calls) - 1
      /\ \A k \in DOMAIN calls' : k + 1 \in DOMAIN calls /\ calls'[k] = calls[k + 1]
      /\ \A k \in DOMAIN calls : k # 1 => k - 1 \in DOMAIN calls' /\ calls'[k - 1] = calls[k]
      /\ \A k \in DOMAIN calls : k # 1 => index[calls[k][1]] < index[V]
      /\ low' \in [Visited -> Nat]
      /\ \A x \in Visited : low'[x] <= low[x] /\ (low'[x] = low[x] \/ low'[x] = low[V])
      /\ \A x : Followed(x)' \subseteq Followed(x)
      /\ UNCHANGED <<problem, view, index>>
  BY RetreatFacts
<1>4. /\ Visited' = Visited /\ T' = T
      /\ \A x, y : Leads(T, x, y)' <=> Leads(T, x, y)
  BY <1>3, SameProblem DEF Visited
<1> HIDE DEF T
<1>5. /\ C = {x \in OnStack : index[V] <= index[x]}
      /\ OnStack' = {x \in OnStack : index[x] < index[V]}
  <2>1. \A x \in OnStack : index[V] <= index[x] <=> ~ (index[x] < index[V])
    BY <1>2, <1>3
  <2>2. C = {x \in OnStack : index[V] <= index[x]}
    BY DEF Above
  <2> HIDE DEF C
  <2>3. QED
    BY <1>1, <2>1, <2>2
<1> HIDE DEF C
<1>6. ASSUME NEW i \in DOMAIN calls, i # 1
      PROVE  /\ calls[i][1] \in OnStack' /\ calls[i][1] \in Visited
             /\ index[calls[i][1]] < index[V]
             /\ low[calls[i][1]] <= index[calls[i][1]]
             /\ low'[calls[i][1]] = low[calls[i][1]]
  <2> DEFINE c == calls[i][1]
  <2>1. c \in OnStack /\ c \in Visited /\ index[c] < index[V] /\ low[c] <= index[c]
    BY <1>2, <1>3, <1>6 DEF TarjanInv, CallsInOrder, LowIsLed
  <2>2. index[c] \in Nat /\ low[c] \in Nat /\ low'[c] \in Nat /\ index[V] \in Nat
    BY <1>2, <1>3, <2>1
  <2>3. low'[c] <= low[c] /\ (low'[c] = low[c] \/ low'[c] = index[V])
    BY <1>3, <2>1
  <2> HIDE DEF c
  <2>4. low'[c] = low[c]
    BY <2>1, <2>2, <2>3
  <2>5. QED
    BY <1>5, <2>1, <2>4 DEF c
<1>7. ASSUME NEW k \in DOMAIN calls'
      PROVE  k + 1 \in DOMAIN calls /\ k + 1 # 1 /\ calls'[k] = calls[k + 1] /\ k \in Nat
  BY <1>2, <1>3
<1>10. NumbersOnce' /\ CallsInOrder' /\ FollowedAreMet'
  <2>1. NumbersOnce'
    BY <1>3, <1>4 DEF TarjanInv, NumbersOnce
  <2>2. CallsInOrder'
    <3>1. ASSUME NEW i \in DOMAIN calls', NEW j \in DOMAIN calls', i < j
          PROVE  index[calls'[j][1]] < index[calls'[i][1]]
      <4>1. i + 1 \in DOMAIN calls /\ j + 1 \in DOMAIN calls /\ i + 1 < j + 1
        BY <1>7, <3>1
      <4>2. QED
        BY <1>7, <4>1 DEF TarjanInv, CallsInOrder
    <3>2. \A i \in DOMAIN calls' : calls'[i][1] \in OnStack'
      BY <1>6, <1>7
    <3>3. QED
      BY <1>3, <3>1, <3>2 DEF CallsInOrder
  <2>3. FollowedAreMet'
    <3>1. \A v \in Visited : Followed(v)' \subseteq Visited
      BY <1>3 DEF TarjanInv, FollowedAreMet
    <3>2. QED
      BY <1>4, <3>1 DEF FollowedAreMet
  <2>4. QED
    BY <2>1, <2>2, <2>3
<1>11. FinishedIsClosed'
  <2>1. Visited' \ OnStack' = C \cup (Visited \ OnStack)
    BY <1>1, <1>2, <1>4, <1>5
  <2>2. Closed(T, C \cup (Visited \ OnStack))
    BY AboveIsClosed DEF T, C
  <2>3. Closed(T, Visited' \ OnStack')
    BY <2>1, <2>2
  <2>4. \A R : Closed(T, R)' <=> Closed(T, R)
    BY <1>3, <1>4, SameProblem
  <2>5. Closed(T, Visited \ OnStack)'
    BY <2>3, <2>4
  <2>6. QED
    BY <2>5 DEF FinishedIsClosed, T
<1>12. CallsLead'
  <2>1. ASSUME NEW i \in DOMAIN calls', NEW x \in OnStack', index[calls'[i][1]] <= index[x]
        PROVE  Leads(T, calls'[i][1], x)
    BY <1>5, <1>7, <2>1 DEF TarjanInv, CallsLead, T
  <2>2. QED
    BY <1>3, <1>4, <2>1 DEF CallsLead, T
<1>13. LeadToCalls'
  <2>1. ASSUME NEW x \in OnStack'
        PROVE  \E i \in DOMAIN calls' :
                  index[calls'[i][1]] <= index[x] /\ Leads(T, x, calls'[i][1])
    <3>1. x \in OnStack /\ x \in Visited /\ index[x] < index[V]
      BY <1>2, <1>5
    <3>2. PICK i \in DOMAIN calls : index[calls[i][1]] <= index[x] /\ Leads(T, x, calls[i][1])
      BY <3>1 DEF TarjanInv, LeadToCalls, T
    <3>3. i # 1
      <4>1. index[x] \in Nat /\ index[V] \in Nat
        BY <1>2, <1>3, <3>1
      <4>2. QED
        BY <1>3, <3>1, <3>2, <4>1
    <3>4. QED
      BY <1>3, <3>2, <3>3
  <2>2. QED
    BY <1>3, <1>4, <2>1 DEF LeadToCalls, T
<1>14. LowIsLed'
  <2>1. ASSUME NEW i \in DOMAIN calls, i # 1
        PROVE  /\ low'[calls[i][1]] <= index[calls[i][1]]
               /\ \E x \in OnStack' : low'[calls[i][1]] = index[x] /\ Leads(T, calls[i][1], x)
    <3>1. PICK x \in OnStack : low[calls[i][1]] = index[x] /\ Leads(T, calls[i][1], x)
      BY DEF TarjanInv, LowIsLed, T
    <3>2. index[x] \in Nat /\ index[V] \in Nat /\ index[calls[i][1]] \in Nat
      BY <1>2, <1>3
    <3>3. index[x] < index[V]
      BY <1>6, <2>1, <3>1, <3>2
    <3>4. QED
      BY <1>5, <1>6, <2>1, <3>1, <3>3
  <2>2. ASSUME NEW k \in DOMAIN calls'
        PROVE  /\ low'[calls'[k][1]] <= index[calls'[k][1]]
               /\ \E x \in OnStack' : low'[calls'[k][1]] = index[x] /\ Leads(T, calls'[k][1], x)
    BY <1>7, <2>1
  <2>3. QED
    BY <1>3, <1>4, <2>2 DEF LowIsLed, T
<1>15. LowIsLeast'
  <2>1. ASSUME NEW x \in OnStack', NEW z \in OnStack', z \in Followed(x)',
               NEW i \in DOMAIN calls', index[calls'[i][1]] <= index[x]
        PROVE  \E j \in 1 .. i : low'[calls'[j][1]] <= index[z]
    <3>1. /\ i + 1 \in DOMAIN calls /\ calls'[i] = calls[i + 1] /\ z \in Followed(x)
          /\ x \in OnStack /\ z \in OnStack /\ z \in Visited /\ index[z] < index[V]
      BY <1>2, <1>3, <1>5, <1>7, <2>1
    <3>2. PICK j \in 1 .. i + 1 : low[calls[j][1]] <= index[z]
      BY <2>1, <3>1 DEF TarjanInv, LowIsLeast
    <3>3. j \in DOMAIN calls /\ i \in Nat
      BY <1>2, <1>7, <3>1
    <3>4. j # 1
      <4>1. index[z] \in Nat /\ index[V] \in Nat /\ index[V] = low[V]
        BY <1>2, <1>3, <3>1
      <4>2. QED
        BY <1>3, <3>1, <3>2, <4>1
    <3>5. j - 1 \in 1 .. i /\ calls'[j - 1] = calls[j]
      BY <1>3, <3>3, <3>4
    <3>6. low'[calls[j][1]] <= index[z]
      BY <1>6, <3>2, <3>3, <3>4
    <3>7. QED
      BY <3>5, <3>6
  <2>2. QED
    BY <1>3, <1>4, <2>1 DEF LowIsLeast
<1>16. sccs \in Seq(Seq(Nodes)) /\ q \in Seq(Nodes)
  <2>1. \A k \in 1 .. Len(q) : q[k] \in Nodes
    BY <1>1, <1>2, ElementFacts
  <2>2. q \in Seq(Nodes)
    BY <1>1, <2>1
  <2>3. QED
    BY <2>2 DEF SccTypeOK
<1>17. /\ DOMAIN sccs' = 1 .. Len(sccs) + 1 /\ sccs'[Len(sccs) + 1] = q
       /\ \A k \in 1 .. Len(sccs) : sccs'[k] = sccs[k]
       /\ Len(sccs) \in Nat /\ DOMAIN sccs = 1 .. Len(sccs)
  <2> DEFINE U == Seq(Nodes)
  <2>1. sccs \in Seq(U) /\ q \in U
    BY <1>16
  <2> HIDE DEF U
  <2>2. QED
    BY <1>1, <2>1, AppendFacts, ElementFacts
<1>18. ASSUME NEW k \in DOMAIN sccs'
       PROVE  \/ k = Len(sccs) + 1 /\ sccs'[k] = q
              \/ k \in DOMAIN sccs /\ sccs'[k] = sccs[k]
  BY <1>17
<1>19. PoppedOnce' /\ ClassesOf(Range(view))' /\ FinishedAreListed'
  <2>1. PoppedOnce'
    BY <1>1, <1>18 DEF TarjanInv, PoppedOnce
  <2>2. \A i \in DOMAIN sccs : IsClass(T, Range(sccs[i]))
    BY DEF TarjanInv, ClassesOf, T
  <2>3. IsClass(T, Range(q))
    BY <1>1, AboveIsClass DEF T, C
  <2>4. \A i \in DOMAIN sccs' : IsClass(T, Range(sccs'[i]))
    BY <1>18, <2>2, <2>3
  <2>5. \A D : IsClass(T, D)' <=> IsClass(T, D)
    BY <1>3, <1>4, SameProblem
  <2>6. \A i \in DOMAIN sccs' : IsClass(T, Range(sccs[i]))'
    BY <2>4, <2>5
  <2>7. ClassesOf(Range(view))'
    BY <2>6 DEF ClassesOf, T
  <2>8. Visited' \ OnStack' = C \cup (Visited \ OnStack)
    BY <1>1, <1>2, <1>4, <1>5
  <2>9. UNION {Range(sccs'[i]) : i \in DOMAIN sccs'} =
            (UNION {Range(sccs[i]) : i \in DOMAIN sccs}) \cup Range(q)
    <3>1. Len(sccs) + 1 \in DOMAIN sccs' /\ \A i \in DOMAIN sccs : i \in DOMAIN sccs'
      BY <1>17
    <3>2. QED
      BY <1>17, <1>18, <3>1
  <2>10. FinishedAreListed'
    BY <1>1, <2>8, <2>9 DEF TarjanInv, FinishedAreListed
  <2>11. QED
    BY <2>1, <2>7, <2>10
<1>20. QED
  BY <1>1, <1>10, <1>11, <1>12, <1>13, <1>14, <1>15, <1>19 DEF TarjanInv

(***************************************************************************)
(* The types.                                                              *)
(***************************************************************************)
LEMMA MetKeepsTypes ==
  ASSUME SccTypeOK, TarjanInv, NEW w, NEW callers, IsMet(w, callers)
  PROVE  SccTypeOK'
<1>1. UNCHANGED <<problem, view, sccs, pending, witnessVars>> /\ w \in Range(view)
  BY DEF IsMet, Discover
<1>2. /\ stack' \in Seq(Visited') /\ calls' \in Seq(Visited' \X (Nat \ {0}))
      /\ Visited' = Visited \cup {w} /\ Nodes' = Nodes
  BY <1>1, MetShapes, SameProblem
<1>3. index' \in [Visited' -> Nat] /\ low' \in [Visited' -> Nat]
  <2> DEFINE m == Cardinality(Visited)
  <2>1. m \in Nat /\ \A x \in Visited : index[x] \in Nat /\ low[x] \in Nat
    BY TarjanShapes
  <2>2. DOMAIN low = Visited /\ DOMAIN index = Visited
    BY TarjanShapes DEF Visited
  <2>3. index' = Put(index, w, m) /\ low' = Put(low, w, m)
    BY DEF IsMet, Discover
  <2> HIDE DEF m
  <2>4. index' \in [Visited \cup {w} -> Nat] /\ low' \in [Visited \cup {w} -> Nat]
    BY <2>1, <2>2, <2>3 DEF Put
  <2>5. QED
    BY <1>2, <2>4
<1>4. IsProblem(problem) /\ view \in Seq(Nodes) /\ IsInjective(view)
      /\ Visited \subseteq Range(view)
  BY DEF SccTypeOK
<1>5. /\ sccs \in Seq(Seq(Nodes)) /\ pending \in Seq(Seq(Nodes))
      /\ found \in Seq(Nodes) /\ visits \in Seq(Seq(Nodes)) /\ cycle \in Seq(Nodes)
  BY DEF SccTypeOK
<1>6. /\ sccs' \in Seq(Seq(Nodes')) /\ pending' \in Seq(Seq(Nodes'))
      /\ found' \in Seq(Nodes') /\ visits' \in Seq(Seq(Nodes')) /\ cycle' \in Seq(Nodes')
  BY <1>1, <1>2, <1>5 DEF witnessVars
<1>7. /\ IsProblem(problem') /\ view' \in Seq(Nodes') /\ IsInjective(view')
      /\ Visited' \subseteq Range(view')
  BY <1>1, <1>2, <1>4
<1>8. QED
  BY <1>2, <1>3, <1>6, <1>7 DEF SccTypeOK

LEMMA PassedKeepsTypes ==
  ASSUME SccTypeOK, TarjanInv, LowerLink \/ SkipChild
  PROVE  SccTypeOK'
<1>1. /\ UNCHANGED <<problem, view, index, stack, sccs, pending, witnessVars>>
      /\ calls' = Advanced /\ HasChild
      /\ low' = low \/ (Child \in OnStack /\ low' = [low EXCEPT ![V] = MinOf(low[V], index[Child])])
  BY DEF LowerLink, SkipChild
<1>2. Visited' = Visited /\ Nodes' = Nodes
  BY <1>1, SameProblem DEF Visited
<1>3. calls' \in Seq(Visited \X (Nat \ {0}))
  BY <1>1, ChildFacts
<1>4. low' \in [Visited -> Nat]
  <2>1. low \in [Visited -> Nat]
    BY DEF SccTypeOK
  <2>2. CASE Child \in OnStack
    <3>1. V \in Visited /\ low[V] \in Nat /\ index[Child] \in Nat
      BY <1>1, <2>2, CallShapes, ChildFacts, TarjanShapes
    <3>2. MinOf(low[V], index[Child]) \in Nat
      BY <3>1 DEF MinOf
    <3>3. QED
      BY <1>1, <2>1, <3>2
  <2>3. QED
    BY <1>1, <2>1, <2>2
<1>5. IsProblem(problem) /\ view \in Seq(Nodes) /\ IsInjective(view)
      /\ Visited \subseteq Range(view)
      /\ index \in [Visited -> Nat] /\ stack \in Seq(Visited)
      /\ sccs \in Seq(Seq(Nodes)) /\ pending \in Seq(Seq(Nodes))
      /\ found \in Seq(Nodes) /\ visits \in Seq(Seq(Nodes)) /\ cycle \in Seq(Nodes)
  BY DEF SccTypeOK
<1>6. IsProblem(problem') /\ view' \in Seq(Nodes') /\ IsInjective(view')
      /\ Visited' \subseteq Range(view')
      /\ index' \in [Visited' -> Nat] /\ stack' \in Seq(Visited')
      /\ sccs' \in Seq(Seq(Nodes')) /\ pending' \in Seq(Seq(Nodes'))
      /\ found' \in Seq(Nodes') /\ visits' \in Seq(Seq(Nodes')) /\ cycle' \in Seq(Nodes')
  BY <1>1, <1>2, <1>5 DEF witnessVars
<1>7. QED
  BY <1>2, <1>3, <1>4, <1>6 DEF SccTypeOK

LEMMA RetreatKeepsTypes ==
  ASSUME SccTypeOK, TarjanInv, Retreat
  PROVE  SccTypeOK'
<1>1. UNCHANGED <<problem, view, index, pending, witnessVars>> /\ calls' = Tail(calls)
      /\ calls # <<>> /\ (low[V] # index[V] => UNCHANGED <<sccs, stack>>)
  BY DEF Retreat
<1>2. Visited' = Visited /\ Nodes' = Nodes /\ low' \in [Visited -> Nat]
  BY <1>1, RetreatFacts, SameProblem DEF Visited
<1>3. calls' \in Seq(Visited \X (Nat \ {0}))
  <2> DEFINE U == Visited \X (Nat \ {0})
  <2>1. calls \in Seq(U)
    BY DEF SccTypeOK
  <2> HIDE DEF U
  <2>2. Tail(calls) \in Seq(U)
    BY <1>1, <2>1, TailFacts
  <2>3. QED
    BY <1>1, <2>2 DEF U
<1>4. IsProblem(problem) /\ view \in Seq(Nodes) /\ IsInjective(view)
      /\ Visited \subseteq Range(view)
      /\ index \in [Visited -> Nat] /\ stack \in Seq(Visited)
      /\ sccs \in Seq(Seq(Nodes)) /\ pending \in Seq(Seq(Nodes))
      /\ found \in Seq(Nodes) /\ visits \in Seq(Seq(Nodes)) /\ cycle \in Seq(Nodes)
  BY DEF SccTypeOK
<1>5. sccs' \in Seq(Seq(Nodes)) /\ stack' \in Seq(Visited)
  <2>1. CASE low[V] # index[V]
    BY <1>1, <1>4, <2>1
  <2>2. CASE low[V] = index[V]
    <3>1. PICK q \in Seq(Visited) : sccs' = Append(sccs, q) /\ stack' \in Seq(Visited)
      BY <2>2, PoppedFacts
    <3>2. Visited \subseteq Nodes
      BY TarjanShapes
    <3>3. q \in Seq(Nodes)
      <4>1. \A k \in 1 .. Len(q) : q[k] \in Nodes
        BY <3>1, <3>2, ElementFacts
      <4>2. QED
        BY <3>1, <4>1
    <3> DEFINE U == Seq(Nodes)
    <3>4. sccs \in Seq(U) /\ q \in U
      BY <1>4, <3>3
    <3> HIDE DEF U
    <3>5. Append(sccs, q) \in Seq(U)
      BY <3>4, AppendFacts
    <3>6. QED
      BY <3>1, <3>5 DEF U
  <2>3. QED
    BY <2>1, <2>2
<1>6. IsProblem(problem') /\ view' \in Seq(Nodes') /\ IsInjective(view')
      /\ Visited' \subseteq Range(view')
      /\ index' \in [Visited' -> Nat] /\ stack' \in Seq(Visited')
      /\ sccs' \in Seq(Seq(Nodes')) /\ pending' \in Seq(Seq(Nodes'))
      /\ found' \in Seq(Nodes') /\ visits' \in Seq(Seq(Nodes')) /\ cycle' \in Seq(Nodes')
  BY <1>1, <1>2, <1>4, <1>5 DEF witnessVars
<1>7. QED
  BY <1>2, <1>3, <1>6 DEF SccTypeOK

(***************************************************************************)
(* A decomposition starts afresh.                                          *)
(***************************************************************************)
LEMMA StartIsTarjan ==
  ASSUME SccTypeOK, UNCHANGED problem, NEW q \in Seq(Nodes), IsInjective(q), StartTarjan(q),
         pending' \in Seq(Seq(Nodes)), found' \in Seq(Nodes),
         visits' \in Seq(Seq(Nodes)), cycle' \in Seq(Nodes)
  PROVE  SccTypeOK' /\ TarjanInv'
<1>1. /\ view' = q /\ index' = Empty /\ low' = Empty /\ stack' = <<>>
      /\ calls' = <<>> /\ sccs' = <<>>
      /\ Nodes' = Nodes
  BY SameProblem DEF StartTarjan
<1>2. Visited' = {} /\ DOMAIN index' = {} /\ DOMAIN low' = {} /\ OnStack' = {}
      /\ DOMAIN stack' = {} /\ DOMAIN calls' = {} /\ DOMAIN sccs' = {}
  <2>1. DOMAIN <<>> = {} /\ Range(<<>>) = {}
    BY DEF Range
  <2>2. QED
    BY <1>1, <2>1 DEF Visited, OnStack, Empty
<1>3. SccTypeOK'
  <2>1. index' \in [Visited' -> Nat] /\ low' \in [Visited' -> Nat]
    BY <1>1, <1>2 DEF Empty
  <2>2. \A S : <<>> \in Seq(S)
    BY EmptyFacts
  <2>3. stack' \in Seq(Visited') /\ calls' \in Seq(Visited' \X (Nat \ {0}))
        /\ sccs' \in Seq(Seq(Nodes'))
    BY <1>1, <2>2
  <2>4. IsProblem(problem')
    BY DEF SccTypeOK
  <2>5. view' \in Seq(Nodes') /\ IsInjective(view') /\ Visited' \subseteq Range(view')
    BY <1>1, <1>2
  <2>6. pending' \in Seq(Seq(Nodes')) /\ found' \in Seq(Nodes')
        /\ visits' \in Seq(Seq(Nodes')) /\ cycle' \in Seq(Nodes')
    BY <1>1
  <2>7. QED
    BY <2>1, <2>3, <2>4, <2>5, <2>6 DEF SccTypeOK
<1>4. TarjanInv'
  <2>1. NumbersOnce' /\ StackInOrder' /\ CallsInOrder' /\ FollowedAreMet'
    BY <1>2 DEF NumbersOnce, StackInOrder, CallsInOrder, FollowedAreMet, IsInjective
  <2>2. FinishedIsClosed'
    <3>1. \A S : Closed(S, {})'
      BY DEF Closed
    <3>2. Visited' \ OnStack' = {}
      BY <1>2
    <3>3. Closed(Range(view), Visited \ OnStack)'
      BY <3>1, <3>2
    <3>4. QED
      BY <3>3 DEF FinishedIsClosed
  <2>3. CallsLead' /\ LeadToCalls' /\ LowIsLed' /\ LowIsLeast'
    BY <1>2 DEF CallsLead, LeadToCalls, LowIsLed, LowIsLeast
  <2>4. PoppedOnce' /\ ClassesOf(Range(view))' /\ FinishedAreListed'
    BY <1>2 DEF PoppedOnce, ClassesOf, FinishedAreListed
  <2>5. QED
    BY <2>1, <2>2, <2>3, <2>4 DEF TarjanInv
<1>5. QED
  BY <1>3, <1>4

(***************************************************************************)
(* The search: what a fair set of nodes is kept in.                        *)
(***************************************************************************)
SearchInv == PendingConnected /\ NoneDropped /\ FoundIsFair

\* A decomposition that is done has a class for each node of the view.
LEMMA DecomposedFacts ==
  ASSUME SccTypeOK, TarjanInv, calls = <<>>, Roots = <<>>
  PROVE  /\ UNION {Range(sccs[i]) : i \in DOMAIN sccs} = Range(view)
         /\ \A i \in DOMAIN sccs : IsClass(Range(view), Range(sccs[i]))
         /\ \A i \in DOMAIN sccs : sccs[i] # <<>> /\ IsInjective(sccs[i])
<1>1. OnStack = {}
  <2>1. DOMAIN calls = {}
    OBVIOUS
  <2>2. QED
    BY <2>1 DEF TarjanInv, LeadToCalls
<1>2. Visited = Range(view)
  <2>1. view \in Seq(Nodes)
    BY DEF SccTypeOK
  <2>2. Range(Roots) = Range(view) \cap (Range(view) \ Visited)
    BY <2>1, OnlyFacts DEF Roots
  <2>3. Range(Roots) = {}
    BY DEF Range
  <2>4. Visited \subseteq Range(view)
    BY TarjanShapes
  <2>5. QED
    BY <2>2, <2>3, <2>4
<1>3. QED
  BY <1>1, <1>2 DEF TarjanInv, FinishedAreListed, ClassesOf, PoppedOnce

\* A fair set of nodes in the view is inside one class.
LEMMA FairInOneClass ==
  ASSUME NEW T, NEW S \in SUBSET T, Fair(S), NEW C, IsClass(T, C), NEW v \in S, v \in C
  PROVE  S \subseteq C
<1>1. ASSUME NEW w \in S PROVE w \in C
  <2>1. w \in After(S, v) /\ v \in After(S, w)
    BY DEF Fair, Connected
  <2>2. w \in After(T, v) /\ v \in After(T, w)
    BY <2>1, AfterGrows
  <2>3. QED
    BY <2>2 DEF IsClass, Leads
<1>2. QED
  BY <1>1

LEMMA DecomposedKeepsSearch ==
  ASSUME SccTypeOK, TarjanInv, SearchInv, Decomposed
  PROVE  SearchInv'
<1> DEFINE T == Range(view)
<1>1. /\ view # <<>> /\ calls = <<>> /\ Roots = <<>> /\ pending' = sccs \o pending
      /\ view' = <<>> /\ UNCHANGED <<problem, found>>
  BY DEF Decomposed, StartTarjan, witnessVars
<1>2. /\ UNION {Range(sccs[i]) : i \in DOMAIN sccs} = T
      /\ \A i \in DOMAIN sccs : IsClass(T, Range(sccs[i]))
      /\ \A i \in DOMAIN sccs : sccs[i] # <<>> /\ IsInjective(sccs[i])
  BY <1>1, DecomposedFacts
<1>3. found = <<>> /\ found' = <<>>
  BY <1>1 DEF SearchInv, FoundIsFair
<1> HIDE DEF T
<1>4. /\ DOMAIN sccs = 1 .. Len(sccs) /\ DOMAIN pending = 1 .. Len(pending)
      /\ Len(sccs) \in Nat /\ Len(pending) \in Nat
      /\ DOMAIN pending' = 1 .. Len(sccs) + Len(pending)
      /\ \A k \in 1 .. Len(sccs) : pending'[k] = sccs[k]
      /\ \A k \in 1 .. Len(pending) : pending'[Len(sccs) + k] = pending[k]
  <2> DEFINE U == Seq(Nodes)
  <2>1. sccs \in Seq(U) /\ pending \in Seq(U)
    BY DEF SccTypeOK
  <2> HIDE DEF U
  <2>2. /\ sccs \o pending \in Seq(U) /\ Len(sccs \o pending) = Len(sccs) + Len(pending)
        /\ \A k \in 1 .. Len(sccs) : (sccs \o pending)[k] = sccs[k]
        /\ \A k \in 1 .. Len(pending) : (sccs \o pending)[Len(sccs) + k] = pending[k]
    BY <2>1, ConcatFacts
  <2>3. DOMAIN (sccs \o pending) = 1 .. Len(sccs) + Len(pending)
    BY <2>2, ElementFacts
  <2>4. QED
    BY <1>1, <2>1, <2>2, <2>3, ElementFacts
<1>5. /\ \A k \in DOMAIN sccs : k \in DOMAIN pending' /\ pending'[k] = sccs[k]
      /\ \A k \in DOMAIN pending :
            Len(sccs) + k \in DOMAIN pending' /\ pending'[Len(sccs) + k] = pending[k]
      /\ \A k \in DOMAIN pending' :
            \/ k \in DOMAIN sccs /\ pending'[k] = sccs[k]
            \/ k - Len(sccs) \in DOMAIN pending /\ pending'[k] = pending[k - Len(sccs)]
  <2>1. ASSUME NEW k \in DOMAIN pending', k \notin DOMAIN sccs
        PROVE  k - Len(sccs) \in DOMAIN pending /\ Len(sccs) + (k - Len(sccs)) = k
    BY <1>4, <2>1
  <2>2. \A k \in DOMAIN sccs : k \in DOMAIN pending'
    BY <1>4
  <2>3. \A k \in DOMAIN pending : Len(sccs) + k \in DOMAIN pending'
    BY <1>4
  <2>4. ASSUME NEW k \in DOMAIN pending', k \notin DOMAIN sccs
        PROVE  pending'[k] = pending[k - Len(sccs)]
    <3>1. pending'[Len(sccs) + (k - Len(sccs))] = pending[k - Len(sccs)]
      BY <1>4, <2>1, <2>4
    <3>2. QED
      BY <2>1, <2>4, <3>1
  <2>5. QED
    BY <1>4, <2>1, <2>2, <2>3, <2>4
<1>6. PendingConnected'
  <2>1. ASSUME NEW i \in DOMAIN sccs, NEW v \in Range(sccs[i]), NEW w \in Range(sccs[i])
        PROVE  Leads(Range(sccs[i]), v, w)
    <3>1. Range(sccs[i]) \in SUBSET T
      BY <1>2
    <3>2. QED
      BY <1>2, <2>1, <3>1, ClassIsConnected
  <2>2. ASSUME NEW i \in DOMAIN pending'
        PROVE  /\ pending'[i] # <<>> /\ IsInjective(pending'[i])
               /\ \A v, w \in Range(pending'[i]) : Leads(Range(pending'[i]), v, w)
    BY <1>2, <1>5, <2>1 DEF SearchInv, PendingConnected
  <2>3. \A S, v, w : Leads(S, v, w)' <=> Leads(S, v, w)
    BY <1>1, SameProblem
  <2>4. QED
    BY <2>2, <2>3 DEF PendingConnected
<1>7. NoneDropped'
  <2>1. ASSUME NEW S \in SUBSET Nodes, Fair(S)
        PROVE  \E i \in DOMAIN pending' : S \subseteq Range(pending'[i])
    <3>1. CASE S \subseteq T
      <4>1. PICK v \in S : TRUE
        BY <2>1 DEF Fair
      <4>2. PICK i \in DOMAIN sccs : v \in Range(sccs[i])
        BY <1>2, <3>1
      <4>3. S \subseteq Range(sccs[i])
        BY <1>2, <2>1, <3>1, <4>2, FairInOneClass
      <4>4. QED
        BY <1>5, <4>3
    <3>2. ASSUME NEW i \in DOMAIN pending, S \subseteq Range(pending[i])
          PROVE  \E k \in DOMAIN pending' : S \subseteq Range(pending'[k])
      BY <1>5, <3>2
    <3>3. QED
      BY <1>3, <2>1, <3>1, <3>2 DEF SearchInv, NoneDropped, T
  <2>2. Nodes' = Nodes /\ \A S : Fair(S)' <=> Fair(S)
    BY <1>1, SameProblem
  <2>3. QED
    BY <2>1, <2>2 DEF NoneDropped
<1>8. FoundIsFair'
  BY <1>3 DEF FoundIsFair
<1>9. QED
  BY <1>6, <1>7, <1>8 DEF SearchInv

(***************************************************************************)
(* The component that is examined.                                         *)
(***************************************************************************)
LEMMA ComponentFacts ==
  ASSUME SccTypeOK, PendingConnected, pending # <<>>
  PROVE  /\ Component = pending[1] /\ 1 \in DOMAIN pending
         /\ Component \in Seq(Nodes) /\ Component # <<>> /\ IsInjective(Component)
         /\ Len(Component) \in Nat \ {0} /\ DOMAIN Component = 1 .. Len(Component)
         /\ Members \subseteq Nodes /\ Component[1] \in Members
         /\ \A v, w \in Members : Leads(Members, v, w)
         /\ \A v \in Nodes : Range(Induced(Component, v)) = Out(Members, v)
         /\ Tail(pending) \in Seq(Seq(Nodes))
         /\ Len(pending) \in Nat /\ DOMAIN pending = 1 .. Len(pending)
         /\ DOMAIN Tail(pending) = 1 .. Len(pending) - 1
         /\ \A k \in 1 .. Len(pending) - 1 : Tail(pending)[k] = pending[k + 1]
<1>1. /\ Head(pending) \in Seq(Nodes) /\ Tail(pending) \in Seq(Seq(Nodes))
      /\ Head(pending) = pending[1] /\ DOMAIN pending = 1 .. Len(pending)
      /\ Len(pending) \in Nat \ {0}
      /\ DOMAIN Tail(pending) = 1 .. Len(pending) - 1
      /\ \A k \in 1 .. Len(pending) - 1 : Tail(pending)[k] = pending[k + 1]
  <2> DEFINE U == Seq(Nodes)
  <2>1. pending \in Seq(U)
    BY DEF SccTypeOK
  <2> HIDE DEF U
  <2>2. /\ Head(pending) \in U /\ Tail(pending) \in Seq(U) /\ Head(pending) = pending[1]
        /\ Len(pending) \in Nat \ {0} /\ Len(Tail(pending)) = Len(pending) - 1
        /\ \A k \in 1 .. Len(pending) - 1 : Tail(pending)[k] = pending[k + 1]
    BY <2>1, TailFacts
  <2>3. DOMAIN pending = 1 .. Len(pending) /\ DOMAIN Tail(pending) = 1 .. Len(Tail(pending))
    BY <2>1, <2>2, ElementFacts
  <2>4. QED
    BY <2>2, <2>3 DEF U
<1>2. Component = pending[1] /\ 1 \in DOMAIN pending /\ Component \in Seq(Nodes)
  BY <1>1 DEF Component
<1>3. /\ Component # <<>> /\ IsInjective(Component)
      /\ \A v, w \in Members : Leads(Members, v, w)
  BY <1>2 DEF PendingConnected, Members
<1>4. /\ Len(Component) \in Nat \ {0} /\ DOMAIN Component = 1 .. Len(Component)
      /\ Members \subseteq Nodes /\ Component[1] \in Members
  <2>1. Len(Component) \in Nat /\ DOMAIN Component = 1 .. Len(Component)
        /\ \A k \in 1 .. Len(Component) : Component[k] \in Nodes
    BY <1>2, ElementFacts
  <2>2. Len(Component) # 0
    BY <1>2, <1>3, TailFacts
  <2>3. QED
    BY <2>1, <2>2 DEF Members, Range
<1>5. ASSUME NEW v \in Nodes PROVE Range(Induced(Component, v)) = Out(Members, v)
  BY InducedFacts DEF SccTypeOK, Members
<1>6. QED
  BY <1>1, <1>2, <1>3, <1>4, <1>5

\* What makes a set of nodes fair, for one constraint that no edge of the component takes.
LEMMA NotTakenFacts ==
  ASSUME SccTypeOK, PendingConnected, pending # <<>>, NEW S \in SUBSET Members,
         NEW f \in Range(problem.fairness), FairIn(S, f), f \in NotTaken
  PROVE  IF f.strong THEN S \cap f.enabled = {} ELSE S \ f.enabled # {}
<1>1. ASSUME NEW v \in S, NEW t \in Out(S, v), <<v, t>> \in f.taken PROVE FALSE
  <2>1. v \in Members /\ v \in Nodes /\ t \in Out(Members, v)
    BY ComponentFacts DEF Out
  <2>2. t \in Range(Induced(Component, v))
    BY <2>1, ComponentFacts
  <2>3. <<v, t>>[1] = v /\ <<v, t>>[2] = t
    OBVIOUS
  <2>4. <<v, t>> \in TakenEdges(f)
    BY <1>1, <2>1, <2>2, <2>3 DEF TakenEdges
  <2>5. QED
    BY <2>4 DEF NotTaken
<1>2. QED
  BY <1>1 DEF FairIn

\* Reject gives up a component in which no set of nodes is fair.
LEMMA RejectedHasNone ==
  ASSUME SccTypeOK, PendingConnected, pending # <<>>, ~Admissible,
         NEW S \in SUBSET Members, Fair(S)
  PROVE  FALSE
<1>1. \A f \in Range(problem.fairness) : FairIn(S, f)
  BY DEF Fair, Range
<1>2. CASE Trivial
  <2> DEFINE c == Component[1]
  <2>1. Members = {c} /\ c \in Nodes /\ c \in Members
    <3>1. DOMAIN Component = 1 .. 1
      BY <1>2, ComponentFacts DEF Trivial
    <3>2. QED
      BY <3>1, ComponentFacts DEF Members, Range
  <2>2. Out(Members, c) = {}
    <3>1. Range(Induced(Component, c)) = {}
      BY <1>2 DEF Trivial, Range
    <3>2. QED
      BY <2>1, <3>1, ComponentFacts
  <2>3. c \in S
    BY <2>1 DEF Fair
  <2>4. c \in After(S, c)
    BY <2>3 DEF Fair, Connected
  <2>5. {} \in SUBSET S /\ Out(S, c) \subseteq {} /\ Closed(S, {})
    BY <2>2 DEF Out, Closed
  <2> HIDE DEF c
  <2>6. QED
    BY <2>4, <2>5 DEF After
<1>3. CASE ~Accepting
  BY <1>3 DEF Accepting, Fair
<1>4. CASE ~WeakMet
  <2>1. PICK i \in DOMAIN WeakNotTaken : Disabled(WeakNotTaken[i]) = {}
    BY <1>4 DEF WeakMet
  <2>2. PICK f : f = WeakNotTaken[i]
    OBVIOUS
  <2>3. f \in Range(problem.fairness) /\ f \in NotTaken /\ ~f.strong
    <3> DEFINE U == [strong : BOOLEAN, taken : SUBSET (Nodes \X Nodes), enabled : SUBSET Nodes]
               W == {g \in NotTaken : ~g.strong}
    <3>1. problem.fairness \in Seq(U)
      BY ProblemFacts DEF SccTypeOK
    <3> HIDE DEF U
    <3>2. Range(WeakNotTaken) = Range(problem.fairness) \cap W
      BY <3>1, OnlyFacts DEF WeakNotTaken
    <3>3. f \in Range(WeakNotTaken)
      BY <2>2 DEF Range
    <3>4. QED
      BY <3>2, <3>3
  <2>4. S \ f.enabled # {}
    BY <1>1, <2>3, NotTakenFacts
  <2>5. QED
    BY <2>1, <2>2, <2>4 DEF Disabled
<1>5. QED
  BY <1>2, <1>3, <1>4 DEF Admissible

\* Refine keeps the nodes of every fair set.
LEMMA RefinedKeepsFair ==
  ASSUME SccTypeOK, PendingConnected, pending # <<>>, NEW S \in SUBSET Members, Fair(S)
  PROVE  S \subseteq Range(Refined)
<1>1. \A f \in Range(problem.fairness) : FairIn(S, f)
  BY DEF Fair, Range
<1>2. \A f \in BadStrong : f \in Range(problem.fairness) /\ f \in NotTaken /\ f.strong
  BY DEF BadStrong, NotTaken
<1>3. \A f \in BadStrong : S \cap f.enabled = {}
  BY <1>1, <1>2, NotTakenFacts
<1>4. Range(Refined) = Members \cap {v \in Members : \A f \in BadStrong : v \notin f.enabled}
  BY ComponentFacts, OnlyFacts DEF Refined, Members
<1>5. QED
  BY <1>3, <1>4

(***************************************************************************)
(* What is accepted is fair by itself.                                     *)
(***************************************************************************)
LEMMA AdmissibleIsConnected ==
  ASSUME SccTypeOK, PendingConnected, pending # <<>>, ~Trivial
  PROVE  Connected(Members)
<1>1. ASSUME NEW v \in Members PROVE v \in After(Members, v)
  <2>1. CASE \E u \in Members : u # v
    <3>1. PICK u \in Members : u # v
      BY <2>1
    <3>2. Leads(Members, v, u) /\ Leads(Members, u, v)
      BY ComponentFacts
    <3>3. u \in After(Members, v)
      BY <3>1, <3>2 DEF Leads
    <3>4. After(Members, v) \in SUBSET Members /\ Closed(Members, After(Members, v))
      BY AfterFacts
    <3>5. QED
      BY <3>2, <3>3, <3>4, StaysInClosed
  <2>2. CASE \A u \in Members : u = v
    <3> DEFINE c == Component[1]
    <3>1. v = c /\ v \in Nodes
      BY <2>2, ComponentFacts
    <3>2. Len(Component) = 1
      <4>1. ASSUME Len(Component) # 1 PROVE FALSE
        <5>1. 2 \in DOMAIN Component /\ 1 \in DOMAIN Component /\ IsInjective(Component)
          <6>1. Len(Component) \in Nat \ {0} /\ DOMAIN Component = 1 .. Len(Component)
                /\ IsInjective(Component)
            BY ComponentFacts
          <6>2. QED
            BY <4>1, <6>1
        <5>2. Component[2] = Component[1]
          BY <2>2, <5>1 DEF Members, Range
        <5>3. 2 = 1
          BY <5>1, <5>2 DEF IsInjective
        <5>4. QED
          BY <5>3
      <4>2. QED
        BY <4>1
    <3>3. Induced(Component, c) # <<>>
      BY <3>2 DEF Trivial
    <3>4. PICK t \in Out(Members, c) : TRUE
      <4>1. Induced(Component, c) \in Seq(Nodes)
            /\ Range(Induced(Component, c)) = Out(Members, c)
        BY <3>1, ComponentFacts, InducedFacts DEF SccTypeOK
      <4>2. Head(Induced(Component, c)) \in Range(Induced(Component, c))
        BY <3>3, <4>1, TailFacts
      <4>3. QED
        BY <4>1, <4>2
    <3>5. t = v
      BY <2>2, <3>4 DEF Out
    <3> HIDE DEF c
    <3>6. QED
      BY <3>1, <3>4, <3>5, AfterFacts
  <2>3. QED
    BY <2>1, <2>2
<1>2. ASSUME NEW v \in Members, NEW w \in Members PROVE w \in After(Members, v)
  <2>1. Leads(Members, v, w)
    BY ComponentFacts
  <2>2. QED
    BY <1>1, <2>1 DEF Leads
<1>3. QED
  BY <1>2 DEF Connected

\* The constraints of an accepted component: taken, never enabled, or disabled somewhere.
LEMMA AcceptedConstraints ==
  ASSUME SccTypeOK, Admissible, BadStrong = {}, NEW f \in Range(problem.fairness)
  PROVE  \/ TakenEdges(f) # {} /\ f \in Range(Taken)
         \/ f.strong /\ Members \cap f.enabled = {}
         \/ ~f.strong /\ Disabled(f) # {} /\ f \in Range(WeakNotTaken)
<1> DEFINE U == [strong : BOOLEAN, taken : SUBSET (Nodes \X Nodes), enabled : SUBSET Nodes]
           W == {g \in NotTaken : ~g.strong}
           T == Range(problem.fairness) \ NotTaken
<1>1. problem.fairness \in Seq(U)
  BY ProblemFacts DEF SccTypeOK
<1> HIDE DEF U
<1>2. Range(WeakNotTaken) = Range(problem.fairness) \cap W
  BY <1>1, OnlyFacts DEF WeakNotTaken
<1>3. Range(Taken) = Range(problem.fairness) \cap T
  BY <1>1, OnlyFacts DEF Taken
<1>4. CASE f \notin NotTaken
  BY <1>3, <1>4 DEF NotTaken
<1>5. CASE f \in NotTaken /\ f.strong
  <2>1. Disabled(f) = Members
    BY <1>5 DEF BadStrong
  <2>2. QED
    BY <1>5, <2>1 DEF Disabled
<1>6. CASE f \in NotTaken /\ ~f.strong
  <2>1. f \in Range(WeakNotTaken)
    BY <1>2, <1>6
  <2>2. Disabled(f) # {}
    BY <2>1 DEF Admissible, WeakMet, Range
  <2>3. QED
    BY <1>6, <2>1, <2>2
<1>7. QED
  BY <1>4, <1>5, <1>6

LEMMA AcceptedIsFair ==
  ASSUME SccTypeOK, PendingConnected, pending # <<>>, Admissible, BadStrong = {}
  PROVE  Fair(Members)
<1>1. Members # {} /\ Connected(Members)
  BY ComponentFacts, AdmissibleIsConnected DEF Admissible
<1>2. \A i \in DOMAIN problem.acc : problem.acc[i] \cap Members # {}
  BY DEF Admissible, Accepting
<1>3. ASSUME NEW f \in Range(problem.fairness) PROVE FairIn(Members, f)
  <2>1. CASE TakenEdges(f) # {}
    <3>1. PICK e \in TakenEdges(f) : TRUE
      BY <2>1
    <3>2. e \in f.taken /\ e[1] \in Members /\ e[2] \in Range(Induced(Component, e[1]))
      BY DEF TakenEdges
    <3>3. e[2] \in Out(Members, e[1])
      BY <3>2, ComponentFacts
    <3>4. f.taken \subseteq Nodes \X Nodes
      <4> DEFINE U == [strong : BOOLEAN, taken : SUBSET (Nodes \X Nodes),
                       enabled : SUBSET Nodes]
      <4>1. problem.fairness \in Seq(U)
        BY ProblemFacts DEF SccTypeOK
      <4>2. f \in U
        <5> HIDE DEF U
        <5>1. QED
          BY <4>1, ElementFacts DEF Range
      <4>3. QED
        BY <4>2
    <3>5. e = <<e[1], e[2]>>
      BY <3>2, <3>4
    <3>6. QED
      BY <3>2, <3>3, <3>5 DEF FairIn
  <2>2. CASE f.strong /\ Members \cap f.enabled = {}
    BY <2>2 DEF FairIn
  <2>3. CASE ~f.strong /\ Disabled(f) # {}
    BY <2>3 DEF FairIn, Disabled
  <2>4. QED
    BY <2>1, <2>2, <2>3, AcceptedConstraints
<1>4. \A i \in DOMAIN problem.fairness : problem.fairness[i] \in Range(problem.fairness)
  BY DEF Range
<1>5. QED
  BY <1>1, <1>2, <1>3, <1>4 DEF Fair

(***************************************************************************)
(* The steps that examine a component.                                     *)
(***************************************************************************)
LEMMA ExaminedFacts ==
  ASSUME SccTypeOK, SearchInv, Examining, pending' = Tail(pending), UNCHANGED problem
  PROVE  /\ PendingConnected'
         /\ \A S \in SUBSET Nodes : Fair(S) =>
               \/ S \subseteq Members
               \/ \E i \in DOMAIN pending' : S \subseteq Range(pending'[i])
<1>1. view = <<>> /\ found = <<>> /\ pending # <<>>
  BY DEF Examining
<1>2. /\ Component = pending[1] /\ DOMAIN pending = 1 .. Len(pending) /\ Len(pending) \in Nat
      /\ DOMAIN pending' = 1 .. Len(pending) - 1
      /\ \A k \in 1 .. Len(pending) - 1 : pending'[k] = pending[k + 1]
  BY <1>1, ComponentFacts DEF SearchInv
<1>3. ASSUME NEW k \in DOMAIN pending'
      PROVE  k + 1 \in DOMAIN pending /\ pending'[k] = pending[k + 1]
  BY <1>2
<1>4. PendingConnected'
  <2>1. \A S, v, w : Leads(S, v, w)' <=> Leads(S, v, w)
    BY SameProblem
  <2>2. ASSUME NEW i \in DOMAIN pending'
        PROVE  /\ pending'[i] # <<>> /\ IsInjective(pending'[i])
               /\ \A v, w \in Range(pending'[i]) : Leads(Range(pending'[i]), v, w)
    BY <1>3 DEF SearchInv, PendingConnected
  <2>3. QED
    BY <2>1, <2>2 DEF PendingConnected
<1>5. ASSUME NEW S \in SUBSET Nodes, Fair(S), ~ (S \subseteq Members)
      PROVE  \E i \in DOMAIN pending' : S \subseteq Range(pending'[i])
  <2>1. ~ (S \subseteq Range(view))
    <3>1. Range(view) = {}
      BY <1>1 DEF Range
    <3>2. QED
      BY <1>5, <3>1 DEF Fair
  <2>2. PICK i \in DOMAIN pending : S \subseteq Range(pending[i])
    BY <1>1, <1>5, <2>1 DEF SearchInv, NoneDropped
  <2>3. i # 1
    BY <1>2, <1>5, <2>2 DEF Members
  <2>4. i - 1 \in DOMAIN pending' /\ (i - 1) + 1 = i
    BY <1>2, <2>3
  <2>5. pending'[i - 1] = pending[i]
    BY <1>3, <2>4
  <2>6. QED
    BY <2>2, <2>4, <2>5
<1>6. QED
  BY <1>4, <1>5

LEMMA RejectKeepsSearch ==
  ASSUME SccTypeOK, SearchInv, Reject
  PROVE  SearchInv'
<1>1. /\ Examining /\ pending # <<>> /\ found = <<>> /\ ~Admissible /\ pending' = Tail(pending)
      /\ UNCHANGED <<problem, view, found>>
  BY DEF Reject, Examining, tarjanVars, witnessVars
<1>2. \A S : S \subseteq Members => ~Fair(S)
  BY <1>1, RejectedHasNone DEF SearchInv
<1>3. PendingConnected' /\ \A S \in SUBSET Nodes : Fair(S) =>
               \E i \in DOMAIN pending' : S \subseteq Range(pending'[i])
  BY <1>1, <1>2, ExaminedFacts
<1>4. Nodes' = Nodes /\ \A S : Fair(S)' <=> Fair(S)
  BY <1>1, SameProblem
<1>5. NoneDropped'
  BY <1>3, <1>4 DEF NoneDropped
<1>6. FoundIsFair'
  BY <1>1 DEF FoundIsFair
<1>7. QED
  BY <1>3, <1>5, <1>6 DEF SearchInv

LEMMA RefineKeepsSearch ==
  ASSUME SccTypeOK, SearchInv, Refine
  PROVE  SearchInv'
<1>1. /\ Examining /\ pending # <<>> /\ found = <<>> /\ pending' = Tail(pending)
      /\ view' = Refined /\ UNCHANGED <<problem, found>>
  BY DEF Refine, Examining, StartTarjan, witnessVars
<1>2. \A S : S \subseteq Members /\ Fair(S) => S \subseteq Range(view')
  BY <1>1, RefinedKeepsFair DEF SearchInv
<1>3. PendingConnected' /\ \A S \in SUBSET Nodes : Fair(S) =>
               \/ S \subseteq Range(view')
               \/ \E i \in DOMAIN pending' : S \subseteq Range(pending'[i])
  BY <1>1, <1>2, ExaminedFacts
<1>4. Nodes' = Nodes /\ \A S : Fair(S)' <=> Fair(S)
  BY <1>1, SameProblem
<1>5. NoneDropped'
  BY <1>3, <1>4 DEF NoneDropped
<1>6. FoundIsFair'
  BY <1>1 DEF FoundIsFair
<1>7. QED
  BY <1>3, <1>5, <1>6 DEF SearchInv

LEMMA AcceptKeepsSearch ==
  ASSUME SccTypeOK, SearchInv, Accept
  PROVE  SearchInv'
<1>1. /\ pending # <<>> /\ view = <<>> /\ Admissible /\ BadStrong = {} /\ found' = Component
      /\ UNCHANGED <<problem, view, pending>>
  BY DEF Accept, Examining, tarjanVars
<1>2. Fair(Members) /\ Component # <<>>
  BY <1>1, AcceptedIsFair, ComponentFacts DEF SearchInv
<1>3. \A S : Fair(S)' <=> Fair(S)
  BY <1>1, SameProblem
<1>4. \A S, v, w : Leads(S, v, w)' <=> Leads(S, v, w)
  BY <1>1, SameProblem
<1>5. PendingConnected'
  BY <1>1, <1>4 DEF SearchInv, PendingConnected
<1>6. NoneDropped'
  BY <1>1, <1>2 DEF NoneDropped
<1>7. FoundIsFair'
  BY <1>1, <1>2, <1>3 DEF FoundIsFair, Members
<1>8. QED
  BY <1>5, <1>6, <1>7 DEF SearchInv

\* The other steps of the search leave the view, what waits and what was found.
LEMMA OthersKeepSearch ==
  ASSUME SearchInv, UNCHANGED <<problem, view, pending, found>>
  PROVE  SearchInv'
<1>1. /\ Nodes' = Nodes /\ \A S : Fair(S)' <=> Fair(S)
      /\ \A S, v, w : Leads(S, v, w)' <=> Leads(S, v, w)
  BY SameProblem
<1>2. PendingConnected' /\ NoneDropped' /\ FoundIsFair'
  BY <1>1 DEF SearchInv, PendingConnected, NoneDropped, FoundIsFair
<1>3. QED
  BY <1>2 DEF SearchInv

(***************************************************************************)
(* Ways: lists of nodes that follow edges.                                 *)
(***************************************************************************)
Edge(v, w) == w \in Range(problem.adj[v])
IsWay(S, p) ==
  p \in Seq(S) /\ Len(p) # 0 /\ \A k \in 1 .. Len(p) - 1 : Edge(p[k], p[k + 1])
WayEdges(p) == {<<p[k], p[k + 1]>> : k \in 1 .. Len(p) - 1}

\* One way goes on where another ends.
GoesOn(S, c, p, q) ==
  /\ IsWay(S, q) /\ q[1] = c[1] /\ q[Len(q)] = p[Len(p)]
  /\ Range(c) \subseteq Range(q) /\ Range(p) \subseteq Range(q)
  /\ WayEdges(c) \subseteq WayEdges(q) /\ WayEdges(p) \subseteq WayEdges(q)

LEMMA JoinedWay ==
  ASSUME NEW S, NEW c, NEW p, IsWay(S, c), IsWay(S, p), p[1] = c[Len(c)]
  PROVE  GoesOn(S, c, p, c \o Tail(p))
<1> DEFINE q == c \o Tail(p)
<1>1. c \in Seq(S) /\ p \in Seq(S) /\ p # <<>> /\ Len(c) \in Nat \ {0} /\ Len(p) \in Nat \ {0}
  BY ElementFacts DEF IsWay
<1>2. /\ Tail(p) \in Seq(S) /\ Len(Tail(p)) = Len(p) - 1
      /\ \A k \in 1 .. Len(p) - 1 : Tail(p)[k] = p[k + 1]
      /\ Range(p) = {Head(p)} \cup Range(Tail(p)) /\ Head(p) = p[1]
  BY <1>1, TailFacts
<1>3. /\ q \in Seq(S) /\ Len(q) = Len(c) + Len(Tail(p))
      /\ \A k \in 1 .. Len(c) : q[k] = c[k]
      /\ \A k \in 1 .. Len(Tail(p)) : q[Len(c) + k] = Tail(p)[k]
      /\ Range(q) = Range(c) \cup Range(Tail(p))
  <2>1. PICK r : r = Tail(p)
    OBVIOUS
  <2>2. c \in Seq(S) /\ r \in Seq(S)
    BY <1>1, <1>2, <2>1
  <2>3. /\ c \o r \in Seq(S)
        /\ Len(c \o r) = Len(c) + Len(r)
        /\ \A k \in 1 .. Len(c) : (c \o r)[k] = c[k]
        /\ \A k \in 1 .. Len(r) : (c \o r)[Len(c) + k] = r[k]
        /\ Range(c \o r) = Range(c) \cup Range(r)
    BY <2>2, ConcatFacts
  <2>4. q = c \o r
    BY <2>1
  <2> HIDE DEF q
  <2>5. QED
    BY <2>1, <2>3, <2>4
<1> HIDE DEF q
<1>4. Len(q) = Len(c) + Len(p) - 1
  BY <1>1, <1>2, <1>3
<1>5. ASSUME NEW k \in 1 .. Len(p) PROVE q[Len(c) + k - 1] = p[k]
  <2>1. CASE k = 1
    <3>1. Len(c) + k - 1 = Len(c) /\ Len(c) \in 1 .. Len(c)
      BY <1>1, <2>1
    <3>2. QED
      BY <1>3, <2>1, <3>1
  <2>2. CASE k # 1
    <3>1. k - 1 \in 1 .. Len(p) - 1 /\ (k - 1) + 1 = k /\ Len(c) + k - 1 = Len(c) + (k - 1)
      BY <1>1, <2>2
    <3>2. q[Len(c) + (k - 1)] = Tail(p)[k - 1] /\ Tail(p)[k - 1] = p[(k - 1) + 1]
      BY <1>2, <1>3, <3>1
    <3>3. QED
      BY <3>1, <3>2
  <2>3. QED
    BY <2>1, <2>2
<1>6. ASSUME NEW k \in 1 .. Len(q) - 1
      PROVE  \/ k \in 1 .. Len(c) - 1 /\ q[k] = c[k] /\ q[k + 1] = c[k + 1]
             \/ \E j \in 1 .. Len(p) - 1 : q[k] = p[j] /\ q[k + 1] = p[j + 1]
  <2>1. CASE k < Len(c)
    <3>1. k \in 1 .. Len(c) /\ k + 1 \in 1 .. Len(c) /\ k \in 1 .. Len(c) - 1
      BY <1>1, <1>4, <2>1
    <3>2. QED
      BY <1>3, <3>1
  <2>2. CASE ~ (k < Len(c))
    <3> DEFINE j == k - Len(c) + 1
    <3>1. /\ j \in 1 .. Len(p) - 1 /\ j \in 1 .. Len(p) /\ j + 1 \in 1 .. Len(p)
          /\ Len(c) + j - 1 = k /\ Len(c) + (j + 1) - 1 = k + 1
      BY <1>1, <1>4, <2>2
    <3> HIDE DEF j
    <3>2. q[Len(c) + j - 1] = p[j] /\ q[Len(c) + (j + 1) - 1] = p[j + 1]
      BY <1>5, <3>1
    <3>3. q[k] = p[j] /\ q[k + 1] = p[j + 1]
      BY <3>1, <3>2
    <3>4. QED
      BY <3>1, <3>3
  <2>3. QED
    BY <2>1, <2>2
<1>7. IsWay(S, q)
  <2>1. \A k \in 1 .. Len(q) - 1 : Edge(q[k], q[k + 1])
    BY <1>6 DEF IsWay
  <2>2. Len(q) # 0
    BY <1>1, <1>4
  <2>3. QED
    BY <1>3, <2>1, <2>2 DEF IsWay
<1>8. q[1] = c[1] /\ q[Len(q)] = p[Len(p)]
  <2>1. 1 \in 1 .. Len(c) /\ Len(p) \in 1 .. Len(p)
    BY <1>1
  <2>2. QED
    BY <1>3, <1>4, <1>5, <2>1
<1>9. Range(q) = Range(c) \cup Range(p)
  <2>1. Head(p) \in Range(c)
    <3>1. Len(c) \in DOMAIN c
      BY <1>1, ElementFacts
    <3>2. QED
      BY <1>2, <3>1 DEF Range
  <2>2. QED
    BY <1>2, <1>3, <2>1
<1>10. WayEdges(c) \subseteq WayEdges(q)
  <2>1. ASSUME NEW k \in 1 .. Len(c) - 1 PROVE <<c[k], c[k + 1]>> \in WayEdges(q)
    <3>1. k \in 1 .. Len(c) /\ k + 1 \in 1 .. Len(c) /\ k \in 1 .. Len(q) - 1
      BY <1>1, <1>4
    <3>2. q[k] = c[k] /\ q[k + 1] = c[k + 1]
      BY <1>3, <3>1
    <3>3. QED
      BY <3>1, <3>2 DEF WayEdges
  <2>2. QED
    BY <2>1 DEF WayEdges
<1>11. WayEdges(p) \subseteq WayEdges(q)
  <2>1. ASSUME NEW j \in 1 .. Len(p) - 1 PROVE <<p[j], p[j + 1]>> \in WayEdges(q)
    <3> DEFINE k == Len(c) + j - 1
    <3>1. /\ j \in 1 .. Len(p) /\ j + 1 \in 1 .. Len(p) /\ k \in 1 .. Len(q) - 1
          /\ Len(c) + (j + 1) - 1 = k + 1
      BY <1>1, <1>4
    <3>2. q[k] = p[j] /\ q[Len(c) + (j + 1) - 1] = p[j + 1]
      BY <1>5, <3>1
    <3> HIDE DEF k
    <3>3. q[k + 1] = p[j + 1]
      BY <3>1, <3>2
    <3>4. QED
      BY <3>1, <3>2, <3>3 DEF WayEdges
  <2>2. QED
    BY <2>1 DEF WayEdges
<1>12. QED
  BY <1>7, <1>8, <1>9, <1>10, <1>11 DEF GoesOn, q

\* A way grows by an edge.
LEMMA LongerWay ==
  ASSUME NEW S, NEW c, IsWay(S, c), NEW t \in S, Edge(c[Len(c)], t)
  PROVE  LET q == Append(c, t)
         IN  /\ IsWay(S, q) /\ q[1] = c[1] /\ q[Len(q)] = t
             /\ Len(q) = Len(c) + 1
             /\ Range(q) = Range(c) \cup {t}
             /\ WayEdges(c) \subseteq WayEdges(q)
<1> DEFINE q == Append(c, t)
<1>1. c \in Seq(S) /\ Len(c) \in Nat \ {0}
  BY ElementFacts DEF IsWay
<1>2. /\ q \in Seq(S) /\ Len(q) = Len(c) + 1 /\ q[Len(c) + 1] = t
      /\ \A k \in 1 .. Len(c) : q[k] = c[k]
      /\ Range(q) = Range(c) \cup {t}
  BY <1>1, AppendFacts, RangeOfAppend
<1> HIDE DEF q
<1>3. ASSUME NEW k \in 1 .. Len(q) - 1 PROVE Edge(q[k], q[k + 1])
  <2>1. CASE k < Len(c)
    <3>1. k \in 1 .. Len(c) /\ k + 1 \in 1 .. Len(c) /\ k \in 1 .. Len(c) - 1
      BY <1>1, <1>2, <2>1
    <3>2. QED
      BY <1>2, <3>1 DEF IsWay
  <2>2. CASE ~ (k < Len(c))
    <3>1. k = Len(c) /\ k \in 1 .. Len(c)
      BY <1>1, <1>2, <2>2
    <3>2. QED
      BY <1>2, <3>1
  <2>3. QED
    BY <2>1, <2>2
<1>4. IsWay(S, q)
  <2>1. Len(q) # 0
    BY <1>1, <1>2
  <2>2. QED
    BY <1>2, <1>3, <2>1 DEF IsWay
<1>5. WayEdges(c) \subseteq WayEdges(q)
  <2>1. ASSUME NEW k \in 1 .. Len(c) - 1 PROVE <<c[k], c[k + 1]>> \in WayEdges(q)
    <3>1. k \in 1 .. Len(c) /\ k + 1 \in 1 .. Len(c) /\ k \in 1 .. Len(q) - 1
      BY <1>1, <1>2
    <3>2. q[k] = c[k] /\ q[k + 1] = c[k + 1]
      BY <1>2, <3>1
    <3>3. QED
      BY <3>1, <3>2 DEF WayEdges
  <2>2. QED
    BY <2>1 DEF WayEdges
<1>6. q[1] = c[1] /\ q[Len(q)] = t
  BY <1>1, <1>2
<1>7. QED
  BY <1>2, <1>4, <1>5, <1>6 DEF q

(***************************************************************************)
(* The breadth-first search: it exists, and finds a way to all it reaches. *)
(***************************************************************************)
PathsUpTo(allowed, starts, n, f) ==
  f = [i \in 0 .. n |-> IF i = 0 THEN [k \in DOMAIN starts |-> <<starts[k]>>]
                        ELSE Extended(allowed, f[i - 1], i)]

LEMMA PathsExist ==
  ASSUME NEW allowed, NEW starts
  PROVE  \A n \in Nat : \E f : PathsUpTo(allowed, starts, n, f)
<1> DEFINE first == [k \in DOMAIN starts |-> <<starts[k]>>]
           Stuck == {n \in Nat : ~ \E f : PathsUpTo(allowed, starts, n, f)}
<1> HIDE DEF first
<1>1. 0 \notin Stuck
  <2> DEFINE f == [k \in 0 .. 0 |-> first]
  <2>1. PathsUpTo(allowed, starts, 0, f)
    BY DEF PathsUpTo, first
  <2> HIDE DEF f
  <2>2. QED
    BY <2>1
<1>2. ASSUME NEW n \in Nat, NEW f, PathsUpTo(allowed, starts, n, f) PROVE n + 1 \notin Stuck
  <2> DEFINE last == Extended(allowed, f[n], n + 1)
             g == [k \in 0 .. n + 1 |-> IF k = n + 1 THEN last ELSE f[k]]
  <2> HIDE DEF last
  <2>1. ASSUME NEW k \in 0 .. n + 1
        PROVE  g[k] = IF k = 0 THEN first ELSE Extended(allowed, g[k - 1], k)
    <3>1. CASE k = n + 1
      <4>1. k - 1 \in 0 .. n + 1 /\ k - 1 # n + 1 /\ k - 1 = n /\ k # 0
        BY <3>1
      <4>2. g[k] = last /\ g[k - 1] = f[n]
        BY <3>1, <4>1
      <4> HIDE DEF g
      <4>3. QED
        BY <3>1, <4>1, <4>2 DEF last
    <3>2. CASE k # n + 1
      <4>1. k \in 0 .. n /\ g[k] = f[k] /\ (k # 0 => g[k - 1] = f[k - 1])
        BY <3>2
      <4>2. f[k] = IF k = 0 THEN first ELSE Extended(allowed, f[k - 1], k)
        BY <1>2, <4>1 DEF PathsUpTo, first
      <4> HIDE DEF g
      <4>3. QED
        BY <4>1, <4>2
    <3>3. QED
      BY <3>1, <3>2
  <2>2. PathsUpTo(allowed, starts, n + 1, g)
    BY <2>1 DEF PathsUpTo, first
  <2> HIDE DEF g
  <2>3. QED
    BY <2>2
<1>3. Stuck = {}
  <2>1. SUFFICES ASSUME Stuck # {} PROVE FALSE
    OBVIOUS
  <2>2. Stuck \in SUBSET Nat
    OBVIOUS
  <2>3. PICK n \in Stuck : \A k \in Stuck : n <= k
    <3> HIDE DEF Stuck
    <3>1. QED
      BY <2>1, <2>2, LeastNumber
  <2> DEFINE k == n - 1
  <2>4. k \in Nat /\ k \notin Stuck /\ k + 1 = n
    <3> HIDE DEF Stuck
    <3>1. n # 0 /\ n \in Nat
      BY <1>1, <2>2, <2>3
    <3>2. k \in Nat /\ ~ (n <= k) /\ k + 1 = n
      BY <3>1
    <3>3. QED
      BY <2>3, <3>2
  <2> HIDE DEF k
  <2>5. PICK f : PathsUpTo(allowed, starts, k, f)
    BY <2>4
  <2>6. k + 1 \notin Stuck
    BY <1>2, <2>4, <2>5
  <2>7. QED
    BY <2>3, <2>4, <2>6
<1>4. QED
  BY <1>3

\* What holds of the paths when the first i have been extended.
Met(ps) == {Last(p) : p \in Range(ps)}
PathsInv(allowed, starts, i, ps) ==
  /\ ps \in Seq(Seq(allowed))
  /\ \A k \in DOMAIN ps : IsWay(allowed, ps[k]) /\ ps[k][1] \in Range(starts)
  /\ \A j, k \in DOMAIN ps : Last(ps[j]) = Last(ps[k]) => j = k
  /\ Range(starts) \subseteq Met(ps)
  /\ \A k \in DOMAIN ps : k <= i => Out(allowed, Last(ps[k])) \subseteq Met(ps)

LEMMA FirstPaths ==
  ASSUME NEW allowed, NEW starts \in Seq(allowed), IsInjective(starts)
  PROVE  PathsInv(allowed, starts, 0, [k \in DOMAIN starts |-> <<starts[k]>>])
<1> DEFINE ps == [k \in DOMAIN starts |-> <<starts[k]>>]
<1>1. Len(starts) \in Nat /\ DOMAIN starts = 1 .. Len(starts)
      /\ \A k \in 1 .. Len(starts) : starts[k] \in allowed
  BY ElementFacts
<1>2. DOMAIN ps = 1 .. Len(starts) /\ \A k \in 1 .. Len(starts) : ps[k] = <<starts[k]>>
  BY <1>1
<1>3. ps \in Seq(Seq(allowed))
  <2>1. \A k \in 1 .. Len(starts) : <<starts[k]>> \in Seq(allowed)
    BY <1>1
  <2> DEFINE U == Seq(allowed)
  <2>2. ps \in [1 .. Len(starts) -> U]
    BY <1>1, <2>1
  <2> HIDE DEF ps, U
  <2>3. ps \in Seq(U)
    BY <1>1, <2>2
  <2>4. QED
    BY <2>3 DEF U
<1> HIDE DEF ps
<1>4. ASSUME NEW k \in 1 .. Len(starts)
      PROVE  IsWay(allowed, ps[k]) /\ ps[k][1] \in Range(starts) /\ Last(ps[k]) = starts[k]
  <2>1. ps[k] \in Seq(allowed) /\ Len(ps[k]) = 1 /\ ps[k][1] = starts[k]
    <3>1. PICK t : t = starts[k]
      OBVIOUS
    <3>2. t \in allowed /\ ps[k] = <<t>>
      BY <1>1, <1>2, <3>1
    <3>3. QED
      BY <3>1, <3>2
  <2>2. 1 .. Len(ps[k]) - 1 = {}
    BY <2>1
  <2>3. QED
    BY <1>1, <2>1, <2>2 DEF IsWay, Last, Range
<1>5. Range(starts) \subseteq Met(ps)
  <2>1. ASSUME NEW k \in 1 .. Len(starts) PROVE starts[k] \in Met(ps)
    BY <1>2, <1>4 DEF Met, Range
  <2>2. QED
    BY <1>1, <2>1 DEF Range
<1>6. \A j, k \in DOMAIN ps : Last(ps[j]) = Last(ps[k]) => j = k
  BY <1>1, <1>2, <1>4 DEF IsInjective
<1>7. \A k \in DOMAIN ps : ~ (k <= 0)
  BY <1>1, <1>2
<1>8. PathsInv(allowed, starts, 0, ps)
  BY <1>2, <1>3, <1>4, <1>5, <1>6, <1>7 DEF PathsInv
<1>9. QED
  BY <1>8 DEF ps

LEMMA MorePaths ==
  ASSUME IsProblem(problem), NEW allowed \in SUBSET Nodes, NEW starts, NEW i \in Nat, NEW ps,
         PathsInv(allowed, starts, i, ps)
  PROVE  PathsInv(allowed, starts, i + 1, Extended(allowed, ps, i + 1))
<1>1. ps \in Seq(Seq(allowed)) /\ Len(ps) \in Nat /\ DOMAIN ps = 1 .. Len(ps)
  <2> DEFINE U == Seq(allowed)
  <2>1. ps \in Seq(U)
    BY DEF PathsInv
  <2> HIDE DEF U
  <2>2. Len(ps) \in Nat /\ DOMAIN ps = 1 .. Len(ps)
    BY <2>1, ElementFacts
  <2>3. QED
    BY <2>1, <2>2 DEF U
<1>2. CASE i + 1 > Len(ps)
  <2>1. Extended(allowed, ps, i + 1) = ps
    BY <1>2 DEF Extended
  <2>2. \A k \in DOMAIN ps : k <= i
    BY <1>1, <1>2
  <2>3. QED
    BY <2>1, <2>2 DEF PathsInv
<1>3. CASE ~ (i + 1 > Len(ps))
  <2> DEFINE p == ps[i + 1]
             v == Last(p)
             fresh == Only(problem.adj[v], allowed \ Met(ps))
             ext == [k \in DOMAIN fresh |-> Append(p, fresh[k])]
             qs == ps \o ext
  <2>1. Extended(allowed, ps, i + 1) = qs
    BY <1>3 DEF Extended, Met
  <2>2. i + 1 \in DOMAIN ps /\ IsWay(allowed, p) /\ p[1] \in Range(starts)
    <3>1. i + 1 \in DOMAIN ps
      BY <1>1, <1>3
    <3>2. QED
      BY <3>1 DEF PathsInv
  <2> HIDE DEF p
  <2>3. v \in allowed /\ v = p[Len(p)] /\ v \in Nodes
    <3>1. p \in Seq(allowed) /\ Len(p) # 0 /\ Len(p) \in Nat
      BY <2>2, ElementFacts DEF IsWay
    <3>2. QED
      BY <3>1, ElementFacts DEF Last
  <2> HIDE DEF v
  <2>4. /\ fresh \in Seq(Nodes) /\ IsInjective(fresh)
        /\ Range(fresh) = Out(allowed, v) \ Met(ps)
        /\ Len(fresh) \in Nat /\ DOMAIN fresh = 1 .. Len(fresh)
    <3>1. problem.adj[v] \in Seq(Nodes) /\ IsInjective(problem.adj[v])
      BY <2>3, ProblemFacts
    <3>2. /\ fresh \in Seq(Nodes) /\ IsInjective(fresh)
          /\ Range(fresh) = Range(problem.adj[v]) \cap (allowed \ Met(ps))
      BY <3>1, OnlyFacts
    <3> HIDE DEF fresh
    <3>3. Range(fresh) = Out(allowed, v) \ Met(ps)
      BY <3>2 DEF Out
    <3>4. QED
      BY <3>2, <3>3, ElementFacts
  <2> HIDE DEF fresh
  <2>5. ASSUME NEW k \in 1 .. Len(fresh)
        PROVE  /\ ext[k] \in Seq(allowed) /\ IsWay(allowed, ext[k])
               /\ ext[k][1] \in Range(starts) /\ Last(ext[k]) = fresh[k]
               /\ fresh[k] \notin Met(ps)
    <3>1. fresh[k] \in Out(allowed, v) /\ fresh[k] \notin Met(ps)
      BY <2>4 DEF Range
    <3>2. fresh[k] \in allowed /\ Edge(p[Len(p)], fresh[k])
      BY <2>3, <3>1 DEF Out, Edge
    <3>3. ext[k] = Append(p, fresh[k])
      BY <2>4
    <3> HIDE DEF ext
    <3>4. PICK t : t = fresh[k]
      OBVIOUS
    <3>5. /\ IsWay(allowed, Append(p, t)) /\ Append(p, t)[1] = p[1]
          /\ Append(p, t)[Len(Append(p, t))] = t
      BY <2>2, <3>2, <3>4, LongerWay
    <3>6. QED
      BY <2>2, <3>1, <3>3, <3>4, <3>5 DEF Last, IsWay
  <2>6. ext \in Seq(Seq(allowed)) /\ Len(ext) = Len(fresh) /\ DOMAIN ext = 1 .. Len(fresh)
    <3> DEFINE U == Seq(allowed)
    <3>1. DOMAIN ext = 1 .. Len(fresh)
      BY <2>4
    <3>2. ext \in [1 .. Len(fresh) -> U]
      BY <2>4, <2>5
    <3> HIDE DEF ext, U
    <3>3. ext \in Seq(U) /\ Len(ext) = Len(fresh)
      BY <2>4, <3>2
    <3>4. QED
      BY <3>1, <3>3 DEF U
  <2> HIDE DEF ext
  <2>7. /\ qs \in Seq(Seq(allowed)) /\ DOMAIN qs = 1 .. Len(ps) + Len(fresh)
        /\ \A k \in 1 .. Len(ps) : qs[k] = ps[k]
        /\ \A k \in 1 .. Len(fresh) : qs[Len(ps) + k] = ext[k]
        /\ Range(qs) = Range(ps) \cup Range(ext)
    <3> DEFINE U == Seq(allowed)
    <3>1. ps \in Seq(U) /\ ext \in Seq(U)
      BY <1>1, <2>6
    <3> HIDE DEF U, qs
    <3>2. /\ ps \o ext \in Seq(U) /\ Len(ps \o ext) = Len(ps) + Len(ext)
          /\ \A k \in 1 .. Len(ps) : (ps \o ext)[k] = ps[k]
          /\ \A k \in 1 .. Len(ext) : (ps \o ext)[Len(ps) + k] = ext[k]
          /\ Range(ps \o ext) = Range(ps) \cup Range(ext)
      BY <3>1, ConcatFacts
    <3>3. DOMAIN (ps \o ext) = 1 .. Len(ps \o ext)
      BY <3>2, ElementFacts
    <3>4. QED
      BY <2>6, <3>2, <3>3 DEF qs, U
  <2> HIDE DEF qs
  <2>8. ASSUME NEW k \in DOMAIN qs
        PROVE  \/ k \in DOMAIN ps /\ qs[k] = ps[k]
               \/ k - Len(ps) \in 1 .. Len(fresh) /\ qs[k] = ext[k - Len(ps)]
    <3>1. CASE k \in 1 .. Len(ps)
      BY <1>1, <2>7, <3>1
    <3>2. CASE k \notin 1 .. Len(ps)
      <4>1. k - Len(ps) \in 1 .. Len(fresh) /\ Len(ps) + (k - Len(ps)) = k
        BY <1>1, <2>4, <2>7, <3>2
      <4>2. qs[Len(ps) + (k - Len(ps))] = ext[k - Len(ps)]
        BY <2>7, <4>1
      <4>3. QED
        BY <4>1, <4>2
    <3>3. QED
      BY <3>1, <3>2
  <2>9. /\ \A k \in DOMAIN ps : Last(ps[k]) \in Met(ps)
        /\ Met(qs) = Met(ps) \cup Range(fresh)
    <3>1. \A k \in DOMAIN ps : Last(ps[k]) \in Met(ps)
      BY DEF Met, Range
    <3>2. Met(qs) = Met(ps) \cup Met(ext)
      BY <2>7 DEF Met
    <3>3. Met(ext) = Range(fresh)
      <4>1. Met(ext) = {Last(ext[k]) : k \in 1 .. Len(fresh)}
        BY <2>6 DEF Met, Range
      <4>2. Range(fresh) = {fresh[k] : k \in 1 .. Len(fresh)}
        BY <2>4 DEF Range
      <4>3. QED
        BY <2>5, <4>1, <4>2
    <3>4. QED
      BY <3>1, <3>2, <3>3
  <2>10. \A k \in DOMAIN qs : IsWay(allowed, qs[k]) /\ qs[k][1] \in Range(starts)
    BY <2>5, <2>8 DEF PathsInv
  <2>11. ASSUME NEW j \in DOMAIN qs, NEW k \in DOMAIN qs, Last(qs[j]) = Last(qs[k])
         PROVE  j = k
    <3>1. CASE j \in DOMAIN ps /\ qs[j] = ps[j]
      <4>1. Last(qs[j]) \in Met(ps)
        BY <2>9, <3>1
      <4>2. k \in DOMAIN ps /\ qs[k] = ps[k]
        BY <2>5, <2>8, <2>11, <4>1
      <4>3. QED
        BY <2>11, <3>1, <4>2 DEF PathsInv
    <3>2. CASE j - Len(ps) \in 1 .. Len(fresh) /\ qs[j] = ext[j - Len(ps)]
      <4>1. Last(qs[j]) = fresh[j - Len(ps)] /\ Last(qs[j]) \notin Met(ps)
        BY <2>5, <3>2
      <4>2. k - Len(ps) \in 1 .. Len(fresh) /\ qs[k] = ext[k - Len(ps)]
        BY <2>8, <2>9, <2>11, <4>1
      <4>3. Last(qs[k]) = fresh[k - Len(ps)]
        BY <2>5, <4>2
      <4>4. j - Len(ps) = k - Len(ps)
        BY <2>4, <2>11, <3>2, <4>1, <4>2, <4>3 DEF IsInjective
      <4>5. j \in Int /\ k \in Int
        BY <1>1, <2>4, <2>7
      <4>6. QED
        BY <1>1, <4>4, <4>5
    <3>3. QED
      BY <2>8, <3>1, <3>2
  <2>12. ASSUME NEW k \in DOMAIN qs, k <= i + 1
         PROVE  Out(allowed, Last(qs[k])) \subseteq Met(qs)
    <3>1. k \in DOMAIN ps /\ qs[k] = ps[k]
      BY <1>1, <1>3, <2>4, <2>7, <2>12
    <3>2. CASE k = i + 1
      <4>1. Last(qs[k]) = v
        BY <3>1, <3>2 DEF v, p
      <4>2. QED
        BY <2>4, <2>9, <4>1
    <3>3. CASE k # i + 1
      <4>1. k <= i
        <5>1. k \in Nat /\ i \in Nat
          BY <1>1, <3>1
        <5>2. QED
          BY <2>12, <3>3, <5>1
      <4>2. QED
        BY <2>9, <3>1, <4>1 DEF PathsInv
    <3>4. QED
      BY <3>2, <3>3
  <2>13. Range(starts) \subseteq Met(qs)
    BY <2>9 DEF PathsInv
  <2>14. PathsInv(allowed, starts, i + 1, qs)
    BY <2>7, <2>10, <2>11, <2>12, <2>13 DEF PathsInv
  <2>15. QED
    BY <2>1, <2>14
<1>4. QED
  BY <1>2, <1>3

LEMMA AllPaths ==
  ASSUME IsProblem(problem), NEW allowed \in SUBSET Nodes, NEW starts \in Seq(allowed),
         IsInjective(starts)
  PROVE  PathsInv(allowed, starts, Len(problem.adj), PathsFrom(allowed, starts))
<1> DEFINE n == Len(problem.adj)
           f == CHOOSE f : PathsUpTo(allowed, starts, n, f)
           Wrong == {i \in 0 .. n : ~ PathsInv(allowed, starts, i, f[i])}
<1>1. n \in Nat
  BY ProblemFacts
<1>2. PathsUpTo(allowed, starts, n, f)
  <2> HIDE DEF n
  <2>1. \E g : PathsUpTo(allowed, starts, n, g)
    BY <1>1, PathsExist
  <2>2. QED
    BY <2>1
<1>3. PathsFrom(allowed, starts) = f[n]
  BY DEF PathsFrom, PathsUpTo
<1> HIDE DEF f, n
<1>4. /\ f[0] = [k \in DOMAIN starts |-> <<starts[k]>>]
      /\ \A i \in 1 .. n : f[i] = Extended(allowed, f[i - 1], i)
  <2>1. 0 \in 0 .. n /\ \A i \in 1 .. n : i \in 0 .. n /\ i # 0
    BY <1>1
  <2>2. \A i \in 0 .. n : f[i] = IF i = 0 THEN [k \in DOMAIN starts |-> <<starts[k]>>]
                                 ELSE Extended(allowed, f[i - 1], i)
    BY <1>2 DEF PathsUpTo
  <2>3. QED
    BY <2>1, <2>2
<1>5. Wrong = {}
  <2>1. SUFFICES ASSUME Wrong # {} PROVE FALSE
    OBVIOUS
  <2>2. PICK i \in Wrong : \A k \in Wrong : i <= k
    <3>1. Wrong \in SUBSET Nat
      BY <1>1
    <3> HIDE DEF Wrong
    <3>2. QED
      BY <2>1, <3>1, LeastNumber
  <2>3. i # 0 /\ i \in 0 .. n /\ ~ PathsInv(allowed, starts, i, f[i])
    BY <1>4, <2>2, FirstPaths
  <2> DEFINE j == i - 1
  <2>4. i \in 1 .. n /\ j \in 0 .. n /\ j \in Nat /\ j + 1 = i /\ ~ (i <= j)
    BY <1>1, <2>3
  <2>5. f[i] = Extended(allowed, f[j], j + 1)
    BY <1>4, <2>4
  <2> HIDE DEF j
  <2>6. PathsInv(allowed, starts, j, f[j])
    BY <2>2, <2>4
  <2>7. PathsInv(allowed, starts, j + 1, Extended(allowed, f[j], j + 1))
    BY <2>4, <2>6, MorePaths
  <2>8. QED
    BY <2>3, <2>4, <2>5, <2>7
<1>6. n \in 0 .. n
  BY <1>1
<1>7. QED
  BY <1>3, <1>5, <1>6 DEF n

\* There are no more paths than nodes, so that all have been extended.
LEMMA BfsFinds ==
  ASSUME IsProblem(problem), NEW allowed \in SUBSET Nodes, NEW starts \in Seq(allowed),
         IsInjective(starts), NEW goal,
         \A R \in SUBSET allowed : Range(starts) \subseteq R /\ Closed(allowed, R) => goal \in R
  PROVE  LET p == BfsPath(allowed, starts, goal)
         IN  IsWay(allowed, p) /\ p[1] \in Range(starts) /\ p[Len(p)] = goal
<1> DEFINE ps == PathsFrom(allowed, starts)
           n == Len(problem.adj)
<1>1. PathsInv(allowed, starts, n, ps)
  BY AllPaths
<1> HIDE DEF ps
<1>2. Len(ps) \in Nat /\ DOMAIN ps = 1 .. Len(ps)
  <2> DEFINE U == Seq(allowed)
  <2>1. ps \in Seq(U)
    BY <1>1 DEF PathsInv
  <2> HIDE DEF U
  <2>2. QED
    BY <2>1, ElementFacts
<1>3. ASSUME NEW k \in DOMAIN ps
      PROVE  IsWay(allowed, ps[k]) /\ ps[k][1] \in Range(starts) /\ Last(ps[k]) \in allowed
  <2>1. IsWay(allowed, ps[k]) /\ ps[k][1] \in Range(starts)
    BY <1>1 DEF PathsInv
  <2>2. PICK p : p = ps[k]
    OBVIOUS
  <2>3. p \in Seq(allowed) /\ Len(p) # 0
    BY <2>1, <2>2 DEF IsWay
  <2>4. p[Len(p)] \in allowed
    BY <2>3, ElementFacts
  <2>5. QED
    BY <2>1, <2>2, <2>4 DEF Last
<1>4. Len(ps) <= n
  <2> DEFINE m == Len(ps)
             g == [k \in 1 .. m |-> Last(ps[k])]
  <2>1. g \in [1 .. m -> Nodes] /\ \A j, k \in 1 .. m : g[j] = g[k] => j = k
    <3>1. \A k \in 1 .. m : Last(ps[k]) \in Nodes
      BY <1>2, <1>3
    <3>2. \A j, k \in 1 .. m : Last(ps[j]) = Last(ps[k]) => j = k
      BY <1>1, <1>2 DEF PathsInv
    <3>3. QED
      BY <3>1, <3>2
  <2> HIDE DEF g
  <2>2. g \in Injection(1 .. m, Nodes)
    BY <2>1 DEF Injection, IsInjective
  <2>3. IsFiniteSet(Nodes) /\ Nodes = 1 .. n /\ n \in Nat
    BY ProblemFacts
  <2> HIDE DEF m, n
  <2>4. Cardinality(1 .. m) <= Cardinality(Nodes)
    BY <2>2, <2>3, FS_Injection
  <2>5. m \in Nat
    BY <1>2 DEF m
  <2>6. Cardinality(1 .. m) = m /\ Cardinality(1 .. n) = n
    <3>1. \A i \in Nat : Cardinality(1 .. i) = i
      <4>1. ASSUME NEW i \in Nat PROVE Cardinality(1 .. i) = i
        <5>1. Cardinality(1 .. i) = IF 1 > i THEN 0 ELSE i - 1 + 1
          BY FS_Interval
        <5>2. QED
          BY <5>1
      <4>2. QED
        BY <4>1
    <3>2. QED
      BY <2>3, <2>5, <3>1
  <2>7. QED
    BY <2>3, <2>4, <2>6 DEF m
<1>5. Met(ps) \in SUBSET allowed /\ Range(starts) \subseteq Met(ps)
  <2>1. ASSUME NEW x \in Met(ps) PROVE x \in allowed
    BY <1>3, <2>1 DEF Met, Range
  <2>2. Range(starts) \subseteq Met(ps)
    BY <1>1 DEF PathsInv
  <2>3. QED
    BY <2>1, <2>2
<1>6. Closed(allowed, Met(ps))
  <2>1. ASSUME NEW x \in Met(ps) PROVE Out(allowed, x) \subseteq Met(ps)
    <3>1. PICK k \in DOMAIN ps : x = Last(ps[k])
      BY <2>1 DEF Met, Range
    <3>2. n \in Nat
      BY ProblemFacts
    <3>3. k <= n
      <4> HIDE DEF n
      <4>1. QED
        BY <1>2, <1>4, <3>2
    <3>4. QED
      BY <1>1, <3>1, <3>3 DEF PathsInv
  <2>2. QED
    BY <2>1 DEF Closed
<1>7. goal \in Met(ps)
  BY <1>5, <1>6
<1>8. \E p \in Range(ps) : Last(p) = goal
  BY <1>7 DEF Met
<1> DEFINE q == BfsPath(allowed, starts, goal)
<1>9. q \in Range(ps) /\ Last(q) = goal
  BY <1>8 DEF BfsPath, ps
<1> HIDE DEF q
<1>10. IsWay(allowed, q) /\ q[1] \in Range(starts) /\ q[Len(q)] = goal
  BY <1>3, <1>9 DEF Range, Last
<1>11. QED
  BY <1>10 DEF q

\* Tarjan's variables alone determine its invariant.
LEMMA SameTarjan ==
  ASSUME TarjanInv, UNCHANGED <<problem, tarjanVars>>
  PROVE  TarjanInv'
<1>1. UNCHANGED <<problem, view, index, low, stack, calls, sccs>>
  BY DEF tarjanVars
<1>2. /\ Visited' = Visited /\ OnStack' = OnStack
      /\ \A x : Followed(x)' = Followed(x)
      /\ \A S, R : Closed(S, R)' <=> Closed(S, R)
      /\ \A S, v, w : Leads(S, v, w)' <=> Leads(S, v, w)
      /\ \A S, C : IsClass(S, C)' <=> IsClass(S, C)
  <2>1. /\ \A S, v : Out(S, v)' = Out(S, v)
        /\ \A q, v : Induced(q, v)' = Induced(q, v)
    BY <1>1, SameProblem
  <2>2. \A x : Followed(x)' = Followed(x)
    BY <1>1, <2>1 DEF Followed
  <2>3. QED
    BY <1>1, <2>2, SameProblem DEF Visited, OnStack
<1>3. NumbersOnce' /\ StackInOrder' /\ CallsInOrder' /\ FollowedAreMet' /\ FinishedIsClosed'
  BY <1>1, <1>2 DEF TarjanInv, NumbersOnce, StackInOrder, CallsInOrder, FollowedAreMet,
                    FinishedIsClosed
<1>4. CallsLead' /\ LeadToCalls' /\ LowIsLed' /\ LowIsLeast'
  BY <1>1, <1>2 DEF TarjanInv, CallsLead, LeadToCalls, LowIsLed, LowIsLeast
<1>5. PoppedOnce' /\ ClassesOf(Range(view))' /\ FinishedAreListed'
  BY <1>1, <1>2 DEF TarjanInv, PoppedOnce, ClassesOf, FinishedAreListed
<1>6. QED
  BY <1>3, <1>4, <1>5 DEF TarjanInv

(***************************************************************************)
(* The cycle.                                                              *)
(***************************************************************************)
CycleInv == CycleInFound /\ VisitsInFound /\ AllIsVisited

\* CycleInFound, said of a way.
LEMMA CycleIsWay ==
  ASSUME SccTypeOK, CycleInFound, found # <<>>
  PROVE  /\ IsWay(Range(found), cycle) /\ cycle[1] = Root
         /\ CycleEdges = WayEdges(cycle) /\ Last(cycle) \in Range(found)
         /\ Len(cycle) \in Nat \ {0}
<1>1. /\ cycle # <<>> /\ cycle[1] = Root /\ Range(cycle) \subseteq Range(found)
      /\ \A k \in 1 .. Len(cycle) - 1 : cycle[k + 1] \in Range(problem.adj[cycle[k]])
  BY DEF CycleInFound
<1>2. cycle \in Seq(Nodes) /\ Len(cycle) \in Nat \ {0} /\ DOMAIN cycle = 1 .. Len(cycle)
  <2>1. cycle \in Seq(Nodes)
    BY DEF SccTypeOK
  <2>2. QED
    BY <1>1, <2>1, TailFacts, ElementFacts
<1>3. \A k \in 1 .. Len(cycle) : cycle[k] \in Range(found)
  BY <1>1, <1>2 DEF Range
<1>4. cycle \in Seq(Range(found))
  BY <1>2, <1>3
<1>5. \A k \in 1 .. Len(cycle) - 1 : Edge(cycle[k], cycle[k + 1])
  BY <1>1 DEF Edge
<1>6. IsWay(Range(found), cycle)
  BY <1>2, <1>4, <1>5 DEF IsWay
<1>7. Last(cycle) \in Range(found)
  BY <1>2, <1>3 DEF Last
<1>8. QED
  BY <1>1, <1>2, <1>6, <1>7 DEF CycleEdges, WayEdges

\* A way in what was found is of the nodes.
LEMMA FoundFacts ==
  ASSUME SccTypeOK, FoundIsFair, found # <<>>
  PROVE  /\ view = <<>> /\ Fair(Range(found)) /\ Range(found) \in SUBSET Nodes
         /\ \A p : IsWay(Range(found), p) => p \in Seq(Nodes) /\ p # <<>>
         /\ Root \in Range(found)
<1>1. view = <<>> /\ Fair(Range(found))
  BY DEF FoundIsFair
<1>2. Range(found) \in SUBSET Nodes /\ Root \in Range(found)
  <2>1. found \in Seq(Nodes)
    BY DEF SccTypeOK
  <2>2. /\ Len(found) \in Nat \ {0} /\ DOMAIN found = 1 .. Len(found)
        /\ \A k \in 1 .. Len(found) : found[k] \in Nodes
    BY <2>1, TailFacts, ElementFacts
  <2>3. QED
    BY <2>2 DEF Range, Root
<1>3. ASSUME NEW p, IsWay(Range(found), p) PROVE p \in Seq(Nodes) /\ p # <<>>
  <2>1. p \in Seq(Range(found)) /\ Len(p) # 0
    BY <1>3 DEF IsWay
  <2>2. \A k \in 1 .. Len(p) : p[k] \in Nodes
    BY <1>2, <2>1, ElementFacts
  <2>3. QED
    BY <2>1, <2>2
<1>4. QED
  BY <1>1, <1>2, <1>3

\* The cycle goes to any node of what was found.
LEMMA GoToFacts ==
  ASSUME SccTypeOK, FoundIsFair, CycleInFound, found # <<>>, NEW t \in Range(found)
  PROVE  LET q == GoTo(t)
         IN  /\ IsWay(Range(found), q) /\ q[1] = Root /\ q[Len(q)] = t
             /\ Range(cycle) \subseteq Range(q) /\ CycleEdges \subseteq WayEdges(q)
<1> DEFINE S == Range(found)
           v == Last(cycle)
           starts == <<v>>
           p == BfsPath(S, starts, t)
<1>1. IsWay(S, cycle) /\ cycle[1] = Root /\ CycleEdges = WayEdges(cycle) /\ v \in S
  BY CycleIsWay
<1>2. S \in SUBSET Nodes /\ Connected(S) /\ IsProblem(problem)
  BY FoundFacts DEF Fair, SccTypeOK
<1> HIDE DEF S, v
<1>3. starts \in Seq(S) /\ IsInjective(starts) /\ Range(starts) = {v}
  BY <1>1 DEF Range, IsInjective
<1>4. ASSUME NEW R \in SUBSET S, Range(starts) \subseteq R, Closed(S, R) PROVE t \in R
  <2>1. v \in R /\ t \in S
    BY <1>3, <1>4 DEF S
  <2>2. t \in After(S, v)
    BY <1>1, <1>2, <2>1 DEF Connected
  <2>3. Leads(S, v, t)
    BY <2>2 DEF Leads
  <2>4. QED
    BY <1>4, <2>1, <2>3, StaysInClosed
<1> HIDE DEF starts
<1>5. IsWay(S, p) /\ p[1] \in Range(starts) /\ p[Len(p)] = t
  BY <1>2, <1>3, <1>4, BfsFinds
<1>6. p[1] = cycle[Len(cycle)]
  BY <1>3, <1>5 DEF v, Last
<1>7. GoTo(t) = cycle \o Tail(p)
  BY DEF GoTo, S, v, starts
<1> HIDE DEF p
<1>8. GoesOn(S, cycle, p, GoTo(t))
  BY <1>1, <1>5, <1>6, <1>7, JoinedWay
<1>9. QED
  BY <1>1, <1>5, <1>8 DEF GoesOn, S

\* What an extension of the cycle keeps.
LEMMA ExtendedCycle ==
  ASSUME SccTypeOK, TarjanInv, SearchInv, CycleInv, found # <<>>, NEW q,
         IsWay(Range(found), q), q[1] = Root, Extending(q), visits' \in Seq(Seq(Nodes))
  PROVE  /\ SccTypeOK' /\ TarjanInv' /\ SearchInv' /\ CycleInFound'
         /\ CycleEdges' = WayEdges(q) /\ Range(cycle)' = Range(q)
<1>1. cycle' = q /\ UNCHANGED <<problem, tarjanVars, pending, found>>
  BY DEF Extending
<1>2. /\ q \in Seq(Nodes) /\ q # <<>>
  BY FoundFacts DEF SearchInv
<1>3. Nodes' = Nodes /\ UNCHANGED <<view, index, low, stack, calls, sccs>>
      /\ Visited' = Visited
  BY <1>1, SameProblem DEF tarjanVars, Visited
<1>4. SccTypeOK'
  BY <1>1, <1>2, <1>3 DEF SccTypeOK
<1>5. SearchInv'
  BY <1>1, <1>3, OthersKeepSearch
<1>6. CycleInFound'
  <2>1. Range(q) \subseteq Range(found)
    <3>1. q \in Seq(Range(found))
      BY DEF IsWay
    <3>2. QED
      BY <3>1, ElementFacts DEF Range
  <2>2. \A k \in 1 .. Len(q) - 1 : q[k + 1] \in Range(problem.adj[q[k]])
    BY DEF IsWay, Edge
  <2>3. Root' = Root
    BY <1>1 DEF Root
  <2>4. QED
    BY <1>1, <1>2, <2>1, <2>2, <2>3 DEF CycleInFound
<1>7. CycleEdges' = WayEdges(q) /\ Range(cycle)' = Range(q)
  BY <1>1 DEF CycleEdges, WayEdges
<1>8. TarjanInv'
  BY <1>1, <1>3, SameTarjan
<1>9. QED
  BY <1>4, <1>5, <1>6, <1>7, <1>8

\* The first element of a list that is in a set.
LEMMA FirstInFacts ==
  ASSUME NEW T, NEW q \in Seq(T), NEW S, S \cap Range(q) # {}
  PROVE  FirstIn(q, S) \in DOMAIN q /\ q[FirstIn(q, S)] \in S
<1> DEFINE I == {i \in 1 .. Len(q) : q[i] \in S}
<1>1. Len(q) \in Nat /\ DOMAIN q = 1 .. Len(q)
  BY ElementFacts
<1>2. I # {} /\ I \in SUBSET Nat /\ \A i \in I : i \in 1 .. Len(q) /\ q[i] \in S
  BY <1>1 DEF Range
<1>3. FirstIn(q, S) = CHOOSE i \in I : \A k \in I : i <= k
  BY <1>2 DEF FirstIn, SelectInSeq, Min
<1> HIDE DEF I
<1>4. \E i \in I : \A k \in I : i <= k
  BY <1>2, LeastNumber
<1>5. FirstIn(q, S) \in I
  BY <1>3, <1>4
<1>6. QED
  BY <1>1, <1>2, <1>5

\* What Accept sets out to visit.
LEMMA FirstTakenFacts ==
  ASSUME SccTypeOK, PendingConnected, pending # <<>>, NEW f \in Range(problem.fairness),
         TakenEdges(f) # {}
  PROVE  \E v, t \in Members : /\ FirstTaken(f) = <<v, t>> /\ <<v, t>> \in f.taken
                               /\ t \in Range(problem.adj[v])
<1> DEFINE S == {e[1] : e \in TakenEdges(f)}
           v == Component[FirstIn(Component, S)]
           ts == Induced(Component, v)
           R == {t \in Range(ts) : <<v, t>> \in f.taken}
           t == ts[FirstIn(ts, R)]
<1>1. f.taken \subseteq Nodes \X Nodes
  <2> DEFINE U == [strong : BOOLEAN, taken : SUBSET (Nodes \X Nodes), enabled : SUBSET Nodes]
  <2>1. problem.fairness \in Seq(U)
    BY ProblemFacts DEF SccTypeOK
  <2>2. f \in U
    <3> HIDE DEF U
    <3>1. QED
      BY <2>1, ElementFacts DEF Range
  <2>3. QED
    BY <2>2
<1>2. \A e \in TakenEdges(f) : e \in f.taken /\ e[1] \in Members
                               /\ e[2] \in Range(Induced(Component, e[1])) /\ e = <<e[1], e[2]>>
  BY <1>1 DEF TakenEdges
<1>3. Component \in Seq(Nodes) /\ Members = Range(Component) /\ Members \subseteq Nodes
  BY ComponentFacts DEF Members
<1>4. S \cap Range(Component) # {}
  BY <1>2, <1>3
<1>5. v \in S /\ v \in Members
  <2> HIDE DEF S
  <2>1. FirstIn(Component, S) \in DOMAIN Component /\ v \in S
    BY <1>3, <1>4, FirstInFacts
  <2>2. QED
    BY <1>3, <2>1 DEF Range
<1> HIDE DEF v
<1>6. ts \in Seq(Nodes) /\ Range(ts) = Out(Members, v)
  BY <1>3, <1>5, ComponentFacts, InducedFacts DEF SccTypeOK
<1>7. R \cap Range(ts) # {}
  <2>1. PICK e \in TakenEdges(f) : e[1] = v
    BY <1>5
  <2>2. e[2] \in R
    BY <1>2, <2>1
  <2>3. QED
    BY <2>2
<1> HIDE DEF ts
<1>8. t \in R
  <2> HIDE DEF R
  <2>1. QED
    BY <1>6, <1>7, FirstInFacts
<1>9. FirstTaken(f) = <<v, t>>
  BY DEF FirstTaken, v, ts
<1> HIDE DEF t
<1>10. t \in Members /\ t \in Range(problem.adj[v]) /\ <<v, t>> \in f.taken
  BY <1>6, <1>8 DEF Out
<1>11. QED
  BY <1>5, <1>9, <1>10

\* What Accept visits in a set: a node of the set.
LEMMA NodeVisitFacts ==
  ASSUME SccTypeOK, PendingConnected, pending # <<>>, NEW S, S \cap Members # {}
  PROVE  \E v \in Members : NodeVisit(S) = <<v>> /\ v \in S
<1>1. Component \in Seq(Nodes) /\ Members = Range(Component)
  BY ComponentFacts DEF Members
<1>2. FirstIn(Component, S) \in DOMAIN Component /\ Component[FirstIn(Component, S)] \in S
  BY <1>1, FirstInFacts
<1>3. Component[FirstIn(Component, S)] \in Members
  BY <1>1, <1>2 DEF Range
<1>4. QED
  BY <1>2, <1>3 DEF NodeVisit

\* Every visit of an accepted component can be made, and there is one for each condition.
IsVisit(S, v) ==
  /\ v \in Seq(S) /\ Len(v) \in 1 .. 2
  /\ Len(v) = 2 => v[2] \in Range(problem.adj[v[1]])

LEMMA NodeIsVisit ==
  ASSUME NEW S, NEW v \in S, NEW a, a = <<v>>
  PROVE  IsVisit(S, a) /\ a[1] = v
<1>1. a \in Seq(S) /\ a[1] = v
  OBVIOUS
<1>2. Len(a) = 1
  OBVIOUS
<1>3. QED
  BY <1>1, <1>2 DEF IsVisit

LEMMA EdgeIsVisit ==
  ASSUME NEW S, NEW v \in S, NEW t \in S, t \in Range(problem.adj[v]), NEW a, a = <<v, t>>
  PROVE  IsVisit(S, a) /\ a[1] = v
<1>1. a \in Seq(S) /\ a[1] = v /\ a[2] = t
  OBVIOUS
<1>2. Len(a) = 2
  OBVIOUS
<1>3. QED
  BY <1>1, <1>2 DEF IsVisit

LEMMA AcceptFacts ==
  ASSUME SccTypeOK, SearchInv, Accept
  PROVE  /\ visits' \in Seq(Seq(Members))
         /\ \A k \in DOMAIN visits' : IsVisit(Members, visits'[k])
         /\ \A i \in DOMAIN problem.acc : \E k \in DOMAIN visits' :
               visits'[k][1] \in problem.acc[i]
         /\ \A f \in Range(WeakNotTaken) : \E k \in DOMAIN visits' :
               visits'[k][1] \in Disabled(f)
         /\ \A f \in Range(Taken) : \E k \in DOMAIN visits' : visits'[k] \in f.taken
<1> DEFINE A == [i \in DOMAIN problem.acc |-> NodeVisit(problem.acc[i])]
           B == [i \in DOMAIN WeakNotTaken |-> NodeVisit(Disabled(WeakNotTaken[i]))]
           C == [i \in DOMAIN Taken |-> FirstTaken(Taken[i])]
           U == Seq(Members)
<1>1. Admissible /\ pending # <<>> /\ PendingConnected /\ visits' = A \o B \o C
  BY DEF Accept, Examining, SearchInv
<1>2. /\ problem.acc \in Seq(SUBSET Nodes)
      /\ DOMAIN problem.acc = 1 .. Len(problem.acc) /\ Len(problem.acc) \in Nat
  <2>1. problem.acc \in Seq(SUBSET Nodes)
    BY ProblemFacts DEF SccTypeOK
  <2>2. QED
    BY <2>1, ElementFacts
<1>3. /\ DOMAIN WeakNotTaken = 1 .. Len(WeakNotTaken) /\ Len(WeakNotTaken) \in Nat
      /\ DOMAIN Taken = 1 .. Len(Taken) /\ Len(Taken) \in Nat
      /\ Range(Taken) = Range(problem.fairness) \ NotTaken
  <2> DEFINE F == [strong : BOOLEAN, taken : SUBSET (Nodes \X Nodes), enabled : SUBSET Nodes]
             W == {f \in NotTaken : ~f.strong}
             T == Range(problem.fairness) \ NotTaken
  <2>1. problem.fairness \in Seq(F)
    BY ProblemFacts DEF SccTypeOK
  <2> HIDE DEF F
  <2>2. WeakNotTaken \in Seq(F)
    BY <2>1, OnlyFacts DEF WeakNotTaken
  <2>3. Taken \in Seq(F) /\ Range(Taken) = Range(problem.fairness) \cap T
    BY <2>1, OnlyFacts DEF Taken
  <2>4. QED
    BY <2>2, <2>3, ElementFacts
<1>5. ASSUME NEW i \in DOMAIN A
      PROVE  IsVisit(Members, A[i]) /\ A[i][1] \in problem.acc[i]
  <2>1. problem.acc[i] \cap Members # {}
    BY <1>1 DEF Admissible, Accepting
  <2>2. PICK v \in Members : NodeVisit(problem.acc[i]) = <<v>> /\ v \in problem.acc[i]
    BY <1>1, <2>1, NodeVisitFacts
  <2>3. A[i] = <<v>>
    BY <2>2
  <2> HIDE DEF A, B, C
  <2>4. QED
    BY <2>2, <2>3, NodeIsVisit
<1>6. ASSUME NEW i \in DOMAIN B
      PROVE  IsVisit(Members, B[i]) /\ B[i][1] \in Disabled(WeakNotTaken[i])
  <2> DEFINE D == Disabled(WeakNotTaken[i])
  <2>1. D \cap Members # {}
    BY <1>1 DEF Admissible, WeakMet, Disabled
  <2> HIDE DEF D
  <2>2. PICK v \in Members : NodeVisit(D) = <<v>> /\ v \in D
    BY <1>1, <2>1, NodeVisitFacts
  <2>3. B[i] = <<v>>
    BY <2>2 DEF D
  <2> HIDE DEF A, B, C
  <2>4. IsVisit(Members, B[i]) /\ B[i][1] \in D
    BY <2>2, <2>3, NodeIsVisit
  <2>5. QED
    BY <2>4 DEF D
<1>7. ASSUME NEW i \in DOMAIN C
      PROVE  IsVisit(Members, C[i]) /\ C[i] \in Taken[i].taken
  <2>1. PICK f : f = Taken[i]
    OBVIOUS
  <2>2. f \in Range(problem.fairness) /\ TakenEdges(f) # {}
    <3>1. f \in Range(Taken)
      BY <2>1 DEF Range
    <3>2. QED
      BY <1>3, <3>1 DEF NotTaken
  <2>3. PICK v, t \in Members : /\ FirstTaken(f) = <<v, t>> /\ <<v, t>> \in f.taken
                               /\ t \in Range(problem.adj[v])
    BY <1>1, <2>2, FirstTakenFacts
  <2>4. C[i] = <<v, t>>
    BY <2>1, <2>3
  <2> HIDE DEF A, B, C
  <2>5. IsVisit(Members, C[i])
    BY <2>3, <2>4, EdgeIsVisit
  <2>6. C[i] \in f.taken
    BY <2>3, <2>4
  <2>7. QED
    BY <2>1, <2>5, <2>6
<1>8. /\ DOMAIN A = 1 .. Len(problem.acc) /\ DOMAIN B = 1 .. Len(WeakNotTaken)
      /\ DOMAIN C = 1 .. Len(Taken)
  BY <1>2, <1>3
<1>9. A \in Seq(U) /\ B \in Seq(U) /\ C \in Seq(U)
  <2>1. \A S : \A v : IsVisit(S, v) => v \in Seq(S)
    BY DEF IsVisit
  <2>2. A = [i \in DOMAIN A |-> A[i]] /\ B = [i \in DOMAIN B |-> B[i]]
        /\ C = [i \in DOMAIN C |-> C[i]]
    OBVIOUS
  <2>3. \A T : \A n \in Nat : \A q :
            q = [i \in 1 .. n |-> q[i]] /\ (\A i \in 1 .. n : q[i] \in T) => q \in Seq(T)
    OBVIOUS
  <2>4. /\ \A i \in DOMAIN A : A[i] \in U
        /\ \A i \in DOMAIN B : B[i] \in U
        /\ \A i \in DOMAIN C : C[i] \in U
    <3> HIDE DEF A, B, C
    <3>1. QED
      BY <1>5, <1>6, <1>7, <2>1
  <2> HIDE DEF A, B, C, U
  <2>5. A \in Seq(U)
    BY <1>2, <1>8, <2>2, <2>3, <2>4
  <2>6. B \in Seq(U)
    BY <1>3, <1>8, <2>2, <2>3, <2>4
  <2>7. C \in Seq(U)
    BY <1>3, <1>8, <2>2, <2>3, <2>4
  <2>8. QED
    BY <2>5, <2>6, <2>7
<1> HIDE DEF A, B, C, U
<1>10. Range(A \o B \o C) = Range(A) \cup Range(B) \cup Range(C) /\ A \o B \o C \in Seq(U)
  <2>1. A \o B \in Seq(U) /\ Range(A \o B) = Range(A) \cup Range(B)
    BY <1>9, ConcatFacts
  <2> DEFINE AB == A \o B
  <2> HIDE DEF AB
  <2>2. AB \in Seq(U) /\ C \in Seq(U) /\ Range(AB) = Range(A) \cup Range(B)
    BY <1>9, <2>1 DEF AB
  <2>3. AB \o C \in Seq(U) /\ Range(AB \o C) = Range(AB) \cup Range(C)
    <3>1. AB \o C \in Seq(U)
      BY <2>2, ConcatFacts
    <3>2. Range(AB \o C) = Range(AB) \cup Range(C)
      BY <2>2, ConcatFacts
    <3>3. QED
      BY <3>1, <3>2
  <2>4. QED
    BY <2>2, <2>3 DEF AB
<1>11. /\ \A i \in DOMAIN A : \E k \in DOMAIN visits' : visits'[k] = A[i]
       /\ \A i \in DOMAIN B : \E k \in DOMAIN visits' : visits'[k] = B[i]
       /\ \A i \in DOMAIN C : \E k \in DOMAIN visits' : visits'[k] = C[i]
  <2>1. Range(visits') = Range(A) \cup Range(B) \cup Range(C)
    BY <1>1, <1>10
  <2>2. /\ \A i \in DOMAIN A : A[i] \in Range(visits')
        /\ \A i \in DOMAIN B : B[i] \in Range(visits')
        /\ \A i \in DOMAIN C : C[i] \in Range(visits')
    BY <2>1 DEF Range
  <2>3. \A v \in Range(visits') : \E k \in DOMAIN visits' : visits'[k] = v
    BY DEF Range
  <2>4. QED
    BY <2>2, <2>3
<1>12. ASSUME NEW k \in DOMAIN visits' PROVE IsVisit(Members, visits'[k])
  <2>1. visits'[k] \in Range(A) \cup Range(B) \cup Range(C)
    BY <1>1, <1>10 DEF Range
  <2>2. QED
    BY <1>5, <1>6, <1>7, <2>1 DEF Range
<1>13. \A i \in DOMAIN problem.acc : \E k \in DOMAIN visits' : visits'[k][1] \in problem.acc[i]
  BY <1>2, <1>5, <1>8, <1>11
<1>14. ASSUME NEW f \in Range(WeakNotTaken)
       PROVE  \E k \in DOMAIN visits' : visits'[k][1] \in Disabled(f)
  <2>1. PICK i \in DOMAIN WeakNotTaken : f = WeakNotTaken[i]
    BY DEF Range
  <2>2. i \in DOMAIN B
    BY <1>3, <1>8
  <2>3. QED
    BY <1>6, <1>11, <2>1, <2>2
<1>15. ASSUME NEW f \in Range(Taken) PROVE \E k \in DOMAIN visits' : visits'[k] \in f.taken
  <2>1. PICK i \in DOMAIN Taken : f = Taken[i]
    BY DEF Range
  <2>2. i \in DOMAIN C
    BY <1>3, <1>8
  <2>3. QED
    BY <1>7, <1>11, <2>1, <2>2
<1>16. visits' \in Seq(Seq(Members))
  BY <1>1, <1>10 DEF U
<1>17. QED
  BY <1>12, <1>13, <1>14, <1>15, <1>16

\* Accept sets out for what makes the component fair.
LEMMA AcceptKeeps ==
  ASSUME SccTypeOK, TarjanInv, SearchInv, Accept
  PROVE  SccTypeOK' /\ TarjanInv' /\ CycleInv'
<1>1. /\ pending # <<>> /\ PendingConnected /\ Admissible /\ BadStrong = {}
      /\ found' = Component /\ cycle' = <<Component[1]>>
      /\ UNCHANGED <<problem, tarjanVars, pending>>
  BY DEF Accept, Examining, SearchInv
<1>2. Nodes' = Nodes /\ UNCHANGED <<view, index, low, stack, calls, sccs>>
      /\ Visited' = Visited
  BY <1>1, SameProblem DEF tarjanVars, Visited
<1>3. /\ Component \in Seq(Nodes) /\ Component # <<>> /\ Component[1] \in Members
      /\ Members \subseteq Nodes /\ Range(found') = Members /\ Root' = Component[1]
  BY <1>1, ComponentFacts DEF Members, Root
<1>4. /\ visits' \in Seq(Seq(Members))
      /\ \A k \in DOMAIN visits' : IsVisit(Members, visits'[k])
  BY AcceptFacts
<1>5. /\ \A i \in DOMAIN problem.acc : \E k \in DOMAIN visits' : visits'[k][1] \in problem.acc[i]
      /\ \A f \in Range(WeakNotTaken) : \E k \in DOMAIN visits' : visits'[k][1] \in Disabled(f)
      /\ \A f \in Range(Taken) : \E k \in DOMAIN visits' : visits'[k] \in f.taken
  BY AcceptFacts
<1>6. visits' \in Seq(Seq(Nodes)) /\ \A k \in DOMAIN visits' : visits'[k] \in Seq(Members)
  <2>1. \A q : q \in Seq(Members) => q \in Seq(Nodes)
    BY <1>3
  <2> DEFINE U == Seq(Members)
             W == Seq(Nodes)
  <2>2. visits' \in Seq(U) /\ U \subseteq W
    BY <1>4, <2>1
  <2> HIDE DEF U, W
  <2>3. visits' \in Seq(W) /\ \A k \in DOMAIN visits' : visits'[k] \in U
    BY <2>2
  <2>4. QED
    BY <2>3 DEF U, W
<1>7. SccTypeOK'
  <2>1. cycle' \in Seq(Nodes)
    BY <1>1, <1>3
  <2>2. QED
    BY <1>1, <1>2, <1>3, <1>6, <2>1 DEF SccTypeOK
<1>8. TarjanInv'
  BY <1>1, SameTarjan
<1>9. CycleInFound'
  <2> DEFINE c == <<Component[1]>>
  <2>1. c # <<>> /\ c[1] = Component[1] /\ Range(c) = {Component[1]} /\ Len(c) = 1
    BY DEF Range
  <2>2. cycle' = c
    BY <1>1
  <2> HIDE DEF c
  <2>3. 1 .. Len(c) - 1 = {}
    BY <2>1
  <2>4. QED
    BY <1>1, <1>3, <2>1, <2>2, <2>3 DEF CycleInFound
<1>10. VisitsInFound'
  <2>1. ASSUME NEW k \in DOMAIN visits'
        PROVE  /\ Len(visits'[k]) \in 1 .. 2 /\ Range(visits'[k]) \subseteq Members
               /\ Len(visits'[k]) = 2 => visits'[k][2] \in Range(problem.adj[visits'[k][1]])
    <3>1. PICK v : v = visits'[k]
      OBVIOUS
    <3>2. v \in Seq(Members)
      BY <1>6, <3>1
    <3>3. Range(v) \subseteq Members
      BY <3>2, ElementFacts DEF Range
    <3>4. IsVisit(Members, v)
      BY <1>4, <3>1
    <3>5. QED
      BY <3>1, <3>3, <3>4 DEF IsVisit
  <2>2. QED
    BY <1>1, <1>3, <2>1 DEF VisitsInFound
<1>11. AllIsVisited'
  <2>1. \A k \in DOMAIN visits' : visits'[k][1] \in ToVisit' /\ visits'[k] \in Range(visits)'
    BY DEF ToVisit, Range
  <2>2. \A i \in DOMAIN problem.acc : problem.acc[i] \cap ToVisit' # {}
    BY <1>5, <2>1
  <2>3. ASSUME NEW f \in Range(problem.fairness)
        PROVE  \/ f.taken \cap Range(visits)' # {}
               \/ IF f.strong THEN Members \cap f.enabled = {} ELSE ToVisit' \ f.enabled # {}
    <3>1. CASE TakenEdges(f) # {} /\ f \in Range(Taken)
      BY <1>5, <2>1, <3>1
    <3>2. CASE f.strong /\ Members \cap f.enabled = {}
      BY <3>2
    <3>3. CASE ~f.strong /\ Disabled(f) # {} /\ f \in Range(WeakNotTaken)
      <4>1. PICK k \in DOMAIN visits' : visits'[k][1] \in Disabled(f)
        BY <1>5, <3>3
      <4>2. QED
        BY <2>1, <3>3, <4>1 DEF Disabled
    <3>4. QED
      BY <1>1, <3>1, <3>2, <3>3, AcceptedConstraints
  <2>4. QED
    BY <1>1, <1>3, <2>2, <2>3 DEF AllIsVisited
<1>12. QED
  BY <1>7, <1>8, <1>9, <1>10, <1>11 DEF CycleInv

\* The steps that leave the cycle alone.
LEMMA SameCycle ==
  ASSUME CycleInv, UNCHANGED <<problem, witnessVars>>
  PROVE  CycleInv'
<1>1. UNCHANGED <<problem, found, visits, cycle>>
  BY DEF witnessVars
<1>2. Root' = Root /\ CycleEdges' = CycleEdges /\ ToVisit' = ToVisit
      /\ Range(cycle)' = Range(cycle) /\ Range(visits)' = Range(visits)
      /\ Range(found)' = Range(found)
  BY <1>1 DEF Root, CycleEdges, ToVisit
<1>3. CycleInFound'
  BY <1>1, <1>2 DEF CycleInFound, CycleInv
<1>4. VisitsInFound'
  BY <1>1, <1>2 DEF VisitsInFound, CycleInv
<1>5. AllIsVisited'
  BY <1>1, <1>2 DEF AllIsVisited, CycleInv
<1>6. QED
  BY <1>3, <1>4, <1>5 DEF CycleInv

\* The cycle meets, with fewer visits, what it had to.
LEMMA StillVisited ==
  ASSUME AllIsVisited, UNCHANGED <<problem, found>>,
         Range(cycle) \subseteq Range(cycle)', CycleEdges \subseteq CycleEdges',
         ToVisit \subseteq Range(cycle)' \cup ToVisit',
         \A f \in Range(problem.fairness) :
            f.taken \cap Range(visits) \subseteq CycleEdges' \cup Range(visits)'
  PROVE  AllIsVisited'
<1>1. CASE found = <<>>
  BY <1>1 DEF AllIsVisited
<1>2. CASE found # <<>>
  <2>1. \A i \in DOMAIN problem.acc : problem.acc[i] \cap (Range(cycle)' \cup ToVisit') # {}
    BY <1>2 DEF AllIsVisited
  <2>2. ASSUME NEW f \in Range(problem.fairness)
        PROVE  \/ f.taken \cap (CycleEdges' \cup Range(visits)') # {}
               \/ IF f.strong THEN Range(found) \cap f.enabled = {}
                              ELSE (Range(cycle)' \cup ToVisit') \ f.enabled # {}
    BY <1>2 DEF AllIsVisited
  <2>3. QED
    BY <2>1, <2>2 DEF AllIsVisited
<1>3. QED
  BY <1>1, <1>2

\* Visit goes to the next node or edge and over it.
LEMMA VisitKeeps ==
  ASSUME SccTypeOK, TarjanInv, SearchInv, CycleInv, Visit
  PROVE  SccTypeOK' /\ TarjanInv' /\ SearchInv' /\ CycleInv'
<1> DEFINE S == Range(found)
           h == Head(visits)
           c == GoTo(h[1])
           q == c \o Tail(h)
<1>1. visits # <<>> /\ visits' = Tail(visits) /\ Extending(q)
  BY DEF Visit
<1>2. /\ h = visits[1] /\ 1 \in DOMAIN visits /\ visits' \in Seq(Seq(Nodes))
      /\ h \in Seq(Nodes) /\ Range(visits) = {h} \cup Range(visits)'
      /\ DOMAIN visits' = 1 .. Len(visits) - 1 /\ Len(visits) \in Nat
      /\ DOMAIN visits = 1 .. Len(visits)
      /\ \A k \in DOMAIN visits' : visits'[k] = visits[k + 1]
  <2> DEFINE U == Seq(Nodes)
  <2>1. visits \in Seq(U)
    BY DEF SccTypeOK
  <2> HIDE DEF U
  <2>2. /\ h \in U /\ Tail(visits) \in Seq(U) /\ Len(visits) \in Nat \ {0}
        /\ Len(Tail(visits)) = Len(visits) - 1
        /\ \A k \in 1 .. Len(visits) - 1 : Tail(visits)[k] = visits[k + 1]
        /\ h = visits[1] /\ Range(visits) = {h} \cup Range(Tail(visits))
    BY <1>1, <2>1, TailFacts
  <2>3. DOMAIN visits = 1 .. Len(visits) /\ DOMAIN Tail(visits) = 1 .. Len(Tail(visits))
    BY <2>1, <2>2, ElementFacts
  <2>4. QED
    BY <1>1, <2>2, <2>3 DEF U
<1> HIDE DEF h
<1>3. /\ Len(h) \in 1 .. 2 /\ Range(h) \subseteq S
      /\ Len(h) = 2 => h[2] \in Range(problem.adj[h[1]])
  BY <1>2 DEF CycleInv, VisitsInFound
<1>4. h \in Seq(S) /\ h[1] \in S /\ DOMAIN h = 1 .. Len(h)
  <2>1. DOMAIN h = 1 .. Len(h) /\ Len(h) \in Nat
    BY <1>2, ElementFacts
  <2>2. \A k \in 1 .. Len(h) : h[k] \in S
    BY <1>3, <2>1 DEF Range
  <2>3. h = [k \in 1 .. Len(h) |-> h[k]]
    BY <1>2
  <2>4. 1 \in 1 .. Len(h)
    BY <1>3
  <2> HIDE DEF S
  <2>5. h \in Seq(S)
    BY <2>1, <2>2, <2>3
  <2>6. QED
    BY <2>1, <2>2, <2>4, <2>5
<1>5. found # <<>>
  BY <1>4 DEF Range
<1>6. /\ IsWay(S, c) /\ c[1] = Root /\ c[Len(c)] = h[1]
      /\ Range(cycle) \subseteq Range(c) /\ CycleEdges \subseteq WayEdges(c)
  BY <1>4, <1>5, GoToFacts DEF SearchInv, CycleInv
<1>7. IsWay(S, h)
  <2>1. \A k \in 1 .. Len(h) - 1 : k = 1 /\ Len(h) = 2
    <3>1. \A n \in 1 .. 2 : \A k \in 1 .. n - 1 : k = 1 /\ n = 2
      OBVIOUS
    <3>2. QED
      BY <1>3, <3>1
  <2>2. Len(h) # 0
    <3>1. 0 \notin 1 .. 2
      OBVIOUS
    <3>2. QED
      BY <1>3, <3>1
  <2>3. \A k \in 1 .. Len(h) - 1 : Edge(h[k], h[k + 1])
    BY <1>3, <2>1 DEF Edge
  <2>4. QED
    BY <1>4, <2>2, <2>3 DEF IsWay
<1> HIDE DEF c
<1>8. GoesOn(S, c, h, q)
  BY <1>6, <1>7, JoinedWay
<1>9. /\ IsWay(S, q) /\ q[1] = Root /\ Range(c) \subseteq Range(q)
      /\ WayEdges(c) \subseteq WayEdges(q) /\ WayEdges(h) \subseteq WayEdges(q)
  BY <1>6, <1>8 DEF GoesOn
<1> HIDE DEF q
<1>10. /\ SccTypeOK' /\ TarjanInv' /\ SearchInv' /\ CycleInFound'
       /\ CycleEdges' = WayEdges(q) /\ Range(cycle)' = Range(q)
       /\ UNCHANGED <<problem, found>>
  BY <1>1, <1>2, <1>5, <1>9, ExtendedCycle DEF S, Extending
<1>11. VisitsInFound'
  <2>1. \A k \in DOMAIN visits' : k + 1 \in DOMAIN visits
    BY <1>2
  <2>2. QED
    BY <1>2, <1>10, <2>1 DEF VisitsInFound, CycleInv
<1>12. Range(cycle) \subseteq Range(cycle)' /\ CycleEdges \subseteq CycleEdges'
  BY <1>6, <1>9, <1>10
<1>13. h[1] \in Range(cycle)'
  <2>1. c \in Seq(S) /\ c # <<>>
    BY <1>6 DEF IsWay
  <2> HIDE DEF S
  <2>2. Len(c) \in Nat /\ DOMAIN c = 1 .. Len(c) /\ Len(c) # 0
    BY <2>1
  <2>3. Len(c) \in DOMAIN c
    BY <2>2
  <2>4. QED
    BY <1>6, <1>9, <1>10, <2>3 DEF Range
<1>14. ToVisit \subseteq Range(cycle)' \cup ToVisit'
  <2>1. ASSUME NEW k \in DOMAIN visits, k # 1 PROVE visits[k][1] \in ToVisit'
    <3>1. k - 1 \in 1 .. Len(visits) - 1 /\ (k - 1) + 1 = k
      <4>1. Len(visits) \in Nat /\ k \in 1 .. Len(visits)
        BY <1>2
      <4>2. QED
        BY <2>1, <4>1
    <3>2. k - 1 \in DOMAIN visits' /\ visits'[k - 1] = visits[k]
      BY <1>2, <3>1
    <3>3. QED
      BY <3>2 DEF ToVisit
  <2>2. QED
    BY <1>2, <1>13, <2>1 DEF ToVisit
<1>15. ASSUME NEW f \in Range(problem.fairness)
       PROVE  f.taken \cap Range(visits) \subseteq CycleEdges' \cup Range(visits)'
  <2>1. ASSUME h \in f.taken PROVE h \in WayEdges(q)
    <3>1. f.taken \subseteq Nodes \X Nodes
      <4> DEFINE U == [strong : BOOLEAN, taken : SUBSET (Nodes \X Nodes),
                       enabled : SUBSET Nodes]
      <4>1. problem.fairness \in Seq(U)
        BY ProblemFacts DEF SccTypeOK
      <4>2. f \in U
        <5> HIDE DEF U
        <5>1. QED
          BY <4>1, ElementFacts DEF Range
      <4>3. QED
        BY <4>2
    <3>2. PICK a \in Nodes, b \in Nodes : h = <<a, b>>
      BY <2>1, <3>1
    <3>3. Len(h) = 2 /\ h[1] = a /\ h[2] = b
      BY <3>2
    <3>4. <<h[1], h[2]>> \in WayEdges(h)
      BY <3>3 DEF WayEdges
    <3>5. QED
      BY <1>9, <3>2, <3>3, <3>4
  <2>2. QED
    BY <1>2, <1>10, <2>1
<1>16. AllIsVisited'
  BY <1>10, <1>12, <1>14, <1>15, StillVisited DEF CycleInv
<1>17. QED
  BY <1>10, <1>11, <1>16 DEF CycleInv

\* A longer way meets what has been met.
LEMMA ExtendedKeeps ==
  ASSUME SccTypeOK, TarjanInv, SearchInv, CycleInv, found # <<>>, NEW q,
         IsWay(Range(found), q), q[1] = Root, Extending(q), UNCHANGED visits,
         Range(cycle) \subseteq Range(q), CycleEdges \subseteq WayEdges(q)
  PROVE  SccTypeOK' /\ TarjanInv' /\ SearchInv' /\ CycleInv'
<1>1. visits' \in Seq(Seq(Nodes))
  BY DEF SccTypeOK
<1>2. /\ SccTypeOK' /\ TarjanInv' /\ SearchInv' /\ CycleInFound'
      /\ CycleEdges' = WayEdges(q) /\ Range(cycle)' = Range(q)
      /\ UNCHANGED <<problem, found>>
  BY <1>1, ExtendedCycle DEF Extending
<1>3. VisitsInFound'
  BY <1>2 DEF VisitsInFound, CycleInv
<1>4. ToVisit' = ToVisit /\ Range(visits)' = Range(visits)
  BY DEF ToVisit
<1>5. AllIsVisited'
  BY <1>2, <1>4, StillVisited DEF CycleInv
<1>6. QED
  BY <1>2, <1>3, <1>5 DEF CycleInv

LEMMA CloseCycleKeeps ==
  ASSUME SccTypeOK, TarjanInv, SearchInv, CycleInv, CloseCycle
  PROVE  SccTypeOK' /\ TarjanInv' /\ SearchInv' /\ CycleInv'
<1>1. Len(cycle) > 1 /\ Extending(GoTo(Root)) /\ UNCHANGED visits
  BY DEF CloseCycle
<1>2. found # <<>>
  BY <1>1 DEF CycleInv, CycleInFound
<1>3. Root \in Range(found)
  BY <1>2, FoundFacts DEF SearchInv
<1> DEFINE q == GoTo(Root)
<1>4. /\ IsWay(Range(found), q) /\ q[1] = Root
      /\ Range(cycle) \subseteq Range(q) /\ CycleEdges \subseteq WayEdges(q)
  BY <1>2, <1>3, GoToFacts DEF SearchInv, CycleInv
<1> HIDE DEF q
<1>5. QED
  BY <1>1, <1>2, <1>4, ExtendedKeeps DEF q

LEMMA ForceStepKeeps ==
  ASSUME SccTypeOK, TarjanInv, SearchInv, CycleInv, ForceStep
  PROVE  SccTypeOK' /\ TarjanInv' /\ SearchInv' /\ CycleInv'
<1> DEFINE S == Range(found)
           v == Last(cycle)
           t == Head(Induced(found, v))
           q == Append(cycle, t)
<1>1. Len(cycle) = 1 /\ Extending(q) /\ UNCHANGED visits
  BY DEF ForceStep
<1>2. found # <<>>
  BY <1>1 DEF CycleInv, CycleInFound
<1>3. /\ IsWay(S, cycle) /\ cycle[1] = Root /\ CycleEdges = WayEdges(cycle) /\ v \in S
      /\ Len(cycle) \in Nat \ {0}
  BY <1>2, CycleIsWay DEF CycleInv
<1>4. v = cycle[Len(cycle)]
  BY DEF Last
<1>5. Fair(S) /\ S \in SUBSET Nodes
  BY <1>2, FoundFacts DEF SearchInv
<1> HIDE DEF v
<1>6. Induced(found, v) \in Seq(Nodes) /\ Range(Induced(found, v)) = Out(S, v)
  BY <1>3, <1>5, InducedFacts DEF SccTypeOK
<1>7. Out(S, v) # {}
  <2>1. SUFFICES ASSUME Out(S, v) = {} PROVE FALSE
    OBVIOUS
  <2>2. v \in After(S, v)
    BY <1>3, <1>5 DEF Fair, Connected
  <2>3. Closed(S, {})
    BY DEF Closed
  <2>4. QED
    BY <1>3, <2>1, <2>2, <2>3, AfterFacts
<1>8. t \in S /\ Edge(v, t)
  <2>1. Induced(found, v) # <<>>
    <3>1. \A r : r = <<>> => Range(r) = {}
      BY DEF Range
    <3>2. QED
      BY <1>6, <1>7, <3>1
  <2>2. t \in Range(Induced(found, v))
    BY <1>6, <2>1, TailFacts
  <2>3. QED
    BY <1>6, <2>2 DEF Out, Edge
<1> HIDE DEF t, S
<1>9. /\ IsWay(S, q) /\ q[1] = Root
      /\ Range(cycle) \subseteq Range(q) /\ CycleEdges \subseteq WayEdges(q)
  BY <1>3, <1>4, <1>8, LongerWay
<1> HIDE DEF q
<1>10. QED
  BY <1>1, <1>2, <1>9, ExtendedKeeps DEF S

\* The steps of Tarjan's algorithm.
LEMMA TarjanStepKeeps ==
  ASSUME SccInv, NextRoot \/ Descend \/ LowerLink \/ SkipChild \/ Retreat
  PROVE  SccInv'
<1>1. SccTypeOK /\ TarjanInv /\ SearchInv /\ CycleInv
  BY DEF SccInv, SearchInv, CycleInv
<1>2. UNCHANGED <<problem, view, pending, witnessVars>>
  BY DEF NextRoot, Descend, LowerLink, SkipChild, Retreat, Discover
<1>3. SccTypeOK' /\ TarjanInv'
  <2>1. CASE NextRoot
    BY <1>1, <2>1, RootMeets, MetKeepsTypes, MetKeepsTarjan
  <2>2. CASE Descend
    BY <1>1, <2>2, DescendMeets, MetKeepsTypes, MetKeepsTarjan
  <2>3. CASE LowerLink \/ SkipChild
    BY <1>1, <2>3, PassedKeepsTypes, PassedKeepsTarjan
  <2>4. CASE Retreat
    BY <1>1, <2>4, RetreatKeepsTypes, InnerRetreatKeepsTarjan, RootRetreatKeepsTarjan
  <2>5. QED
    BY <2>1, <2>2, <2>3, <2>4
<1>4. SearchInv'
  BY <1>1, <1>2, OthersKeepSearch DEF witnessVars
<1>5. CycleInv'
  BY <1>1, <1>2, SameCycle
<1>6. QED
  BY <1>3, <1>4, <1>5 DEF SccInv, SearchInv, CycleInv

LEMMA DecomposedKeeps ==
  ASSUME SccInv, Decomposed
  PROVE  SccInv'
<1>1. SccTypeOK /\ TarjanInv /\ SearchInv /\ CycleInv
  BY DEF SccInv, SearchInv, CycleInv
<1>2. /\ pending' = sccs \o pending /\ StartTarjan(<<>>)
      /\ UNCHANGED <<problem, found, visits, cycle>>
  BY DEF Decomposed, witnessVars
<1>3. pending' \in Seq(Seq(Nodes))
  <2> DEFINE U == Seq(Nodes)
  <2>1. sccs \in Seq(U) /\ pending \in Seq(U)
    BY <1>1 DEF SccTypeOK
  <2> HIDE DEF U
  <2>2. pending' \in Seq(U)
    BY <1>2, <2>1, ConcatFacts
  <2>3. QED
    BY <2>2 DEF U
<1>4. <<>> \in Seq(Nodes) /\ IsInjective(<<>>)
  BY DEF IsInjective
<1>5. found' \in Seq(Nodes) /\ visits' \in Seq(Seq(Nodes)) /\ cycle' \in Seq(Nodes)
  BY <1>1, <1>2 DEF SccTypeOK
<1>6. SccTypeOK' /\ TarjanInv'
  BY <1>1, <1>2, <1>3, <1>4, <1>5, StartIsTarjan
<1>7. SearchInv'
  BY <1>1, DecomposedKeepsSearch
<1>8. CycleInv'
  BY <1>1, <1>2, SameCycle DEF witnessVars
<1>9. QED
  BY <1>6, <1>7, <1>8 DEF SccInv, SearchInv, CycleInv

\* The steps that examine a component.
LEMMA RejectKeeps ==
  ASSUME SccInv, Reject
  PROVE  SccInv'
<1>1. SccTypeOK /\ TarjanInv /\ SearchInv /\ CycleInv
  BY DEF SccInv, SearchInv, CycleInv
<1>2. /\ pending # <<>> /\ PendingConnected /\ pending' = Tail(pending)
      /\ UNCHANGED <<problem, tarjanVars, witnessVars>>
  BY <1>1 DEF Reject, Examining, SearchInv
<1>3. SccTypeOK'
  <2>1. pending' \in Seq(Seq(Nodes))
    BY <1>1, <1>2, ComponentFacts
  <2>2. /\ Nodes' = Nodes /\ UNCHANGED <<view, index, low, stack, calls, sccs>>
        /\ Visited' = Visited
    BY <1>2, SameProblem DEF tarjanVars, Visited
  <2>3. QED
    BY <1>1, <1>2, <2>1, <2>2 DEF SccTypeOK, witnessVars
<1>4. TarjanInv'
  BY <1>1, <1>2, SameTarjan
<1>5. SearchInv'
  BY <1>1, RejectKeepsSearch
<1>6. CycleInv'
  BY <1>1, <1>2, SameCycle
<1>7. QED
  BY <1>3, <1>4, <1>5, <1>6 DEF SccInv, SearchInv, CycleInv

LEMMA RefineKeeps ==
  ASSUME SccInv, Refine
  PROVE  SccInv'
<1>1. SccTypeOK /\ TarjanInv /\ SearchInv /\ CycleInv
  BY DEF SccInv, SearchInv, CycleInv
<1>2. /\ pending # <<>> /\ PendingConnected /\ pending' = Tail(pending)
      /\ StartTarjan(Refined) /\ UNCHANGED <<problem, found, visits, cycle>>
  BY <1>1 DEF Refine, Examining, SearchInv, witnessVars
<1>3. pending' \in Seq(Seq(Nodes))
  BY <1>1, <1>2, ComponentFacts
<1>4. Refined \in Seq(Nodes) /\ IsInjective(Refined)
  <2>1. Component \in Seq(Nodes) /\ IsInjective(Component)
    BY <1>1, <1>2, ComponentFacts
  <2>2. QED
    BY <2>1, OnlyFacts DEF Refined
<1>5. found' \in Seq(Nodes) /\ visits' \in Seq(Seq(Nodes)) /\ cycle' \in Seq(Nodes)
  BY <1>1, <1>2 DEF SccTypeOK
<1>6. SccTypeOK' /\ TarjanInv'
  BY <1>1, <1>2, <1>3, <1>4, <1>5, StartIsTarjan
<1>7. SearchInv'
  BY <1>1, RefineKeepsSearch
<1>8. CycleInv'
  BY <1>1, <1>2, SameCycle DEF witnessVars
<1>9. QED
  BY <1>6, <1>7, <1>8 DEF SccInv, SearchInv, CycleInv

LEMMA SccInvHoldsFirst == SccInit => SccInv
<1>1. SUFFICES ASSUME SccInit PROVE SccInv
  OBVIOUS
<1>2. /\ problem \in Problems /\ view = [i \in DOMAIN problem.adj |-> i]
      /\ index = Empty /\ low = Empty /\ stack = <<>> /\ calls = <<>> /\ sccs = <<>>
      /\ pending = <<>> /\ found = <<>> /\ visits = <<>> /\ cycle = <<>>
  BY <1>1 DEF SccInit, StartSearch
<1>3. IsProblem(problem)
  BY <1>2, ProblemAssumption
<1>4. Nodes = 1 .. Len(problem.adj) /\ Len(problem.adj) \in Nat
  BY <1>3, ProblemFacts
<1>5. view \in Seq(Nodes) /\ IsInjective(view) /\ Range(view) = Nodes
  <2>1. view = [i \in 1 .. Len(problem.adj) |-> i]
    BY <1>2, <1>4 DEF Nodes
  <2>2. view \in Seq(Nodes)
    BY <1>4, <2>1
  <2>3. IsInjective(view) /\ Range(view) = Nodes
    BY <1>4, <2>1 DEF IsInjective, Range
  <2>4. QED
    BY <2>2, <2>3
<1>6. Visited = {} /\ OnStack = {} /\ Cardinality(Visited) = 0
  BY <1>2, FS_EmptySet DEF Visited, OnStack, Empty, Range
<1>7. SccTypeOK
  <2>1. index \in [Visited -> Nat] /\ low \in [Visited -> Nat]
    BY <1>2, <1>6 DEF Empty
  <2>2. \A S : <<>> \in Seq(S)
    OBVIOUS
  <2>3. QED
    BY <1>2, <1>3, <1>5, <1>6, <2>1, <2>2 DEF SccTypeOK
<1>8. DOMAIN <<>> = {}
  OBVIOUS
<1>9. TarjanInv
  <2>1. NumbersOnce
    BY <1>2, <1>6 DEF NumbersOnce, IsInjective, Visited
  <2>2. StackInOrder /\ CallsInOrder /\ FollowedAreMet /\ FinishedIsClosed
    BY <1>2, <1>6, <1>8 DEF StackInOrder, CallsInOrder, FollowedAreMet, FinishedIsClosed, Closed
  <2>3. CallsLead /\ LeadToCalls /\ LowIsLed /\ LowIsLeast
    BY <1>2, <1>6, <1>8 DEF CallsLead, LeadToCalls, LowIsLed, LowIsLeast
  <2>4. PoppedOnce /\ ClassesOf(Range(view)) /\ FinishedAreListed
    BY <1>2, <1>6, <1>8 DEF PoppedOnce, ClassesOf, FinishedAreListed
  <2>5. QED
    BY <2>1, <2>2, <2>3, <2>4 DEF TarjanInv
<1>10. PendingConnected /\ NoneDropped /\ FoundIsFair
  BY <1>2, <1>5, <1>8 DEF PendingConnected, NoneDropped, FoundIsFair
<1>11. CycleInFound /\ VisitsInFound /\ AllIsVisited
  BY <1>2, <1>8 DEF CycleInFound, VisitsInFound, AllIsVisited
<1>12. QED
  BY <1>7, <1>9, <1>10, <1>11 DEF SccInv

(***************************************************************************)
(* The theorems.                                                           *)
(***************************************************************************)
LEMMA SccInvIsKept ==
  SccInv /\ [SccStep \/ WitnessStep]_sccVars => SccInv'
<1>1. SUFFICES ASSUME SccInv, [SccStep \/ WitnessStep]_sccVars PROVE SccInv'
  OBVIOUS
<1>2. SccTypeOK /\ TarjanInv /\ SearchInv /\ CycleInv
  BY <1>1 DEF SccInv, SearchInv, CycleInv
<1>3. CASE NextRoot \/ Descend \/ LowerLink \/ SkipChild \/ Retreat
  BY <1>1, <1>3, TarjanStepKeeps
<1>4. CASE Decomposed
  BY <1>1, <1>4, DecomposedKeeps
<1>5. CASE Reject
  BY <1>1, <1>5, RejectKeeps
<1>6. CASE Refine
  BY <1>1, <1>6, RefineKeeps
<1>7. CASE Accept
  BY <1>2, <1>7, AcceptKeeps, AcceptKeepsSearch DEF SccInv, SearchInv, CycleInv
<1>8. CASE Visit
  BY <1>2, <1>8, VisitKeeps DEF SccInv, SearchInv, CycleInv
<1>9. CASE ForceStep
  BY <1>2, <1>9, ForceStepKeeps DEF SccInv, SearchInv, CycleInv
<1>10. CASE CloseCycle
  BY <1>2, <1>10, CloseCycleKeeps DEF SccInv, SearchInv, CycleInv
<1>11. CASE UNCHANGED sccVars
  <2>1. UNCHANGED <<problem, tarjanVars, pending, witnessVars>>
        /\ UNCHANGED <<view, index, low, stack, calls, sccs, found, visits, cycle>>
    BY <1>11 DEF sccVars, tarjanVars, witnessVars
  <2>2. Nodes' = Nodes /\ Visited' = Visited
    BY <2>1 DEF Nodes, Visited
  <2>3. SccTypeOK'
    BY <1>2, <2>1, <2>2 DEF SccTypeOK
  <2>4. TarjanInv' /\ SearchInv' /\ CycleInv'
    BY <1>2, <2>1, SameTarjan, OthersKeepSearch, SameCycle
  <2>5. QED
    BY <2>3, <2>4 DEF SccInv, SearchInv, CycleInv
<1>12. QED
  BY <1>1, <1>3, <1>4, <1>5, <1>6, <1>7, <1>8, <1>9, <1>10, <1>11 DEF SccStep, WitnessStep

THEOREM SccInvariance == SccSpec => []SccInv
BY SccInvHoldsFirst, SccInvIsKept, PTL DEF SccSpec

THEOREM SccTypeCorrectness == SccSpec => []SccTypeOK
<1>1. SccInv => SccTypeOK
  BY DEF SccInv
<1>2. QED
  BY <1>1, SccInvariance, PTL

THEOREM ComponentsAreMaximalAlways == SccSpec => []ComponentsAreMaximal
<1>1. SccInv => ComponentsAreMaximal
  BY DEF SccInv, TarjanInv, ComponentsAreMaximal
<1>2. QED
  BY <1>1, SccInvariance, PTL

THEOREM FoundIffFairAlways == SccSpec => []FoundIffFair
<1>1. SccInv => FoundIffFair
  <2>1. SUFFICES ASSUME SccInv, SearchDone
                 PROVE  CycleClosed <=> \E S \in SUBSET Nodes : Fair(S)
    BY DEF FoundIffFair
  <2>2. CASE CycleClosed
    <3>1. found # <<>> /\ SccTypeOK /\ FoundIsFair
      BY <2>1, <2>2 DEF SccInv, CycleClosed
    <3>2. Fair(Range(found)) /\ Range(found) \in SUBSET Nodes
      BY <3>1, FoundFacts
    <3>3. QED
      BY <2>2, <3>2
  <2>3. CASE NoneFound
    <3>1. view = <<>> /\ found = <<>> /\ pending = <<>>
      BY <2>3 DEF NoneFound
    <3>2. ~CycleClosed
      BY <3>1 DEF CycleClosed
    <3>3. ASSUME NEW S \in SUBSET Nodes, Fair(S) PROVE FALSE
      <4>1. S # {}
        BY <3>3 DEF Fair
      <4>2. Range(view) = {} /\ DOMAIN pending = {}
        BY <3>1 DEF Range
      <4>3. QED
        BY <2>1, <3>1, <3>3, <4>1, <4>2 DEF SccInv, NoneDropped
    <3>4. QED
      BY <3>2, <3>3
  <2>4. QED
    BY <2>1, <2>2, <2>3 DEF SearchDone
<1>2. QED
  BY <1>1, SccInvariance, PTL

\* The nodes of the lasso: the path, whose last node begins the cycle, and the cycle.
LEMMA LassoShape ==
  ASSUME NEW T, NEW p, NEW c, IsWay(T, p), IsWay(T, c),
         p[Len(p)] = c[1], Len(c) > 1, c[Len(c)] = c[1]
  PROVE  LET q == p \o SubSeq(c, 2, Len(c) - 1)
         IN  /\ Len(p) \in Nat \ {0} /\ Len(c) \in Nat \ {0}
             /\ Len(q) = Len(p) + Len(c) - 2
             /\ \A k \in 1 .. Len(p) : q[k] = p[k]
             /\ \A k \in 1 .. Len(c) - 1 : q[Len(p) + k - 1] = c[k]
<1> DEFINE d == SubSeq(c, 2, Len(c) - 1)
           q == p \o d
<1>1. p \in Seq(T) /\ c \in Seq(T) /\ Len(p) \in Nat \ {0} /\ Len(c) \in Nat \ {0}
  BY ElementFacts DEF IsWay
<1>2. d \in Seq(T) /\ Len(d) = Len(c) - 2 /\ \A k \in 1 .. Len(c) - 2 : d[k] = c[k + 1]
  <2>1. PICK n \in Nat : n = Len(c) - 1 /\ n <= Len(c) /\ 1 <= n /\ n - 1 = Len(c) - 2
    <3>1. \A l \in Nat : l > 1 => l - 1 \in Nat /\ l - 1 <= l /\ 1 <= l - 1
                                 /\ (l - 1) - 1 = l - 2
      OBVIOUS
    <3>2. QED
      BY <1>1, <3>1
  <2> DEFINE part == SubSeq(c, 1 + 1, n)
  <2>2. part \in Seq(T) /\ Len(part) = n - 1 /\ \A k \in 1 .. n - 1 : part[k] = c[k + 1]
    BY <1>1, <2>1, PartFacts
  <2>3. d = part
    BY <2>1
  <2> HIDE DEF d, part
  <2>4. QED
    BY <2>1, <2>2, <2>3
<1> HIDE DEF d
<1>3. /\ Len(q) = Len(p) + Len(d)
      /\ \A k \in 1 .. Len(p) : q[k] = p[k]
      /\ \A k \in 1 .. Len(d) : q[Len(p) + k] = d[k]
  <2>1. p \in Seq(T) /\ d \in Seq(T)
    BY <1>1, <1>2
  <2>2. QED
    BY <2>1, ConcatFacts
<1> HIDE DEF q
<1>4. ASSUME NEW k \in 1 .. Len(c) - 1 PROVE q[Len(p) + k - 1] = c[k]
  <2>1. CASE k = 1
    <3>1. Len(p) + k - 1 = Len(p) /\ Len(p) \in 1 .. Len(p)
      BY <1>1, <2>1
    <3>2. QED
      BY <1>3, <2>1, <3>1
  <2>2. CASE k # 1
    <3>1. k - 1 \in 1 .. Len(c) - 2 /\ Len(p) + (k - 1) = Len(p) + k - 1 /\ (k - 1) + 1 = k
      BY <1>1, <2>2
    <3>2. q[Len(p) + (k - 1)] = d[k - 1] /\ d[k - 1] = c[(k - 1) + 1]
      BY <1>2, <1>3, <3>1
    <3>3. QED
      BY <3>1, <3>2
  <2>3. QED
    BY <2>1, <2>2
<1>5. Len(q) = Len(p) + Len(c) - 2
  BY <1>1, <1>2, <1>3
<1>6. QED
  BY <1>1, <1>3, <1>4, <1>5 DEF q, d

\* The path to the cycle begins in an initial node.
LEMMA PrefixFound ==
  ASSUME SccTypeOK, FoundIsFair, found # <<>>
  PROVE  IsWay(Nodes, Prefix) /\ Prefix[1] \in Range(problem.init) /\ Prefix[Len(Prefix)] = Root
<1>1. IsProblem(problem)
  BY DEF SccTypeOK
<1>2. problem.init \in Seq(Nodes) /\ IsInjective(problem.init)
  BY <1>1 DEF IsProblem, Nodes
<1>3. Root \in Nodes
  BY FoundFacts
<1>4. ASSUME NEW R \in SUBSET Nodes, Range(problem.init) \subseteq R, Closed(Nodes, R)
      PROVE  Root \in R
  <2>1. ASSUME NEW v \in R PROVE Range(problem.adj[v]) \subseteq R
    <3>1. Range(problem.adj[v]) \subseteq Nodes
      <4>1. problem.adj[v] \in Seq(Nodes)
        BY <1>1, ProblemFacts
      <4>2. QED
        BY <4>1, ElementFacts DEF Range
    <3>2. QED
      BY <1>4, <3>1 DEF Closed, Out
  <2>2. R = Nodes
    BY <1>1, <1>4, <2>1 DEF IsProblem, Nodes
  <2>3. QED
    BY <1>3, <2>2
<1> DEFINE p == BfsPath(Nodes, problem.init, Root)
<1>5. IsWay(Nodes, p) /\ p[1] \in Range(problem.init) /\ p[Len(p)] = Root
  BY <1>1, <1>2, <1>4, BfsFinds
<1>6. Prefix = p
  BY DEF Prefix, Nodes
<1>7. QED
  BY <1>5, <1>6

THEOREM LassoIsFairAlways == SccSpec => []LassoIsFair
<1>1. SccInv => LassoIsFair
  <2>1. SUFFICES ASSUME SccInv, CycleClosed PROVE LassoIsFair
    BY DEF LassoIsFair
  <2> DEFINE S == Range(found)
             p == Prefix
             m == Len(p)
             c == cycle
             q == p \o SubSeq(c, 2, Len(c) - 1)
             n == Len(q)
             after == [i \in 1 .. n |-> q[IF i < n THEN i + 1 ELSE m]]
             loop == {q[i] : i \in m .. n}
             steps == {<<q[i], after[i]>> : i \in m .. n}
  <2>2. /\ found # <<>> /\ visits = <<>> /\ Len(c) > 1 /\ c[Len(c)] = Root
        /\ SccTypeOK /\ FoundIsFair /\ CycleInFound /\ AllIsVisited
    BY <2>1 DEF CycleClosed, SccInv, Last
  <2>3. IsWay(Nodes, p) /\ p[1] \in Range(problem.init) /\ p[m] = Root
    BY <2>2, PrefixFound
  <2>4. IsWay(S, c) /\ c[1] = Root /\ CycleEdges = WayEdges(c) /\ Range(c) \subseteq S
    BY <2>2, CycleIsWay DEF CycleInFound
  <2>5. IsWay(Nodes, c)
    BY <2>2, <2>4, FoundFacts DEF IsWay
  <2>6. /\ m \in Nat \ {0} /\ Len(c) \in Nat \ {0} /\ n = m + Len(c) - 2
        /\ \A k \in 1 .. m : q[k] = p[k]
        /\ \A k \in 1 .. Len(c) - 1 : q[m + k - 1] = c[k]
    <3> HIDE DEF p, c
    <3>1. QED
      BY <2>2, <2>3, <2>4, <2>5, LassoShape
  <2> HIDE DEF S, p, m, c, q, n
  <2>7. ASSUME NEW k \in 1 .. Len(c) - 1
        PROVE  /\ m + k - 1 \in m .. n /\ m + k - 1 \in 1 .. n
               /\ q[m + k - 1] = c[k] /\ after[m + k - 1] = c[k + 1]
    <3>1. m + k - 1 \in m .. n /\ m + k - 1 \in 1 .. n
      BY <2>2, <2>6
    <3>2. CASE k = Len(c) - 1
      <4>1. m + k - 1 = n /\ k + 1 = Len(c)
        BY <2>6, <3>2
      <4>2. after[m + k - 1] = q[m]
        BY <3>1, <4>1, <2>6
      <4>3. m \in 1 .. m
        BY <2>6
      <4>4. QED
        BY <2>2, <2>3, <2>6, <3>1, <4>1, <4>2, <4>3
    <3>3. CASE k # Len(c) - 1
      <4>1. /\ k + 1 \in 1 .. Len(c) - 1 /\ m + k - 1 < n
            /\ (m + k - 1) + 1 = m + (k + 1) - 1
        BY <2>6, <3>3
      <4>2. after[m + k - 1] = q[(m + k - 1) + 1]
        BY <3>1, <4>1
      <4>3. QED
        BY <2>6, <3>1, <4>1, <4>2
    <3>4. QED
      BY <3>2, <3>3
  <2>8. ASSUME NEW i \in m .. n
        PROVE  \E k \in 1 .. Len(c) - 1 : i = m + k - 1
    <3>1. i - m + 1 \in 1 .. Len(c) - 1 /\ i = m + (i - m + 1) - 1
      BY <2>2, <2>6
    <3>2. QED
      BY <3>1
  <2>9. q[1] \in Range(problem.init)
    <3>1. 1 \in 1 .. m
      BY <2>6
    <3>2. QED
      BY <2>3, <2>6, <3>1
  <2>10. \A k \in 1 .. Len(c) - 1 : c[k + 1] \in Range(problem.adj[c[k]]) /\ c[k] \in S
                                   /\ c[k] \in Range(c) /\ <<c[k], c[k + 1]>> \in WayEdges(c)
    <3>1. c \in Seq(S) /\ DOMAIN c = 1 .. Len(c)
      BY <2>4, ElementFacts DEF IsWay
    <3>2. \A k \in 1 .. Len(c) - 1 : k \in 1 .. Len(c)
      BY <2>6
    <3>3. \A k \in 1 .. Len(c) - 1 : c[k] \in S /\ c[k] \in Range(c)
      BY <2>4, <3>1, <3>2 DEF Range
    <3>4. QED
      BY <2>4, <3>3 DEF IsWay, Edge, WayEdges
  <2>11. ASSUME NEW i \in 1 .. n PROVE after[i] \in Range(problem.adj[q[i]])
    <3>1. CASE i < m
      <4>1. i < n /\ i \in 1 .. m /\ i + 1 \in 1 .. m /\ i \in 1 .. m - 1
        BY <2>2, <2>6, <3>1
      <4>2. after[i] = q[i + 1]
        BY <4>1
      <4>3. p[i + 1] \in Range(problem.adj[p[i]])
        BY <2>3, <4>1 DEF IsWay, Edge, m
      <4>4. QED
        BY <2>6, <4>1, <4>2, <4>3
    <3>2. CASE i >= m
      <4>1. i \in m .. n
        BY <2>6, <3>2
      <4>2. PICK k \in 1 .. Len(c) - 1 : i = m + k - 1
        BY <2>8, <4>1
      <4>3. q[i] = c[k] /\ after[i] = c[k + 1]
        BY <2>7, <4>2
      <4>4. QED
        BY <2>10, <4>3
    <3>3. QED
      BY <2>6, <3>1, <3>2
  <2>12. Range(c) \subseteq loop
    <3>1. \A k \in 1 .. Len(c) - 1 : c[k] \in loop
      BY <2>7
    <3>2. 1 \in 1 .. Len(c) - 1 /\ \A k \in 1 .. Len(c) : k = Len(c) \/ k \in 1 .. Len(c) - 1
      BY <2>2, <2>6
    <3>3. c[Len(c)] \in loop
      BY <2>2, <2>4, <3>1, <3>2
    <3>4. DOMAIN c = 1 .. Len(c)
      BY <2>4, ElementFacts DEF IsWay
    <3> HIDE DEF loop
    <3>5. QED
      BY <3>1, <3>2, <3>3, <3>4 DEF Range
  <2>13. loop \subseteq S
    <3>1. ASSUME NEW i \in m .. n PROVE q[i] \in S
      <4>1. PICK k \in 1 .. Len(c) - 1 : i = m + k - 1
        BY <2>8
      <4>2. q[i] = c[k]
        BY <2>7, <4>1
      <4>3. QED
        BY <2>10, <4>2
    <3>2. QED
      BY <3>1
  <2>14. WayEdges(c) \subseteq steps
    <3>1. \A k \in 1 .. Len(c) - 1 : <<c[k], c[k + 1]>> \in steps
      BY <2>7
    <3> HIDE DEF steps
    <3>2. QED
      BY <3>1 DEF WayEdges
  <2> HIDE DEF after, loop, steps
  <2>15. ToVisit = {} /\ Range(visits) = {}
    BY <2>2 DEF ToVisit, Range
  <2>16. \A i \in DOMAIN problem.acc : problem.acc[i] \cap loop # {}
    BY <2>2, <2>12, <2>15 DEF AllIsVisited, c
  <2>17. ASSUME NEW i \in DOMAIN problem.fairness
         PROVE  LET f == problem.fairness[i]
                IN  \/ f.taken \cap steps # {}
                    \/ IF f.strong THEN loop \cap f.enabled = {} ELSE loop \ f.enabled # {}
    <3> DEFINE f == problem.fairness[i]
    <3>1. f \in Range(problem.fairness)
      BY DEF Range
    <3>2. \/ f.taken \cap CycleEdges # {}
          \/ IF f.strong THEN S \cap f.enabled = {} ELSE Range(c) \ f.enabled # {}
      BY <2>2, <2>15, <3>1 DEF AllIsVisited, S, c
    <3> HIDE DEF f
    <3>3. \/ f.taken \cap steps # {}
          \/ IF f.strong THEN loop \cap f.enabled = {} ELSE loop \ f.enabled # {}
      BY <2>4, <2>12, <2>13, <2>14, <3>2
    <3>4. QED
      BY <3>3 DEF f
  <2>18. Lasso.nodes = q /\ Lasso.loop = m
    BY DEF Lasso, q, m, p, c
  <2>19. QED
    BY <2>9, <2>11, <2>16, <2>17, <2>18 DEF LassoIsFair, after, loop, steps, n
<1>2. QED
  BY <1>1, SccInvariance, PTL
===============================================================================
