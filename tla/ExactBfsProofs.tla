---------------------------- MODULE ExactBfsProofs ---------------------------
(***************************************************************************)
(* check_exact keeps its promise, for every program and configuration: the *)
(* invariant IInv is inductive, and from it every report is true.          *)
(***************************************************************************)
EXTENDS ExactBfs, SearchProblemProofs

-----------------------------------------------------------------------------
(***************************************************************************)
(* Type correctness.                                                       *)
(***************************************************************************)
LEMMA TypeInit == Init => TypeOK
BY DEF Init, TypeOK, Running, Outcome, OutcomeType

\* Admit keeps the types.
LEMMA AdmitType ==
  ASSUME TypeOK, NEW s \in States, NEW parent \in Nat, NEW depth \in Nat,
         todo # << >>, Admit(s, parent, depth)
  PROVE  TypeOK'
<1> DEFINE e == [state |-> s, parent |-> parent, depth |-> depth]
<1>1. e \in Entry
  BY DEF Entry
<1>2. arena' \in Seq(Entry) /\ Len(arena) + 1 \in Nat
  BY <1>1, AppendFacts DEF Admit, TypeOK
<1>3. CASE model.invs[s] # "holds"
  BY <1>2, <1>3 DEF Admit, TypeOK
<1>4. CASE model.invs[s] = "holds"
  <2>1. frontier' \in Seq(Nat)
    <3>1. frontier' = Append(frontier, Len(arena) + 1)
      BY <1>4 DEF Admit
    <3>2. QED
      BY <1>2, <3>1, AppendFacts DEF TypeOK
  <2>2. outcome' \in OutcomeType
    <3>1. outcome' = outcome \/ outcome' = IncompleteOf(Len(arena) + 1)
      BY <1>4 DEF Admit
    <3>2. IncompleteOf(Len(arena) + 1) \in OutcomeType
      BY <1>2 DEF IncompleteOf, Outcome, OutcomeType
    <3>3. QED
      BY <3>1, <3>2 DEF TypeOK
  <2>3. todo' \in Seq(States)
    BY <1>4, TailFacts DEF Admit, TypeOK
  <2>4. pc' \in {"start", "init", "pop", "expand", "trace", "done"}
    BY <1>4 DEF Admit, TypeOK
  <2>5. QED
    BY <1>2, <1>4, <2>1, <2>2, <2>3, <2>4 DEF Admit, TypeOK
<1>5. QED
  BY <1>3, <1>4

\* The fields of an arena entry are of their types.
LEMMA ArenaTypes ==
  ASSUME TypeOK, NEW id \in DOMAIN arena
  PROVE  /\ id \in Nat \ {0} /\ Len(arena) \in Nat /\ id <= Len(arena)
         /\ arena[id].state \in States
         /\ arena[id].parent \in Nat
         /\ arena[id].depth \in Nat
<1>1. arena[id] \in Entry /\ id \in 1 .. Len(arena) /\ Len(arena) \in Nat
  BY DEF TypeOK
<1>2. QED
  BY <1>1 DEF Entry

(***************************************************************************)
(* What taking the head of the frontier does, given that the frontier is   *)
(* the run of ids after those popped.                                      *)
(***************************************************************************)
LEMMA HeadFacts ==
  ASSUME TypeOK, FrontierIsSuffix, pc = "pop", frontier # << >>
  PROVE  /\ Head(frontier) = Popped + 1
         /\ Popped \in Nat
         /\ Head(frontier) \in DOMAIN arena
         /\ arena[Head(frontier)] \in Entry
         /\ Len(frontier) \in Nat \ {0}
<1>1. Len(frontier) \in Nat \ {0} /\ Len(arena) \in Nat /\ Len(frontier) <= Len(arena)
  BY DEF TypeOK, FrontierIsSuffix, Searching
<1>2. Head(frontier) = frontier[1] /\ 1 \in DOMAIN frontier
  BY <1>1 DEF TypeOK
<1>3. Head(frontier) = Popped + 1
  BY <1>2 DEF FrontierIsSuffix, Searching
<1>4. Popped \in Nat /\ Popped + 1 \in 1 .. Len(arena)
  BY <1>1 DEF Popped
<1>5. Head(frontier) \in DOMAIN arena /\ arena[Head(frontier)] \in Entry
  BY <1>3, <1>4 DEF TypeOK
<1>6. QED
  BY <1>1, <1>3, <1>4, <1>5

\* PopFront keeps the types.
LEMMA PopFrontType ==
  ASSUME TypeOK, FrontierIsSuffix, PopFront
  PROVE  /\ frontier' \in Seq(Nat)
         /\ cur' \in Nat
         /\ maxDepth' \in Nat
<1>1. pc = "pop" /\ frontier # << >>
  BY DEF PopFront
<1>2. arena[Head(frontier)].depth \in Nat /\ Head(frontier) \in Nat
  BY <1>1, HeadFacts DEF Entry
<1>3. frontier' \in Seq(Nat)
  BY <1>1, TailFacts DEF PopFront, TypeOK
<1>4. QED
  BY <1>2, <1>3 DEF PopFront, TypeOK, Max2

\* Every step keeps the types.
LEMMA TypeStep ==
  ASSUME TypeOK, FrontierIsSuffix, TwoLevels, TraceGrows, LinksAreSteps, [Next]_vars
  PROVE  TypeOK'
<1> model \in Models
  BY DEF TypeOK
<1> USE ModelFacts DEF TypeOK
<1>1. CASE InitFails
  BY <1>1 DEF InitFails, Counterexample, Outcome, OutcomeType
<1>2. CASE EnumerateInit
  BY <1>2 DEF EnumerateInit
<1>3. CASE AdmitInitial
  <2>1. Head(todo) \in States
    BY <1>3, TailFacts DEF AdmitInitial
  <2>2. QED
    BY <1>3, <2>1, AdmitType DEF AdmitInitial, NoParent
<1>4. CASE AdmitSuccessor
  <2>1. Head(todo) \in States
    BY <1>4, TailFacts DEF AdmitSuccessor
  <2>2. cur \in Nat /\ arena[cur].depth + 1 \in Nat
    <3>1. arena[cur] \in Entry
      BY <1>4 DEF AdmitSuccessor, TwoLevels
    <3>2. QED
      BY <3>1 DEF Entry
  <2>3. QED
    BY <1>4, <2>1, <2>2, AdmitType DEF AdmitSuccessor
<1>5. CASE SkipSeen
  BY <1>5, TailFacts DEF SkipSeen
<1>6. CASE ListDone
  BY <1>6 DEF ListDone
<1>7. CASE StepFails
  BY <1>7, PopFrontType DEF StepFails, PopFront
<1>8. CASE FindDeadlock
  BY <1>8, PopFrontType DEF FindDeadlock, PopFront
<1>9. CASE StopAtBound
  BY <1>9, PopFrontType DEF StopAtBound, PopFront
<1>10. CASE Expand
  <2>1. arena[Head(frontier)].state \in States
    BY <1>10, HeadFacts DEF Expand, PopFront, Entry
  <2>2. QED
    BY <1>10, <2>1, PopFrontType DEF Expand, PopFront
<1>11. CASE ReportPass
  BY <1>11 DEF ReportPass, PassOf, Outcome, OutcomeType
<1>12. CASE WalkTrace
  <2>1. cur \in DOMAIN arena /\ arena[cur] \in Entry
    BY <1>12 DEF WalkTrace, TraceGrows
  <2>2. trace' \in Seq(States)
    BY <1>12, <2>1 DEF WalkTrace, Entry
  <2>3. Counterexample(pending, trace') \in OutcomeType
    BY <1>12, <2>2 DEF WalkTrace, TraceGrows, Counterexample, Outcome, OutcomeType
  <2>4. arena[cur].parent \in Nat
    BY <2>1 DEF Entry
  <2>5. QED
    BY <1>12, <2>2, <2>3, <2>4 DEF WalkTrace
<1>13. CASE UNCHANGED vars
  BY <1>13 DEF vars
<1>14. CASE Returned
  BY <1>14, <1>13 DEF Returned
<1>15. QED
  BY <1>1, <1>2, <1>3, <1>4, <1>5, <1>6, <1>7, <1>8, <1>9, <1>10, <1>11, <1>12, <1>13, <1>14
     DEF Next

-----------------------------------------------------------------------------
(***************************************************************************)
(* Coverage: when every state of depth less than d has been expanded, the  *)
(* layers up to d are in the arena, at no greater depth.  By the least     *)
(* layer of which this fails.                                              *)
(***************************************************************************)
LEMMA LayersSeen ==
  ASSUME TypeOK, RootsCovered, PoppedCovered, pc \in {"pop", "expand"},
         NEW d \in Nat, InScope(cfg, d),
         \A id \in DOMAIN arena :
           arena[id].depth < d => id \in 1 .. Popped /\ ~ (pc = "expand" /\ id = cur)
  PROVE  \A n \in 0 .. d : \A s \in Layer(model, n) : SeenBy(s, n)
<1> model \in Models /\ cfg \in Configs
  BY DEF TypeOK
<1> DEFINE Missed == {n \in 0 .. d : ~ \A s \in Layer(model, n) : SeenBy(s, n)}
<1>1. SUFFICES ASSUME Missed # {} PROVE FALSE
  OBVIOUS
<1>2. PICK n \in Missed : \A k \in Missed : n <= k
  <2>1. Missed \in SUBSET Nat
    OBVIOUS
  <2> HIDE DEF Missed
  <2>2. QED
    BY <1>1, <2>1, LeastNumber
<1>3. PICK s \in Layer(model, n) : ~ SeenBy(s, n)
  BY <1>2
<1>4. n # 0
  BY <1>3, LayersEquations DEF RootsCovered
<1>5. n - 1 \in Nat /\ n - 1 \in 0 .. d /\ n - 1 < d /\ (n - 1) + 1 = n /\ n - 1 \notin Missed
  BY <1>2, <1>4
<1>6. PICK t \in Layer(model, n - 1) : s \in Range(model.step[t])
  <2>1. Layer(model, n) = Image(model, Layer(model, n - 1))
    BY <1>5, LayersEquations
  <2>2. QED
    BY <1>3, <2>1 DEF Image
<1>7. SeenBy(t, n - 1)
  BY <1>5, <1>6
<1>8. PICK id \in DOMAIN arena : arena[id].state = t /\ arena[id].depth <= n - 1
  BY <1>7 DEF SeenBy
<1>9. arena[id].depth \in Nat
  BY <1>8, ArenaTypes
<1>10. arena[id].depth < d
  BY <1>5, <1>8, <1>9
<1>11. ~ Reached(cfg.maxSteps, arena[id].depth)
  BY <1>9, <1>10, ConfigFacts DEF Reached, InScope
<1>12. SeenBy(s, arena[id].depth + 1)
  BY <1>6, <1>8, <1>10, <1>11 DEF PoppedCovered
<1>13. PICK j \in DOMAIN arena : arena[j].state = s /\ arena[j].depth <= arena[id].depth + 1
  BY <1>12 DEF SeenBy
<1>14. arena[j].depth \in Nat
  BY <1>13, ArenaTypes
<1>15. arena[j].depth <= n
  BY <1>5, <1>8, <1>9, <1>13, <1>14
<1>16. SeenBy(s, n)
  BY <1>13, <1>15 DEF SeenBy
<1>17. QED
  BY <1>3, <1>16

(***************************************************************************)
(* Hence, when all states of depth less than d have been expanded and      *)
(* nothing was found, nothing is to be found before d + 1 steps.           *)
(***************************************************************************)
LEMMA LayersClean ==
  ASSUME TypeOK, RootsCovered, PoppedCovered, NothingFound, pc \in {"pop", "expand"},
         NEW d \in Nat, InScope(cfg, d),
         \A id \in DOMAIN arena :
           arena[id].depth < d => id \in 1 .. Popped /\ ~ (pc = "expand" /\ id = cur)
  PROVE  /\ \A n \in 0 .. d : HoldsAt(model, n)
         /\ \A n \in 0 .. d - 1 : ExpandsAt(model, cfg, n)
<1>1. \A n \in 0 .. d : \A s \in Layer(model, n) : SeenBy(s, n)
  BY LayersSeen
<1>2. Searching
  BY DEF Searching
<1>3. ASSUME NEW n \in 0 .. d, NEW s \in Layer(model, n)
      PROVE  model.invs[s] = "holds"
  <2>1. PICK id \in DOMAIN arena : arena[id].state = s
    BY <1>1, <1>3 DEF SeenBy
  <2>2. QED
    BY <1>2, <2>1 DEF NothingFound
<1>4. ASSUME NEW n \in 0 .. d - 1, NEW s \in Layer(model, n)
      PROVE  Expandable(s)
  <2>1. PICK id \in DOMAIN arena : arena[id].state = s /\ arena[id].depth <= n
    BY <1>1, <1>4 DEF SeenBy
  <2>2. arena[id].depth \in Nat
    BY <2>1, ArenaTypes
  <2>3. id \in 1 .. Popped
    BY <2>1, <2>2
  <2>4. QED
    BY <1>2, <2>1, <2>3 DEF NothingFound
<1>5. QED
  BY <1>3, <1>4 DEF HoldsAt, ExpandsAt, Expandable

-----------------------------------------------------------------------------
(***************************************************************************)
(* Admission of a fresh state: what it does to the arena, for an initial   *)
(* state and for a successor alike.                                        *)
(***************************************************************************)
CanAdmit(s, parent, depth) ==
  /\ s \in States /\ parent \in Nat /\ depth \in Nat
  /\ pc \in {"init", "expand"}
  /\ todo # << >>
  /\ InScope(cfg, depth)
  /\ parent <= Len(arena)
  /\ parent = NoParent => depth = 0 /\ s \in Range(model.init)
  /\ parent # NoParent =>
       /\ depth = arena[parent].depth + 1
       /\ s \in Range(model.step[arena[parent].state])
  /\ \A id \in DOMAIN arena : arena[id].depth <= depth
  /\ Admit(s, parent, depth)

Admitted(s, parent, depth) ==
  /\ model' = model /\ cfg' = cfg
  /\ Len(arena) \in Nat
  /\ DOMAIN arena = 1 .. Len(arena)
  /\ Len(arena') = Len(arena) + 1
  /\ DOMAIN arena' = 1 .. Len(arena) + 1
  /\ arena'[Len(arena) + 1].state = s
  /\ arena'[Len(arena) + 1].parent = parent
  /\ arena'[Len(arena) + 1].depth = depth
  /\ \A id \in 1 .. Len(arena) : arena'[id] = arena[id]

\* What Admit makes of the arena.
LEMMA AdmitArena ==
  ASSUME IInv, NEW s, NEW parent, NEW depth, CanAdmit(s, parent, depth)
  PROVE  Admitted(s, parent, depth)
<1> DEFINE e == [state |-> s, parent |-> parent, depth |-> depth]
<1>1. e \in Entry /\ arena \in Seq(Entry) /\ arena' = Append(arena, e)
  BY DEF CanAdmit, Entry, IInv, TypeOK, Admit
<1>2. model' = model /\ cfg' = cfg
  BY DEF CanAdmit, Admit
<1> HIDE DEF e
<1>3. /\ Len(arena') = Len(arena) + 1
      /\ DOMAIN arena' = 1 .. Len(arena) + 1
      /\ arena'[Len(arena) + 1] = e
      /\ \A id \in 1 .. Len(arena) : arena'[id] = arena[id]
      /\ Len(arena) \in Nat
      /\ DOMAIN arena = 1 .. Len(arena)
  BY <1>1, AppendFacts
<1>4. e.state = s /\ e.parent = parent /\ e.depth = depth
  BY DEF e
<1>5. QED
  BY <1>2, <1>3, <1>4 DEF Admitted

\* Admit keeps the links and the order of depths, given those of the new entry.
LEMMA AdmitLinks ==
  ASSUME IInv, NEW s, NEW parent, NEW depth, CanAdmit(s, parent, depth)
  PROVE  LinksAreSteps' /\ DepthsInOrder'
<1> DEFINE last == Len(arena) + 1
<1> Admitted(s, parent, depth)
  BY AdmitArena
<1> USE DEF Admitted
<1>1. ASSUME NEW id \in DOMAIN arena'
      PROVE  LET e == arena'[id]
             IN  /\ e.parent < id
                 /\ InScope(cfg', e.depth)
                 /\ e.parent = NoParent => e.depth = 0 /\ e.state \in Range(model'.init)
                 /\ e.parent # NoParent =>
                      /\ e.depth = arena'[e.parent].depth + 1
                      /\ e.state \in Range(model'.step[arena'[e.parent].state])
  <2>1. CASE id = last
    <3>1. parent # NoParent => parent \in DOMAIN arena
      BY DEF CanAdmit, IInv, TypeOK, NoParent
    <3>2. QED
      BY <2>1, <3>1 DEF CanAdmit
  <2>2. CASE id # last
    <3>1. id \in DOMAIN arena /\ arena'[id] = arena[id]
      BY <2>2
    <3>2. arena[id].parent \in Nat /\ arena[id].parent < id /\ id <= Len(arena)
      BY <3>1, ArenaTypes DEF IInv, LinksAreSteps
    <3>3. arena[id].parent # NoParent => arena[id].parent \in DOMAIN arena
      BY <3>1, <3>2 DEF IInv, TypeOK, NoParent
    <3>4. QED
      BY <3>1, <3>3 DEF IInv, LinksAreSteps
  <2>3. QED
    BY <2>1, <2>2
<1>2. ASSUME NEW i \in DOMAIN arena', NEW j \in DOMAIN arena', i <= j
      PROVE  arena'[i].depth <= arena'[j].depth
  <2>1. CASE j # last
    <3>1. j \in DOMAIN arena /\ i \in DOMAIN arena
      BY <1>2, <2>1
    <3>2. QED
      BY <1>2, <3>1 DEF IInv, DepthsInOrder
  <2>2. CASE j = last
    <3>1. i = last \/ i \in DOMAIN arena
      BY <2>2
    <3>2. CASE i = last
      BY <2>2, <3>2 DEF CanAdmit
    <3>3. CASE i \in DOMAIN arena
      BY <2>2, <3>3 DEF CanAdmit
    <3>4. QED
      BY <3>1, <3>2, <3>3
  <2>3. QED
    BY <2>1, <2>2
<1>3. LinksAreSteps'
  BY <1>1 DEF LinksAreSteps
<1>4. DepthsInOrder'
  BY <1>2 DEF DepthsInOrder
<1>5. QED
  BY <1>3, <1>4

\* What was seen before Admit is seen after it, and so is its state.
LEMMA AdmitSeenBy ==
  ASSUME IInv, NEW s, NEW parent, NEW depth, CanAdmit(s, parent, depth)
  PROVE  /\ SeenBy(s, depth)'
         /\ \A t, n : SeenBy(t, n) => SeenBy(t, n)'
<1> Admitted(s, parent, depth)
  BY AdmitArena
<1> USE DEF Admitted
<1>1. SeenBy(s, depth)'
  BY DEF SeenBy, CanAdmit
<1>2. ASSUME NEW t, NEW n, SeenBy(t, n) PROVE SeenBy(t, n)'
  BY <1>2 DEF SeenBy
<1>3. QED
  BY <1>1, <1>2

(***************************************************************************)
(* The admitted state fails its invariants, or fills the state cap.        *)
(***************************************************************************)
LEMMA AdmitStops ==
  ASSUME IInv, NEW s, NEW parent, NEW depth, CanAdmit(s, parent, depth),
         TypeOK', pc' # pc, NothingBefore(model, cfg, depth)
  PROVE  IInv'
<1> DEFINE last == Len(arena) + 1
<1> Admitted(s, parent, depth)
  BY AdmitArena
<1> USE DEF Admitted
<1>1. pc' \in {"trace", "done"}
  BY DEF CanAdmit, Admit
<1>2. LinksAreSteps' /\ DepthsInOrder'
  BY AdmitLinks
<1>3. FrontierIsSuffix' /\ TwoLevels' /\ RootsCovered' /\ PoppedCovered' /\ NothingFound'
  BY <1>1 DEF FrontierIsSuffix, TwoLevels, RootsCovered, PoppedCovered, NothingFound, Searching
<1>4. NothingReported'
  BY <1>1 DEF CanAdmit, Admit, IInv, NothingReported
<1>5. TraceGrows'
  <2>1. SUFFICES ASSUME pc' = "trace" PROVE TraceGrows'
    BY DEF TraceGrows
  <2>2. /\ model.invs[s] # "holds"
        /\ pending' = IF model.invs[s] = "violated" THEN "violation" ELSE "error"
        /\ cur' = last
        /\ trace' = << >>
    BY <2>1 DEF CanAdmit, Admit, IInv, NothingReported
  <2>3. model.invs[s] \in Verdicts
    BY ModelFacts DEF CanAdmit, IInv, TypeOK
  <2>4. Culprit(model, cfg, pending', s) /\ pending' \in {"violation", "error"}
    BY <2>2, <2>3 DEF Culprit, Verdicts
  <2>5. cur' \in DOMAIN arena' /\ arena'[cur'].state = s /\ arena'[cur'].depth = depth
    BY <2>2
  <2>6. arena'[cur'].depth + 1 + Len(trace') = depth + 1 /\ (depth + 1) - 1 = depth
    BY <2>2, <2>5 DEF CanAdmit
  <2>7. model' = model /\ cfg' = cfg
    OBVIOUS
  <2>8. InScope(cfg, depth)
    BY DEF CanAdmit
  <2>9. Justified(model, cfg, pending', s, depth + 1)
    BY <2>4, <2>6, <2>8 DEF Justified
  <2>10. QED
    BY <2>2, <2>4, <2>5, <2>6, <2>7, <2>9 DEF TraceGrows
<1>6. QED
  BY <1>2, <1>3, <1>4, <1>5 DEF IInv

(***************************************************************************)
(* The admitted state is pushed, and the loop goes on.                     *)
(***************************************************************************)
LEMMA AdmitContinues ==
  ASSUME IInv, NEW s, NEW parent, NEW depth, CanAdmit(s, parent, depth), pc' = pc
  PROVE  /\ FrontierIsSuffix' /\ NothingFound' /\ TraceGrows' /\ NothingReported'
         /\ Popped' = Popped
         /\ cur' = cur
         /\ Range(todo) = {Head(todo)} \cup Range(todo')
         /\ Range(todo') \subseteq Range(todo)
<1> DEFINE last == Len(arena) + 1
<1> Admitted(s, parent, depth)
  BY AdmitArena
<1> USE DEF Admitted
<1>1. /\ model.invs[s] = "holds"
      /\ frontier' = Append(frontier, last)
      /\ todo' = Tail(todo)
      /\ UNCHANGED <<pc, outcome, cur, pending, trace>>
  BY DEF CanAdmit, Admit
<1>2. Searching /\ Searching'
  BY <1>1 DEF CanAdmit, Searching
<1>3. /\ Len(frontier') = Len(frontier) + 1
      /\ frontier'[Len(frontier) + 1] = last
      /\ DOMAIN frontier' = 1 .. Len(frontier) + 1
      /\ \A k \in 1 .. Len(frontier) : frontier'[k] = frontier[k]
      /\ Len(frontier) \in Nat
  BY <1>1, AppendFacts DEF IInv, TypeOK
<1>4. Popped' = Popped
  BY <1>3 DEF Popped
<1>5. FrontierIsSuffix'
  <2>1. Len(frontier') <= Len(arena')
    BY <1>2, <1>3 DEF IInv, FrontierIsSuffix
  <2>2. ASSUME NEW k \in DOMAIN frontier' PROVE frontier'[k] = Popped + k
    <3>1. CASE k = Len(frontier) + 1
      BY <3>1, <1>3 DEF Popped
    <3>2. CASE k # Len(frontier) + 1
      <4>1. k \in DOMAIN frontier
        BY <3>2, <1>3 DEF IInv, TypeOK
      <4>2. QED
        BY <4>1, <1>2, <1>3 DEF IInv, FrontierIsSuffix, TypeOK
    <3>3. QED
      BY <3>1, <3>2
  <2>3. QED
    BY <2>1, <2>2, <1>4 DEF FrontierIsSuffix
<1>6. NothingFound'
  <2>1. pc' # "start" /\ ~ model'.initError
    BY <1>2 DEF CanAdmit, IInv, NothingFound
  <2>2. ASSUME NEW id \in DOMAIN arena' PROVE model'.invs[arena'[id].state] = "holds"
    <3>1. CASE id = last
      BY <1>1, <3>1
    <3>2. CASE id # last
      <4>1. id \in DOMAIN arena
        BY <3>2
      <4>2. QED
        BY <4>1, <1>2 DEF IInv, NothingFound
    <3>3. QED
      BY <3>1, <3>2
  <2>3. ASSUME NEW id \in 1 .. Popped PROVE Expandable(arena[id].state)' /\ arena'[id] = arena[id]
    <3>1. id \in DOMAIN arena
      BY <1>2, <1>3 DEF Popped, IInv, FrontierIsSuffix, TypeOK
    <3>2. QED
      BY <3>1, <1>2 DEF IInv, NothingFound, Expandable
  <2>4. QED
    BY <2>1, <2>2, <2>3, <1>4 DEF NothingFound
<1>7. TraceGrows' /\ NothingReported'
  BY <1>1 DEF CanAdmit, TraceGrows, IInv, NothingReported
<1>8. Range(todo) = {Head(todo)} \cup Range(todo') /\ Range(todo') \subseteq Range(todo)
  BY <1>1, TailFacts DEF CanAdmit, IInv, TypeOK
<1>9. QED
  BY <1>1, <1>4, <1>5, <1>6, <1>7, <1>8

-----------------------------------------------------------------------------
(***************************************************************************)
(* Each action preserves the invariant.                                    *)
(***************************************************************************)
LEMMA AdmitInitialStep ==
  ASSUME IInv, TypeOK', AdmitInitial
  PROVE  IInv'
<1>0. Head(todo) \in States /\ Head(todo) \in Range(todo)
  BY TailFacts DEF AdmitInitial, IInv, TypeOK
<1> PICK s \in States : s = Head(todo)
  BY <1>0
<1>1. pc = "init" /\ todo # << >> /\ Admit(s, NoParent, 0)
  BY DEF AdmitInitial
<1>2. s \in States /\ s \in Range(todo)
  BY <1>0
<1>3. CanAdmit(s, NoParent, 0)
  <2>1. InScope(cfg, 0)
    BY ConfigFacts DEF InScope, IInv, TypeOK
  <2>2. s \in Range(model.init)
    BY <1>1, <1>2 DEF IInv, RootsCovered
  <2>3. \A id \in DOMAIN arena : arena[id].depth <= 0
    BY <1>1 DEF IInv, TwoLevels
  <2>4. NoParent \in Nat /\ NoParent <= Len(arena)
    BY DEF NoParent, IInv, TypeOK
  <2>5. QED
    BY <1>1, <1>2, <2>1, <2>2, <2>3, <2>4 DEF CanAdmit
<1>4. NothingBefore(model, cfg, 0)
  BY DEF NothingBefore
<1>5. CASE pc' # pc
  BY <1>3, <1>4, <1>5, AdmitStops
<1>6. CASE pc' = pc
  <2>1. /\ FrontierIsSuffix' /\ NothingFound' /\ TraceGrows' /\ NothingReported'
        /\ LinksAreSteps' /\ DepthsInOrder'
        /\ Popped' = Popped
        /\ Range(todo) = {s} \cup Range(todo')
        /\ Range(todo') \subseteq Range(todo)
    BY <1>3, <1>6, AdmitContinues, AdmitLinks
  <2>2. Admitted(s, NoParent, 0)
    BY <1>3, AdmitArena
  <2>3. TwoLevels'
    <3>1. ASSUME NEW id \in DOMAIN arena' PROVE arena'[id].depth = 0
      BY <1>1, <2>2 DEF Admitted, IInv, TwoLevels
    <3>2. QED
      BY <1>1, <1>6, <3>1 DEF TwoLevels
  <2>4. RootsCovered'
    <3>1. SeenBy(s, 0)' /\ \A t : SeenBy(t, 0) => SeenBy(t, 0)'
      BY <1>3, AdmitSeenBy
    <3>2. ASSUME NEW t \in Range(model.init)
          PROVE  t \in Range(todo') \/ SeenBy(t, 0)'
      <4>1. t \in Range(todo) \/ SeenBy(t, 0)
        BY <1>1 DEF IInv, RootsCovered
      <4>2. QED
        BY <2>1, <3>1, <4>1
    <3>3. Popped' = 0 /\ Range(todo') \subseteq Range(model'.init) /\ model' = model
      BY <1>1, <2>1, <2>2 DEF IInv, RootsCovered, Admitted
    <3>4. QED
      BY <1>1, <1>6, <3>2, <3>3 DEF RootsCovered
  <2>5. PoppedCovered'
    BY <1>1, <1>6 DEF PoppedCovered
  <2>6. QED
    BY <2>1, <2>3, <2>4, <2>5 DEF IInv
<1>7. QED
  BY <1>5, <1>6

(***************************************************************************)
(* A state under expansion, or next to pop, has depth d; those of smaller  *)
(* depth come before it.                                                   *)
(***************************************************************************)
LEMMA BeforeCurrent ==
  ASSUME IInv, pc = "expand"
  PROVE  /\ cur \in DOMAIN arena /\ cur = Popped
         /\ \A n \in 0 .. arena[cur].depth : HoldsAt(model, n)
         /\ \A n \in 0 .. arena[cur].depth - 1 : ExpandsAt(model, cfg, n)
<1>1. cur \in DOMAIN arena /\ cur = Popped
  BY DEF IInv, TwoLevels
<1>2. arena[cur].depth \in Nat /\ InScope(cfg, arena[cur].depth)
  BY <1>1, ArenaTypes DEF IInv, LinksAreSteps
<1>3. ASSUME NEW id \in DOMAIN arena, arena[id].depth < arena[cur].depth
      PROVE  id \in 1 .. Popped /\ id # cur
  <2>1. id \in Nat \ {0} /\ cur \in Nat /\ arena[id].depth \in Nat
    BY <1>1, ArenaTypes DEF IInv
  <2>2. ~ (cur <= id)
    BY <1>1, <1>2, <1>3, <2>1 DEF IInv, DepthsInOrder
  <2>3. QED
    BY <1>1, <2>1, <2>2
<1>4. QED
  BY <1>1, <1>2, <1>3, LayersClean DEF IInv

\* AdmitSuccessor keeps the invariant.
LEMMA AdmitSuccessorStep ==
  ASSUME IInv, TypeOK', AdmitSuccessor
  PROVE  IInv'
<1>0. /\ Head(todo) \in States /\ Head(todo) \in Range(todo)
      /\ cur \in DOMAIN arena /\ cur = Popped /\ cur \in Nat \ {0} /\ cur <= Len(arena)
      /\ arena[cur].depth \in Nat
  BY TailFacts, BeforeCurrent, ArenaTypes DEF AdmitSuccessor, IInv, TypeOK
<1> PICK s \in States : s = Head(todo)
  BY <1>0
<1> PICK d \in Nat : d = arena[cur].depth
  BY <1>0
<1>1. pc = "expand" /\ todo # << >> /\ Admit(s, cur, d + 1)
  BY DEF AdmitSuccessor
<1>2. s \in States /\ s \in Range(todo)
  BY <1>0
<1>3. cur \in DOMAIN arena /\ cur = Popped /\ d \in Nat /\ cur \in Nat \ {0} /\ cur <= Len(arena)
  BY <1>0
<1>4. CanAdmit(s, cur, d + 1)
  <2>1. InScope(cfg, d + 1)
    <3>1. cfg \in Configs /\ d \in Nat
      BY DEF IInv, TypeOK
    <3>2. ~ Reached(cfg.maxSteps, d)
      BY <1>1, <1>3 DEF IInv, PoppedCovered
    <3>3. QED
      BY <3>1, <3>2, ConfigFacts DEF InScope, Reached
  <2>2. s \in Range(model.step[arena[cur].state])
    BY <1>1, <1>2 DEF IInv, PoppedCovered
  <2>3. \A id \in DOMAIN arena : arena[id].depth <= d + 1
    BY <1>1 DEF IInv, TwoLevels
  <2>4. cur # NoParent
    BY <1>3 DEF NoParent
  <2>5. QED
    BY <1>1, <1>2, <1>3, <2>1, <2>2, <2>3, <2>4 DEF CanAdmit
<1>5. NothingBefore(model, cfg, d + 1)
  <2>1. /\ \A n \in 0 .. d : HoldsAt(model, n)
        /\ \A n \in 0 .. d - 1 : ExpandsAt(model, cfg, n)
    BY <1>1, BeforeCurrent
  <2>2. (d + 1) - 1 = d /\ (d + 1) - 2 = d - 1
    BY <1>3
  <2>3. QED
    BY <2>1, <2>2 DEF NothingBefore
<1>6. CASE pc' # pc
  BY <1>4, <1>5, <1>6, AdmitStops
<1>7. CASE pc' = pc
  <2>1. /\ FrontierIsSuffix' /\ NothingFound' /\ TraceGrows' /\ NothingReported'
        /\ LinksAreSteps' /\ DepthsInOrder'
        /\ Popped' = Popped
        /\ cur' = cur
        /\ Range(todo) = {s} \cup Range(todo')
        /\ Range(todo') \subseteq Range(todo)
    BY <1>4, <1>7, AdmitContinues, AdmitLinks
  <2>2. Admitted(s, cur, d + 1)
    BY <1>4, AdmitArena
  <2>3. arena'[cur] = arena[cur] /\ cur \in DOMAIN arena'
    BY <1>3, <2>2 DEF Admitted
  <2>4. SeenBy(s, d + 1)' /\ \A t, n : SeenBy(t, n) => SeenBy(t, n)'
    BY <1>4, AdmitSeenBy
  <2>5. TwoLevels'
    <3>1. ASSUME NEW id \in DOMAIN arena' PROVE arena'[id].depth <= d + 1
      BY <1>1, <1>3, <2>2 DEF Admitted, IInv, TwoLevels
    <3>2. QED
      BY <1>1, <1>3, <1>7, <2>1, <2>3, <3>1 DEF TwoLevels
  <2>6. RootsCovered'
    BY <1>1, <1>7, <2>2, <2>4 DEF IInv, RootsCovered, Admitted
  <2>7. PoppedCovered'
    <3>1. ASSUME NEW id \in 1 .. Popped, id # cur, ~ Reached(cfg.maxSteps, arena'[id].depth),
                 NEW t \in Range(model.step[arena'[id].state])
          PROVE  \E j \in DOMAIN arena' :
                   arena'[j].state = t /\ arena'[j].depth <= arena'[id].depth + 1
      <4>1. arena'[id] = arena[id]
        BY <1>3, <2>2 DEF Admitted
      <4>2. SeenBy(t, arena[id].depth + 1)
        BY <1>1, <3>1, <4>1 DEF IInv, PoppedCovered
      <4>3. QED
        BY <4>1, <4>2, <2>2 DEF SeenBy, Admitted
    <3>2. ~ Reached(cfg.maxSteps, d) /\ Range(todo') \subseteq Range(model.step[arena[cur].state])
      BY <1>1, <2>1 DEF IInv, PoppedCovered
    <3>3. ASSUME NEW t \in Range(model.step[arena[cur].state])
          PROVE  t \in Range(todo') \/ SeenBy(t, d + 1)'
      BY <1>1, <2>1, <2>4 DEF IInv, PoppedCovered
    <3>4. model' = model /\ cfg' = cfg /\ pc' = "expand"
      BY <1>1, <1>7, <2>2 DEF Admitted
    <3>5. ASSUME NEW id \in 1 .. Popped', ~ (pc' = "expand" /\ id = cur'),
                 ~ Reached(cfg'.maxSteps, arena'[id].depth),
                 NEW t \in Range(model'.step[arena'[id].state])
          PROVE  \E j \in DOMAIN arena' :
                   arena'[j].state = t /\ arena'[j].depth <= arena'[id].depth + 1
      BY <2>1, <3>1, <3>4, <3>5
    <3>6. LET e == arena'[cur']
          IN  /\ ~ Reached(cfg'.maxSteps, e.depth)
              /\ Range(todo') \subseteq Range(model'.step[e.state])
              /\ \A t \in Range(model'.step[e.state]) :
                   \/ t \in Range(todo')
                   \/ \E j \in DOMAIN arena' : arena'[j].state = t /\ arena'[j].depth <= e.depth + 1
      BY <2>1, <2>3, <3>2, <3>3, <3>4 DEF SeenBy
    <3>7. QED
      BY <3>5, <3>6 DEF PoppedCovered, SeenBy
  <2>8. QED
    BY <2>1, <2>5, <2>6, <2>7 DEF IInv
<1>8. QED
  BY <1>6, <1>7

\* What PopFront makes of the frontier: its head is the next id.
LEMMA PopFacts ==
  ASSUME IInv, PopFront
  PROVE  /\ UNCHANGED <<model, cfg, arena, trace, outcome>>
         /\ cur' = Popped + 1 /\ cur' = Head(frontier) /\ Popped' = Popped + 1
         /\ Popped \in Nat
         /\ cur' \in DOMAIN arena
         /\ Len(frontier') \in Nat /\ Len(frontier') <= Len(arena)
         /\ \A k \in DOMAIN frontier' : frontier'[k] = Popped' + k
         /\ arena[cur'].depth \in Nat /\ InScope(cfg, arena[cur'].depth)
         /\ \A n \in 0 .. arena[cur'].depth : HoldsAt(model, n)
         /\ \A n \in 0 .. arena[cur'].depth - 1 : ExpandsAt(model, cfg, n)
<1>1. pc = "pop" /\ frontier # << >> /\ frontier' = Tail(frontier) /\ cur' = Head(frontier)
  BY DEF PopFront
<1>2. /\ Head(frontier) = Popped + 1
      /\ Popped \in Nat
      /\ Head(frontier) \in DOMAIN arena
      /\ Len(frontier) \in Nat \ {0}
  BY <1>1, HeadFacts DEF IInv
<1>3. /\ Len(frontier') = Len(frontier) - 1
      /\ \A k \in 1 .. Len(frontier) - 1 : frontier'[k] = frontier[k + 1]
      /\ DOMAIN frontier' = 1 .. Len(frontier) - 1
  BY <1>1, <1>2, TailFacts DEF IInv, TypeOK
<1>4. UNCHANGED <<model, cfg, arena, trace, outcome>>
  BY DEF PopFront
<1>5. Popped' = Popped + 1
  BY <1>2, <1>3, <1>4 DEF Popped, IInv, TypeOK
<1>6. ASSUME NEW k \in DOMAIN frontier' PROVE frontier'[k] = Popped' + k
  <2>1. k + 1 \in DOMAIN frontier /\ frontier'[k] = frontier[k + 1]
    <3>1. DOMAIN frontier = 1 .. Len(frontier)
      BY DEF IInv, TypeOK
    <3>2. QED
      BY <1>2, <1>3, <3>1
  <2>2. frontier[k + 1] = Popped + (k + 1)
    BY <1>1, <2>1 DEF IInv, FrontierIsSuffix, Searching
  <2>3. k \in Nat
    BY <1>2, <1>3
  <2>4. QED
    BY <1>2, <1>5, <2>1, <2>2, <2>3
<1> PICK id \in DOMAIN arena : id = Head(frontier)
  BY <1>2
<1>7. arena[id].depth \in Nat /\ InScope(cfg, arena[id].depth)
  BY ArenaTypes DEF IInv, LinksAreSteps
<1>8. ASSUME NEW j \in DOMAIN arena, arena[j].depth < arena[id].depth
      PROVE  j \in 1 .. Popped /\ ~ (pc = "expand" /\ j = cur)
  <2>1. j \in Nat \ {0} /\ id \in Nat /\ arena[j].depth \in Nat
    BY ArenaTypes DEF IInv
  <2>2. ~ (id <= j)
    BY <1>7, <1>8, <2>1 DEF IInv, DepthsInOrder
  <2>3. QED
    BY <1>1, <1>2, <2>1, <2>2
<1>9. /\ \A n \in 0 .. arena[id].depth : HoldsAt(model, n)
      /\ \A n \in 0 .. arena[id].depth - 1 : ExpandsAt(model, cfg, n)
  BY <1>1, <1>7, <1>8, LayersClean DEF IInv
<1>10. Len(frontier') \in Nat /\ Len(frontier') <= Len(arena)
  BY <1>1, <1>2, <1>3 DEF IInv, FrontierIsSuffix, Searching, TypeOK
<1>11. QED
  BY <1>1, <1>2, <1>4, <1>5, <1>6, <1>7, <1>9, <1>10

(***************************************************************************)
(* The popped state is a deadlock, or step fails there: its trace follows. *)
(***************************************************************************)
LEMMA PopStops ==
  ASSUME IInv, TypeOK', PopFront, pc' = "trace", pending' \in {"deadlock", "error"},
         Culprit(model, cfg, pending', arena[Head(frontier)].state)
  PROVE  IInv'
<1> USE PopFacts
<1>1. /\ UNCHANGED <<model, cfg, arena, trace, outcome>>
      /\ cur' \in DOMAIN arena /\ cur' = Head(frontier)
      /\ arena[cur'].depth \in Nat /\ InScope(cfg, arena[cur'].depth)
  OBVIOUS
<1>2. trace = << >> /\ outcome = Running
  BY DEF PopFront, IInv, NothingReported
<1>3. LinksAreSteps' /\ DepthsInOrder'
  BY <1>1 DEF IInv, LinksAreSteps, DepthsInOrder
<1>4. /\ FrontierIsSuffix' /\ TwoLevels' /\ RootsCovered' /\ PoppedCovered'
      /\ NothingFound' /\ NothingReported'
  BY <1>1, <1>2 DEF FrontierIsSuffix, TwoLevels, RootsCovered, PoppedCovered, NothingFound,
     NothingReported, Searching
<1>5. TraceGrows'
  <2> PICK d \in Nat : d = arena[cur'].depth
    BY <1>1
  <2>1. /\ \A n \in 0 .. d : HoldsAt(model, n)
        /\ \A n \in 0 .. d - 1 : ExpandsAt(model, cfg, n)
    OBVIOUS
  <2>2. NothingBefore(model, cfg, d) /\ NothingBefore(model, cfg, d + 1)
    BY <2>1 DEF NothingBefore
  <2>3. Len(trace') = 0 /\ (d + 1) - 1 = d /\ d + 1 + 0 = d + 1
    BY <1>1, <1>2
  <2>4. arena'[cur'].depth = d /\ cur' \in DOMAIN arena'
    BY <1>1
  <2>5. Justified(model, cfg, pending', arena[Head(frontier)].state, d + 1)
    BY <1>1, <2>2, <2>3 DEF Justified
  <2>6. QED
    BY <1>1, <1>2, <2>3, <2>4, <2>5 DEF TraceGrows
<1>6. QED
  BY <1>3, <1>4, <1>5 DEF IInv

\* StepFails keeps the invariant.
LEMMA StepFailsStep ==
  ASSUME IInv, TypeOK', StepFails
  PROVE  IInv'
BY PopStops DEF StepFails, Culprit

\* FindDeadlock keeps the invariant.
LEMMA FindDeadlockStep ==
  ASSUME IInv, TypeOK', FindDeadlock
  PROVE  IInv'
BY PopStops DEF FindDeadlock, Culprit

(***************************************************************************)
(* The popped state expands.                                               *)
(***************************************************************************)
LEMMA PopContinues ==
  ASSUME IInv, PopFront, pc' \in {"pop", "expand"}, UNCHANGED pending,
         Expandable(arena[Head(frontier)].state)
  PROVE  /\ FrontierIsSuffix' /\ LinksAreSteps' /\ DepthsInOrder' /\ RootsCovered'
         /\ NothingFound' /\ TraceGrows' /\ NothingReported'
<1>1. /\ UNCHANGED <<model, cfg, arena, trace, outcome>>
      /\ cur' = Popped + 1 /\ cur' = Head(frontier) /\ Popped' = Popped + 1
      /\ Popped \in Nat
      /\ Len(frontier') <= Len(arena)
      /\ \A k \in DOMAIN frontier' : frontier'[k] = Popped' + k
  BY PopFacts
<1>2. pc = "pop"
  BY DEF PopFront
<1>3. FrontierIsSuffix'
  BY <1>1 DEF FrontierIsSuffix
<1>4. LinksAreSteps' /\ DepthsInOrder'
  BY <1>1 DEF IInv, LinksAreSteps, DepthsInOrder
<1>5. RootsCovered'
  BY <1>1, <1>2 DEF IInv, RootsCovered, SeenBy
<1>6. NothingFound'
  <2>1. ASSUME NEW id \in 1 .. Popped + 1 PROVE Expandable(arena[id].state)
    <3>1. CASE id = Popped + 1
      BY <1>1, <3>1
    <3>2. CASE id # Popped + 1
      <4>1. id \in 1 .. Popped
        BY <1>1, <3>2
      <4>2. QED
        BY <1>2, <4>1 DEF IInv, NothingFound, Searching
    <3>3. QED
      BY <3>1, <3>2
  <2>2. ~ model.initError /\ \A id \in DOMAIN arena : model.invs[arena[id].state] = "holds"
    BY <1>2 DEF IInv, NothingFound, Searching
  <2>3. QED
    BY <1>1, <2>1, <2>2 DEF NothingFound, Expandable
<1>7. TraceGrows' /\ NothingReported'
  BY <1>1, <1>2 DEF IInv, TraceGrows, NothingReported
<1>8. QED
  BY <1>3, <1>4, <1>5, <1>6, <1>7

\* StopAtBound keeps the invariant.
LEMMA StopAtBoundStep ==
  ASSUME IInv, TypeOK', StopAtBound
  PROVE  IInv'
<1>1. /\ PopFront /\ pc = "pop" /\ pc' = "pop" /\ UNCHANGED pending
      /\ frontier # << >> /\ frontier' = Tail(frontier)
      /\ Expandable(arena[Head(frontier)].state)
      /\ Reached(cfg.maxSteps, arena[Head(frontier)].depth)
  BY DEF StopAtBound, PopFront
<1>2. /\ UNCHANGED <<model, cfg, arena, trace, outcome>>
      /\ cur' = Popped + 1 /\ cur' = Head(frontier) /\ Popped' = Popped + 1
      /\ Popped \in Nat /\ cur' \in DOMAIN arena
      /\ \A k \in DOMAIN frontier' : frontier'[k] = Popped' + k
      /\ Len(frontier') \in Nat /\ Len(frontier') <= Len(arena)
  BY <1>1, PopFacts
<1>3. /\ FrontierIsSuffix' /\ LinksAreSteps' /\ DepthsInOrder' /\ RootsCovered'
      /\ NothingFound' /\ TraceGrows' /\ NothingReported'
  BY <1>1, PopContinues
<1>4. TwoLevels'
  <2>1. SUFFICES ASSUME frontier' # << >>, NEW id \in DOMAIN arena
                 PROVE  arena[id].depth <= arena[Head(frontier')].depth + 1
    BY <1>1, <1>2 DEF TwoLevels
  <2>2. Head(frontier') = Popped + 2 /\ Popped + 2 \in DOMAIN arena
    <3>1. Head(frontier') = frontier'[1] /\ 1 \in DOMAIN frontier'
      BY <2>1 DEF TypeOK
    <3>2. Head(frontier') = Popped + 2
      BY <1>2, <3>1
    <3>3. Popped + 2 <= Len(arena)
      BY <1>2, <2>1 DEF Popped, IInv, TypeOK
    <3>4. QED
      BY <1>2, <3>2, <3>3 DEF IInv, TypeOK
  <2>3. arena[id].depth <= arena[Head(frontier)].depth + 1
    BY <1>1 DEF IInv, TwoLevels
  <2>4. arena[Head(frontier)].depth <= arena[Head(frontier')].depth
    BY <1>2, <2>2 DEF IInv, DepthsInOrder
  <2>5. /\ arena[id].depth \in Nat
        /\ arena[Head(frontier)].depth \in Nat
        /\ arena[Head(frontier')].depth \in Nat
    BY <1>2, <2>2, ArenaTypes DEF IInv
  <2>6. QED
    BY <2>3, <2>4, <2>5
<1>5. PoppedCovered'
  <2>1. ASSUME NEW id \in 1 .. Popped + 1, ~ Reached(cfg.maxSteps, arena[id].depth),
               NEW t \in Range(model.step[arena[id].state])
        PROVE  SeenBy(t, arena[id].depth + 1)
    <3>1. id # Popped + 1
      BY <1>1, <1>2, <2>1
    <3>2. id \in 1 .. Popped
      BY <1>2, <3>1
    <3>3. QED
      BY <1>1, <2>1, <3>2 DEF IInv, PoppedCovered
  <2>2. QED
    BY <1>1, <1>2, <2>1 DEF PoppedCovered, SeenBy
<1>6. QED
  BY <1>3, <1>4, <1>5 DEF IInv

\* Expand keeps the invariant.
LEMMA ExpandStep ==
  ASSUME IInv, TypeOK', Expand
  PROVE  IInv'
<1>1. /\ PopFront /\ pc = "pop" /\ pc' = "expand" /\ UNCHANGED pending
      /\ frontier # << >>
      /\ Expandable(arena[Head(frontier)].state)
      /\ ~ Reached(cfg.maxSteps, arena[Head(frontier)].depth)
      /\ todo' = model.step[arena[Head(frontier)].state]
  BY DEF Expand, PopFront
<1>2. /\ UNCHANGED <<model, cfg, arena, trace, outcome>>
      /\ cur' = Popped + 1 /\ cur' = Head(frontier) /\ Popped' = Popped + 1
      /\ Popped \in Nat /\ cur' \in DOMAIN arena
  BY <1>1, PopFacts
<1>3. /\ FrontierIsSuffix' /\ LinksAreSteps' /\ DepthsInOrder' /\ RootsCovered'
      /\ NothingFound' /\ TraceGrows' /\ NothingReported'
  BY <1>1, PopContinues
<1>4. TwoLevels'
  BY <1>1, <1>2 DEF IInv, TwoLevels
<1>5. PoppedCovered'
  <2>1. ASSUME NEW id \in 1 .. Popped + 1, id # Popped + 1,
               ~ Reached(cfg.maxSteps, arena[id].depth),
               NEW t \in Range(model.step[arena[id].state])
        PROVE  SeenBy(t, arena[id].depth + 1)
    <3>1. id \in 1 .. Popped
      BY <1>2, <2>1
    <3>2. QED
      BY <1>1, <2>1, <3>1 DEF IInv, PoppedCovered
  <2>2. QED
    BY <1>1, <1>2, <2>1 DEF PoppedCovered, SeenBy
<1>6. QED
  BY <1>3, <1>4, <1>5 DEF IInv

\* SkipSeen keeps the invariant.
LEMMA SkipSeenStep ==
  ASSUME IInv, TypeOK', SkipSeen
  PROVE  IInv'
<1>1. /\ pc = "expand" /\ todo # << >> /\ Seen(Head(todo)) /\ todo' = Tail(todo)
      /\ UNCHANGED <<model, cfg, pc, arena, frontier, cur, maxDepth, pending, trace, outcome>>
  BY DEF SkipSeen
<1>2. Range(todo) = {Head(todo)} \cup Range(todo')
  BY <1>1, TailFacts DEF IInv, TypeOK
<1>3. FrontierIsSuffix' /\ LinksAreSteps' /\ DepthsInOrder' /\ TwoLevels'
  BY <1>1 DEF IInv, FrontierIsSuffix, LinksAreSteps, DepthsInOrder, TwoLevels, Searching, Popped
<1>4. RootsCovered'
  BY <1>1 DEF IInv, RootsCovered, SeenBy
<1>5. NothingFound' /\ TraceGrows' /\ NothingReported'
  BY <1>1 DEF IInv, NothingFound, TraceGrows, NothingReported, Searching, Popped, Expandable
<1>6. PoppedCovered'
  <2>1. SeenBy(Head(todo), arena[cur].depth + 1)
    BY <1>1 DEF Seen, SeenBy, IInv, TwoLevels
  <2>2. ASSUME NEW t \in Range(model.step[arena[cur].state])
        PROVE  t \in Range(todo') \/ SeenBy(t, arena[cur].depth + 1)
    <3>1. t \in Range(todo) \/ SeenBy(t, arena[cur].depth + 1)
      BY <1>1 DEF IInv, PoppedCovered
    <3>2. QED
      BY <1>2, <2>1, <3>1
  <2>3. Range(todo') \subseteq Range(model.step[arena[cur].state])
    BY <1>1, <1>2 DEF IInv, PoppedCovered
  <2>4. ~ Reached(cfg.maxSteps, arena[cur].depth)
    BY <1>1 DEF IInv, PoppedCovered
  <2>5. ASSUME NEW id \in 1 .. Popped, id # cur, ~ Reached(cfg.maxSteps, arena[id].depth),
               NEW t \in Range(model.step[arena[id].state])
        PROVE  SeenBy(t, arena[id].depth + 1)
    BY <1>1, <2>5 DEF IInv, PoppedCovered
  <2>6. Popped' = Popped
    BY <1>1 DEF Popped
  <2>7. \A t, n : SeenBy(t, n)' <=> SeenBy(t, n)
    BY <1>1 DEF SeenBy
  <2>8. /\ cur' = cur /\ arena' = arena /\ model' = model /\ cfg' = cfg /\ pc' = pc
        /\ pc = "expand"
    BY <1>1
  <2>9. QED
    BY <2>2, <2>3, <2>4, <2>5, <2>6, <2>7, <2>8 DEF PoppedCovered
<1>7. QED
  BY <1>3, <1>4, <1>5, <1>6 DEF IInv

\* ListDone keeps the invariant.
LEMMA ListDoneStep ==
  ASSUME IInv, TypeOK', ListDone
  PROVE  IInv'
<1>1. /\ pc \in {"init", "expand"} /\ todo = << >> /\ pc' = "pop"
      /\ UNCHANGED <<model, cfg, todo, arena, frontier, cur, maxDepth, pending, trace, outcome>>
  BY DEF ListDone
<1>2. Range(todo) = {}
  BY <1>1 DEF Range
<1>3. FrontierIsSuffix' /\ LinksAreSteps' /\ DepthsInOrder'
  BY <1>1 DEF IInv, FrontierIsSuffix, LinksAreSteps, DepthsInOrder, Searching, Popped
<1>4. NothingFound' /\ TraceGrows' /\ NothingReported'
  BY <1>1 DEF IInv, NothingFound, TraceGrows, NothingReported, Searching, Popped, Expandable
<1>5. RootsCovered'
  BY <1>1, <1>2 DEF IInv, RootsCovered, SeenBy
<1>6. PoppedCovered'
  <2>1. CASE pc = "init"
    <3>1. Popped = 0 /\ Popped' = 0
      BY <1>1, <2>1 DEF IInv, RootsCovered, Popped
    <3>2. QED
      BY <1>1, <3>1 DEF PoppedCovered
  <2>2. CASE pc = "expand"
    <3>1. cur = Popped
      BY <2>2 DEF IInv, TwoLevels
    <3>2. ASSUME NEW id \in 1 .. Popped, ~ Reached(cfg.maxSteps, arena[id].depth),
                 NEW t \in Range(model.step[arena[id].state])
          PROVE  SeenBy(t, arena[id].depth + 1)
      BY <1>2, <2>2, <3>1, <3>2 DEF IInv, PoppedCovered
    <3>3. QED
      BY <1>1, <3>2 DEF PoppedCovered, SeenBy, Popped
  <2>3. QED
    BY <1>1, <2>1, <2>2
<1>7. TwoLevels'
  <2>1. SUFFICES ASSUME frontier # << >>, NEW id \in DOMAIN arena
                 PROVE  arena[id].depth <= arena[Head(frontier)].depth + 1
    BY <1>1 DEF TwoLevels
  <2>2. /\ Head(frontier) = Popped + 1
        /\ Popped \in Nat
        /\ Head(frontier) \in DOMAIN arena
    <3>1. Len(frontier) \in Nat \ {0} /\ Len(arena) \in Nat /\ Len(frontier) <= Len(arena)
      BY <1>1, <2>1 DEF IInv, TypeOK, FrontierIsSuffix, Searching
    <3>2. Head(frontier) = frontier[1] /\ 1 \in DOMAIN frontier
      BY <2>1, <3>1 DEF IInv, TypeOK
    <3>3. Head(frontier) = Popped + 1
      BY <1>1, <3>2 DEF IInv, FrontierIsSuffix, Searching
    <3>4. Popped \in Nat /\ Popped + 1 \in 1 .. Len(arena)
      BY <3>1 DEF Popped
    <3>5. QED
      BY <3>3, <3>4 DEF IInv, TypeOK
  <2>3. arena[id].depth \in Nat /\ arena[Head(frontier)].depth \in Nat
    BY <2>2, ArenaTypes DEF IInv
  <2>4. CASE pc = "init"
    BY <2>2, <2>3, <2>4 DEF IInv, TwoLevels
  <2>5. CASE pc = "expand"
    <3>1. cur = Popped /\ cur \in DOMAIN arena /\ arena[id].depth <= arena[cur].depth + 1
      BY <2>5 DEF IInv, TwoLevels
    <3>2. arena[cur].depth <= arena[Head(frontier)].depth
      BY <2>2, <3>1 DEF IInv, DepthsInOrder
    <3>3. arena[cur].depth \in Nat
      BY <3>1, ArenaTypes DEF IInv
    <3>4. QED
      BY <2>3, <3>1, <3>2, <3>3
  <2>6. QED
    BY <1>1, <2>4, <2>5
<1>8. QED
  BY <1>3, <1>4, <1>5, <1>6, <1>7 DEF IInv

\* InitFails and EnumerateInit keep the invariant.
LEMMA StartStep ==
  ASSUME IInv, TypeOK', InitFails \/ EnumerateInit
  PROVE  IInv'
<1>1. /\ pc = "start" /\ pc' \in {"init", "done"}
      /\ UNCHANGED <<model, cfg, arena, frontier, trace>>
      /\ pc' = "init" => todo' = model.init /\ ~ model.initError /\ outcome' = outcome
  BY DEF InitFails, EnumerateInit
<1>2. arena = << >> /\ frontier = << >>
  BY <1>1 DEF IInv, RootsCovered
<1>3. Popped = 0 /\ Popped' = 0 /\ DOMAIN arena = {} /\ DOMAIN frontier = {}
  BY <1>1, <1>2 DEF Popped
<1>4. FrontierIsSuffix' /\ LinksAreSteps' /\ DepthsInOrder' /\ TwoLevels'
  <2>1. DOMAIN arena' = {} /\ DOMAIN frontier' = {} /\ Len(frontier') = 0 /\ Len(arena') = 0
    BY <1>1, <1>2
  <2>2. QED
    BY <1>1, <2>1 DEF FrontierIsSuffix, LinksAreSteps, DepthsInOrder, TwoLevels
<1>5. RootsCovered' /\ PoppedCovered'
  BY <1>1, <1>3 DEF RootsCovered, PoppedCovered
<1>6. NothingFound' /\ TraceGrows' /\ NothingReported'
  BY <1>1, <1>3 DEF IInv, NothingFound, TraceGrows, NothingReported, Searching
<1>7. QED
  BY <1>4, <1>5, <1>6 DEF IInv

\* ReportPass keeps the invariant.
LEMMA ReportPassStep ==
  ASSUME IInv, TypeOK', ReportPass
  PROVE  IInv'
<1>1. /\ pc' = "done"
      /\ UNCHANGED <<model, cfg, todo, arena, frontier, cur, maxDepth, pending, trace>>
  BY DEF ReportPass
<1>2. LinksAreSteps' /\ DepthsInOrder'
  BY <1>1 DEF IInv, LinksAreSteps, DepthsInOrder
<1>3. QED
  BY <1>1, <1>2 DEF IInv, FrontierIsSuffix, TwoLevels, RootsCovered, PoppedCovered,
     NothingFound, TraceGrows, NothingReported, Searching

(***************************************************************************)
(* One step of the trace walk: the collected trace grows at its front, and *)
(* remains a run of steps with the same final state.                       *)
(***************************************************************************)
LEMMA WalkFacts ==
  ASSUME IInv, WalkTrace, NEW id \in DOMAIN arena, id = cur
  PROVE  /\ trace' # << >> /\ Len(trace) \in Nat /\ Len(trace') = Len(trace) + 1
         /\ trace'[1] = arena[id].state
         /\ Justified(model, cfg, pending, Final(trace'), arena[id].depth + Len(trace'))
         /\ \A i \in 1 .. Len(trace') - 1 : trace'[i + 1] \in Range(model.step[trace'[i]])
<1>1. /\ pc = "trace" /\ trace' = <<arena[cur].state>> \o trace
      /\ trace \in Seq(States) /\ arena[id].state \in States /\ arena[id].depth \in Nat
  BY ArenaTypes DEF WalkTrace, IInv, TypeOK
<1>2. /\ Len(trace') = Len(trace) + 1 /\ Len(trace) \in Nat
      /\ trace' # << >>
      /\ trace'[1] = arena[id].state
      /\ \A i \in 1 .. Len(trace) : trace'[i + 1] = trace[i]
  BY <1>1
<1>3. Final(trace') = IF trace = << >> THEN arena[id].state ELSE Final(trace)
  <2>1. CASE trace = << >>
    BY <1>2, <2>1 DEF Final
  <2>2. CASE trace # << >>
    <3>1. Len(trace) \in 1 .. Len(trace)
      BY <1>1, <2>2
    <3>2. QED
      BY <1>2, <2>2, <3>1 DEF Final
  <2>3. QED
    BY <2>1, <2>2
<1>4. ASSUME NEW i \in 1 .. Len(trace') - 1
      PROVE  trace'[i + 1] \in Range(model.step[trace'[i]])
  <2>1. CASE i = 1
    <3>1. trace # << >> /\ 1 \in 1 .. Len(trace)
      BY <1>1, <1>2, <2>1
    <3>2. QED
      BY <1>1, <1>2, <2>1, <3>1 DEF IInv, TraceGrows
  <2>2. CASE i # 1
    <3>1. i - 1 \in 1 .. Len(trace) - 1 /\ (i - 1) + 1 = i
      BY <1>2, <2>2
    <3>2. trace'[i + 1] = trace[i] /\ trace'[i] = trace[i - 1]
      BY <1>2, <3>1
    <3>3. trace[(i - 1) + 1] \in Range(model.step[trace[i - 1]])
      BY <1>1, <3>1 DEF IInv, TraceGrows
    <3>4. QED
      BY <3>1, <3>2, <3>3
  <2>3. QED
    BY <2>1, <2>2
<1>5. Justified(model, cfg, pending, Final(trace'), arena[id].depth + Len(trace'))
  <2>1. Justified(model, cfg, pending, Final(trace'), arena[id].depth + 1 + Len(trace))
    BY <1>1, <1>3 DEF IInv, TraceGrows
  <2> PICK d \in Nat, k \in Nat : d = arena[id].depth /\ k = Len(trace)
    BY <1>1, <1>2
  <2>2. arena[id].depth + 1 + Len(trace) = arena[id].depth + Len(trace')
    <3>1. d + 1 + k = d + (k + 1)
      OBVIOUS
    <3>2. QED
      BY <1>2, <3>1
  <2>3. QED
    BY <2>1, <2>2
<1>6. QED
  BY <1>2, <1>4, <1>5

\* WalkTrace keeps the invariant.
LEMMA WalkTraceStep ==
  ASSUME IInv, TypeOK', WalkTrace
  PROVE  IInv'
<1>1. /\ pc = "trace" /\ pc' \in {"trace", "done"}
      /\ UNCHANGED <<model, cfg, todo, arena, frontier, maxDepth, pending>>
  BY DEF WalkTrace
<1>2. FrontierIsSuffix' /\ LinksAreSteps' /\ DepthsInOrder' /\ TwoLevels'
  BY <1>1 DEF IInv, FrontierIsSuffix, LinksAreSteps, DepthsInOrder, TwoLevels, Searching
<1>3. RootsCovered' /\ PoppedCovered' /\ NothingFound'
  BY <1>1 DEF RootsCovered, PoppedCovered, NothingFound, Searching
<1>4. NothingReported'
  BY <1>1 DEF WalkTrace, IInv, NothingReported
<1>5. TraceGrows'
  <2>1. SUFFICES ASSUME pc' = "trace" PROVE TraceGrows'
    BY DEF TraceGrows
  <2>2. /\ cur \in DOMAIN arena /\ pending \in {"violation", "deadlock", "error"}
        /\ arena[cur].parent # NoParent /\ cur' = arena[cur].parent
    BY <1>1, <2>1 DEF WalkTrace, IInv, TraceGrows
  <2> PICK id \in DOMAIN arena : id = cur
    BY <2>2
  <2>3. /\ arena[id].parent \in 1 .. id - 1
        /\ arena[id].depth = arena[arena[id].parent].depth + 1
        /\ arena[id].state \in Range(model.step[arena[arena[id].parent].state])
    BY <2>2, ArenaTypes DEF IInv, LinksAreSteps, NoParent
  <2> PICK up \in DOMAIN arena : up = arena[id].parent
    <3>1. DOMAIN arena = 1 .. Len(arena) /\ Len(arena) \in Nat /\ id \in 1 .. Len(arena)
      BY DEF IInv, TypeOK
    <3>2. QED
      BY <2>3, <3>1
  <2>4. arena[id].depth = arena[up].depth + 1 /\ cur' = up
    BY <2>2, <2>3
  <2>5. /\ trace' # << >>
        /\ trace'[1] = arena[id].state
        /\ Justified(model, cfg, pending, Final(trace'), arena[id].depth + Len(trace'))
        /\ \A i \in 1 .. Len(trace') - 1 : trace'[i + 1] \in Range(model.step[trace'[i]])
    BY WalkFacts
  <2>6. trace'[1] \in Range(model.step[arena[up].state])
    BY <2>3, <2>5
  <2>7. Justified(model, cfg, pending, Final(trace'), arena[up].depth + 1 + Len(trace'))
    BY <2>4, <2>5
  <2>8. QED
    BY <1>1, <2>2, <2>4, <2>5, <2>6, <2>7 DEF TraceGrows
<1>6. QED
  BY <1>2, <1>3, <1>4, <1>5 DEF IInv

-----------------------------------------------------------------------------
\* The invariant holds initially.
LEMMA IInvInit == Init => IInv
<1> SUFFICES ASSUME Init PROVE IInv
  OBVIOUS
<1>1. arena = << >> /\ frontier = << >> /\ DOMAIN arena = {} /\ DOMAIN frontier = {}
  BY DEF Init
<1>2. Popped = 0
  BY <1>1 DEF Popped
<1>3. FrontierIsSuffix
  BY <1>1 DEF FrontierIsSuffix
<1>4. LinksAreSteps /\ DepthsInOrder /\ TwoLevels
  BY <1>1 DEF Init, LinksAreSteps, DepthsInOrder, TwoLevels
<1>5. RootsCovered /\ PoppedCovered /\ NothingFound /\ TraceGrows /\ NothingReported
  BY <1>1, <1>2 DEF Init, RootsCovered, PoppedCovered, NothingFound, TraceGrows, NothingReported
<1>6. QED
  BY TypeInit, <1>3, <1>4, <1>5 DEF IInv

\* Every step keeps the invariant.
LEMMA IInvStep == IInv /\ [Next]_vars => IInv'
<1> SUFFICES ASSUME IInv, [Next]_vars PROVE IInv'
  OBVIOUS
<1>0. TypeOK'
  BY TypeStep DEF IInv
<1>1. CASE InitFails \/ EnumerateInit
  BY <1>0, <1>1, StartStep
<1>2. CASE AdmitInitial
  BY <1>0, <1>2, AdmitInitialStep
<1>3. CASE AdmitSuccessor
  BY <1>0, <1>3, AdmitSuccessorStep
<1>4. CASE SkipSeen
  BY <1>0, <1>4, SkipSeenStep
<1>5. CASE ListDone
  BY <1>0, <1>5, ListDoneStep
<1>6. CASE StepFails
  BY <1>0, <1>6, StepFailsStep
<1>7. CASE FindDeadlock
  BY <1>0, <1>7, FindDeadlockStep
<1>8. CASE StopAtBound
  BY <1>0, <1>8, StopAtBoundStep
<1>9. CASE Expand
  BY <1>0, <1>9, ExpandStep
<1>10. CASE ReportPass
  BY <1>0, <1>10, ReportPassStep
<1>11. CASE WalkTrace
  BY <1>0, <1>11, WalkTraceStep
<1>12. CASE UNCHANGED vars
  <2>1. FrontierIsSuffix' /\ LinksAreSteps' /\ DepthsInOrder' /\ TwoLevels'
    BY <1>12 DEF vars, IInv, FrontierIsSuffix, LinksAreSteps, DepthsInOrder, TwoLevels, Searching, Popped
  <2>2. RootsCovered' /\ PoppedCovered'
    BY <1>12 DEF vars, IInv, RootsCovered, PoppedCovered, SeenBy, Popped
  <2>3. NothingFound' /\ TraceGrows' /\ NothingReported'
    BY <1>12 DEF vars, IInv, NothingFound, TraceGrows, NothingReported, Searching, Popped, Expandable
  <2>4. QED
    BY <1>0, <2>1, <2>2, <2>3 DEF IInv
<1>13. CASE Returned
  BY <1>12, <1>13 DEF Returned
<1>14. QED
  BY <1>1, <1>2, <1>3, <1>4, <1>5, <1>6, <1>7, <1>8, <1>9, <1>10, <1>11, <1>12, <1>13 DEF Next

(***************************************************************************)
(* The exact search is type correct, and its inductive invariant holds.    *)
(***************************************************************************)
THEOREM Invariance == Spec => []IInv
<1>1. QED
  BY IInvInit, IInvStep, PTL DEF Spec

\* The arena, the frontier and the report of check_exact are always well typed.
THEOREM TypeCorrectness == Spec => []TypeOK
<1>1. IInv => TypeOK
  BY DEF IInv
<1>2. QED
  BY Invariance, <1>1, PTL

-----------------------------------------------------------------------------
(***************************************************************************)
(* The promise is about the same program: the instance's operators are the *)
(* ones of SearchProblem.                                                  *)
(***************************************************************************)
LEMMA SameLayers ==
  ASSUME NEW m, NEW n
  PROVE  Promise!Layer(m, n) = Layer(m, n)
<1>1. Promise!Layers(m) = Layers(m)
  BY DEF Promise!Layers, Layers, Promise!Image, Image, Promise!Range, Range
<1>2. QED
  BY <1>1 DEF Promise!Layer, Layer

\* A report of a Pass is judged by Promise as by this module.
LEMMA SamePass ==
  ASSUME NEW m, NEW c, NEW n
  PROVE  /\ Promise!InScope(c, n) <=> InScope(c, n)
         /\ Promise!HoldsAt(m, n) <=> HoldsAt(m, n)
         /\ Promise!ExpandsAt(m, c, n) <=> ExpandsAt(m, c, n)
BY SameLayers DEF Promise!InScope, InScope, Promise!NoBound, NoBound,
   Promise!HoldsAt, HoldsAt, Promise!ExpandsAt, ExpandsAt

\* A counterexample is judged by Promise as by this module.
LEMMA SameCounterexample ==
  ASSUME NEW m, NEW c, NEW kind, NEW s, NEW n, NEW t
  PROVE  /\ IsTrace(m, t) => Promise!IsTrace(m, t)
         /\ Promise!Final(t) = Final(t)
         /\ Justified(m, c, kind, s, n) => Promise!Justified(m, c, kind, s, n)
<1>1. IsTrace(m, t) => Promise!IsTrace(m, t)
  BY DEF IsTrace, Promise!IsTrace, Promise!Range, Range
<1>2. Promise!Final(t) = Final(t)
  BY DEF Final, Promise!Final
<1>3. Culprit(m, c, kind, s) => Promise!Culprit(m, c, kind, s)
  BY DEF Culprit, Promise!Culprit
<1>4. \A k : NothingBefore(m, c, k) => Promise!NothingBefore(m, c, k)
  BY SamePass DEF NothingBefore, Promise!NothingBefore
<1>5. Justified(m, c, kind, s, n) => Promise!Justified(m, c, kind, s, n)
  BY <1>3, <1>4, SamePass DEF Justified, Promise!Justified
<1>6. QED
  BY <1>1, <1>2, <1>5

(***************************************************************************)
(* What is reported is true.  A Pass is reported when every discovered     *)
(* state has been popped: then every layer within the bound is clean.      *)
(***************************************************************************)
LEMMA PassReported ==
  ASSUME IInv, ReportPass
  PROVE  Promise!PassIsTrue(model, cfg)
<1>1. pc = "pop" /\ frontier = << >>
  BY DEF ReportPass
<1>2. Popped = Len(arena)
  BY <1>1 DEF IInv, TypeOK, Popped
<1>3. \A id \in DOMAIN arena : id \in 1 .. Popped
  BY <1>2, ArenaTypes DEF IInv
<1>4. ~ model.initError
  BY <1>1 DEF IInv, NothingFound, Searching
<1>5. ASSUME NEW n \in 0 .. Horizon, InScope(cfg, n)
      PROVE  HoldsAt(model, n) /\ ExpandsAt(model, cfg, n)
  <2>1. n \in Nat
    BY SearchAssumption
  <2>2. \A k \in 0 .. n : \A s \in Layer(model, k) : SeenBy(s, k)
    BY <1>1, <1>3, <1>5, <2>1, LayersSeen DEF IInv
  <2>3. \A s \in Layer(model, n) : SeenBy(s, n)
    BY <2>1, <2>2
  <2>4. \A id \in DOMAIN arena :
          model.invs[arena[id].state] = "holds" /\ Expandable(arena[id].state)
    BY <1>1, <1>3 DEF IInv, NothingFound, Searching
  <2>5. QED
    BY <2>3, <2>4 DEF SeenBy, HoldsAt, ExpandsAt, Expandable
<1>6. QED
  BY <1>4, <1>5, SamePass DEF Promise!PassIsTrue

\* The report of WalkTrace is true.
LEMMA TraceReported ==
  ASSUME IInv, WalkTrace, outcome' # outcome
  PROVE  /\ outcome' = Counterexample(pending, trace')
         /\ pending \in {"violation", "deadlock", "error"}
         /\ Promise!CounterexampleIsTrue(model, cfg, pending, trace')
<1>1. /\ outcome' = Counterexample(pending, trace') /\ cur \in DOMAIN arena
      /\ arena[cur].parent = NoParent /\ pending \in {"violation", "deadlock", "error"}
  BY DEF WalkTrace, IInv, TraceGrows
<1> PICK id \in DOMAIN arena : id = cur
  BY <1>1
<1>2. arena[id].depth = 0 /\ arena[id].state \in Range(model.init)
  BY <1>1 DEF IInv, LinksAreSteps
<1>3. /\ trace' # << >> /\ Len(trace) \in Nat /\ Len(trace') = Len(trace) + 1
      /\ trace'[1] = arena[id].state
      /\ Justified(model, cfg, pending, Final(trace'), arena[id].depth + Len(trace'))
      /\ \A i \in 1 .. Len(trace') - 1 : trace'[i + 1] \in Range(model.step[trace'[i]])
  BY WalkFacts
<1>4. arena[id].depth + Len(trace') = Len(trace')
  BY <1>2, <1>3
<1>5. Justified(model, cfg, pending, Final(trace'), Len(trace'))
  BY <1>3, <1>4
<1>6. IsTrace(model, trace')
  BY <1>2, <1>3 DEF IsTrace
<1>7. QED
  BY <1>1, <1>5, <1>6, SameCounterexample DEF Promise!CounterexampleIsTrue

\* The Incomplete report of Admit is true.
LEMMA AdmitReported ==
  ASSUME NEW s, NEW parent, NEW depth, Admit(s, parent, depth), outcome' # outcome
  PROVE  \E n : outcome' = IncompleteOf(n) /\ Reached(cfg.maxStates, n)
BY DEF Admit

(***************************************************************************)
(* Every step of the search is a step of the promise or leaves it alone.   *)
(***************************************************************************)
LEMMA PromiseStep ==
  ASSUME IInv, [Next]_vars
  PROVE  [Promise!Report]_(Promise!promiseVars)
<1>1. UNCHANGED <<model, cfg>>
  BY DEF Next, vars, InitFails, EnumerateInit, AdmitInitial, AdmitSuccessor, Admit, SkipSeen,
     ListDone, PopFront, StepFails, FindDeadlock, StopAtBound, Expand, ReportPass, WalkTrace,
     Returned
<1>2. SUFFICES ASSUME outcome' # outcome PROVE Promise!Report
  BY <1>1 DEF Promise!promiseVars
<1>3. \/ InitFails \/ AdmitInitial \/ AdmitSuccessor \/ ReportPass \/ WalkTrace
  BY <1>2 DEF Next, vars, EnumerateInit, SkipSeen, ListDone, PopFront, StepFails,
     FindDeadlock, StopAtBound, Expand, Returned
<1>4. outcome.kind = "running"
  <2>1. pc # "done"
    BY <1>3 DEF InitFails, AdmitInitial, AdmitSuccessor, ReportPass, WalkTrace
  <2>2. QED
    BY <2>1 DEF IInv, NothingReported, Running, Outcome
<1>5. outcome'.kind # "running" /\ Promise!Truthful(model, cfg, outcome')
  <2>1. CASE InitFails
    BY <2>1 DEF InitFails, Counterexample, Outcome, Promise!Truthful,
       Promise!CounterexampleIsTrue
  <2>2. CASE AdmitInitial \/ AdmitSuccessor
    <3>1. PICK n : outcome' = IncompleteOf(n) /\ Reached(cfg.maxStates, n)
      BY <1>2, <2>2, AdmitReported DEF AdmitInitial, AdmitSuccessor
    <3>2. QED
      BY <3>1 DEF IncompleteOf, Outcome, Promise!Truthful, Reached, Promise!Reached,
         NoBound, Promise!NoBound
  <2>3. CASE ReportPass
    <3>1. outcome'.kind = "pass"
      BY <2>3 DEF ReportPass, PassOf, Outcome
    <3>2. QED
      BY <2>3, <3>1, PassReported DEF Promise!Truthful
  <2>4. CASE WalkTrace
    <3>1. /\ outcome' = Counterexample(pending, trace')
          /\ pending \in {"violation", "deadlock", "error"}
          /\ Promise!CounterexampleIsTrue(model, cfg, pending, trace')
      BY <1>2, <2>4, TraceReported
    <3>2. QED
      BY <3>1 DEF Counterexample, Outcome, Promise!Truthful
  <2>5. QED
    BY <1>3, <2>1, <2>2, <2>3, <2>4
<1>6. QED
  BY <1>1, <1>4, <1>5 DEF Promise!Report

(***************************************************************************)
(* check_exact implements the promise of a safety search: its Pass omits   *)
(* no state within the bounds, its counterexamples are behaviours of the   *)
(* program and shortest ones.                                              *)
(***************************************************************************)
THEOREM Refinement == Spec => KeepsPromise
<1>1. Init => Promise!Init
  BY DEF Init, Promise!Init, Running, Outcome, Promise!Running, Promise!Outcome
<1>2. IInv /\ [Next]_vars => [Promise!Report]_(Promise!promiseVars)
  BY PromiseStep
<1>3. QED
  BY <1>1, <1>2, Invariance, PTL DEF Spec, KeepsPromise, Promise!Spec

-----------------------------------------------------------------------------
(***************************************************************************)
(* Distances.  A state enters the arena below the one under expansion, and *)
(* what is nearer than that has entered before.                            *)
(***************************************************************************)
LEMMA AdmitDistance ==
  ASSUME IInv, DepthsAreDistances, NEW s, NEW parent, NEW depth, CanAdmit(s, parent, depth),
         s \in Layer(model, depth), \A n \in 0 .. depth - 1 : s \notin Layer(model, n)
  PROVE  DepthsAreDistances'
<1>1. Admitted(s, parent, depth)
  BY AdmitArena
<1>2. ASSUME NEW id \in DOMAIN arena'
      PROVE  /\ arena'[id].state \in Layer(model, arena'[id].depth)
             /\ \A n \in 0 .. arena'[id].depth - 1 : arena'[id].state \notin Layer(model, n)
  <2>1. CASE id = Len(arena) + 1
    BY <1>1, <2>1 DEF Admitted
  <2>2. CASE id \in DOMAIN arena
    <3>1. arena'[id] = arena[id]
      BY <1>1, <2>2 DEF Admitted
    <3>2. QED
      BY <2>2, <3>1 DEF DepthsAreDistances
  <2>3. QED
    BY <1>1, <2>1, <2>2 DEF Admitted
<1>3. model' = model
  BY <1>1 DEF Admitted
<1>4. \A n : Layer(model, n)' = Layer(model, n)
  BY <1>3 DEF Layer, Layers, Image
<1>5. QED
  BY <1>2, <1>3 DEF DepthsAreDistances

\* Every step keeps the depths what they are said to be.
LEMMA DistanceStep ==
  ASSUME IInv, DepthsAreDistances, [Next]_vars
  PROVE  DepthsAreDistances'
<1>1. CASE UNCHANGED <<model, arena>>
  BY <1>1 DEF DepthsAreDistances
<1>2. CASE AdmitInitial
  <2>1. /\ pc = "init" /\ todo # << >> /\ Admit(Head(todo), NoParent, 0)
        /\ todo \in Seq(States) /\ model \in Models /\ cfg \in Configs
    BY <1>2 DEF AdmitInitial, IInv, TypeOK
  <2>2. Head(todo) \in States /\ Head(todo) \in Range(todo)
    BY <2>1, TailFacts
  <2>3. Head(todo) \in Range(model.init)
    BY <2>1, <2>2 DEF IInv, RootsCovered
  <2>4. InScope(cfg, 0) /\ Len(arena) \in Nat
    BY <2>1, ConfigFacts DEF InScope, IInv, TypeOK
  <2>5. \A id \in DOMAIN arena : arena[id].depth <= 0
    BY <2>1, ArenaTypes DEF IInv, TwoLevels
  <2>6. CanAdmit(Head(todo), NoParent, 0)
    BY <2>1, <2>2, <2>3, <2>4, <2>5 DEF CanAdmit, NoParent
  <2>7. Head(todo) \in Layer(model, 0) /\ \A n \in 0 .. 0 - 1 : Head(todo) \notin Layer(model, n)
    BY <2>1, <2>3, LayersEquations
  <2>8. QED
    BY <2>6, <2>7, AdmitDistance
<1>3. CASE AdmitSuccessor
  <2>1. /\ pc = "expand" /\ todo # << >> /\ ~ Seen(Head(todo))
        /\ Admit(Head(todo), cur, arena[cur].depth + 1)
        /\ TypeOK /\ todo \in Seq(States) /\ model \in Models /\ cfg \in Configs
    BY <1>3 DEF AdmitSuccessor, IInv, TypeOK
  <2>2. Head(todo) \in States /\ Head(todo) \in Range(todo)
    BY <2>1, TailFacts
  <2>3. PICK d \in Nat : d = arena[cur].depth
    BY <2>1, BeforeCurrent, ArenaTypes
  <2>4. /\ cur \in DOMAIN arena /\ cur \in Nat \ {0} /\ cur <= Len(arena) /\ cur = Popped
    BY <2>1, BeforeCurrent, ArenaTypes
  <2>5. /\ Head(todo) \in Range(model.step[arena[cur].state])
        /\ ~ Reached(cfg.maxSteps, d)
    BY <2>1, <2>2, <2>3 DEF IInv, PoppedCovered
  <2>6. CanAdmit(Head(todo), cur, d + 1)
    <3>1. InScope(cfg, d + 1)
      BY <2>1, <2>5, ConfigFacts DEF InScope, Reached
    <3>2. \A id \in DOMAIN arena : arena[id].depth <= d + 1
      BY <2>1, <2>3 DEF IInv, TwoLevels
    <3>3. cur # NoParent
      BY <2>4 DEF NoParent
    <3>4. QED
      BY <2>1, <2>2, <2>3, <2>4, <2>5, <3>1, <3>2, <3>3 DEF CanAdmit
  <2>7. Head(todo) \in Layer(model, d + 1)
    <3>1. arena[cur].state \in Layer(model, d)
      BY <2>3, <2>4 DEF DepthsAreDistances
    <3>2. QED
      BY <2>1, <2>5, <3>1, LayersGoOn
  <2>8. \A n \in 0 .. d : \A s \in Layer(model, n) : SeenBy(s, n)
    <3>1. InScope(cfg, d)
      BY <2>3, <2>4 DEF IInv, LinksAreSteps
    <3>2. ASSUME NEW id \in DOMAIN arena, arena[id].depth < d
          PROVE  id \in 1 .. Popped /\ id # cur
      <4>1. id \in Nat \ {0} /\ cur \in Nat /\ arena[id].depth \in Nat
        BY <2>1, <2>4, ArenaTypes
      <4>2. ~ (cur <= id)
        BY <2>3, <2>4, <3>2, <4>1 DEF IInv, DepthsInOrder
      <4>3. QED
        BY <2>4, <4>1, <4>2
    <3>3. QED
      BY <2>1, <3>1, <3>2, LayersSeen DEF IInv
  <2>9. \A n \in 0 .. (d + 1) - 1 : Head(todo) \notin Layer(model, n)
    <3>1. (d + 1) - 1 = d
      OBVIOUS
    <3>2. QED
      BY <2>1, <2>8, <3>1 DEF SeenBy, Seen
  <2>10. QED
    BY <2>6, <2>7, <2>9, AdmitDistance
<1>4. QED
  BY <1>1, <1>2, <1>3
     DEF Next, vars, InitFails, EnumerateInit, SkipSeen, ListDone, PopFront, StepFails, FindDeadlock,
         StopAtBound, Expand, ReportPass, WalkTrace, Returned

(***************************************************************************)
(* A state is stored once, at its distance from the initial states,        *)
(* whichever parent came first.                                            *)
(***************************************************************************)
THEOREM DepthsAreDistancesAlways == Spec => []DepthsAreDistances
<1>1. Init => DepthsAreDistances
  BY DEF Init, DepthsAreDistances
<1>2. QED
  BY <1>1, DistanceStep, Invariance, PTL DEF Spec

=============================================================================
