------------------------------ MODULE StateGraph ------------------------------
(***************************************************************************)
(* build of temporal/graph.rs: the reachable state graph of a program,     *)
(* closed under stuttering, with the value of every atom at every state    *)
(* and edge.  enumerate and enumerate_partial (successor.rs) are given by  *)
(* their results: the next states of SearchProblem, and for sub-actions a  *)
(* set of partial assignments.  maxSteps of the configuration is not read. *)
(*                                                                         *)
(* A state assigns a value to every variable; a partial run assigns some.  *)
(***************************************************************************)
EXTENDS SearchProblem

CONSTANT
    Specs       \* the specifications with their atoms; see the fields below

(* The fields of a specification:                                          *)
(*   program            init, step and invariants, a member of Models      *)
(*   partials           action |-> state |-> its partial runs              *)
(*   preds              state atom |-> states where it is true             *)
(*   enabled            state atom |-> [action, changed]: changed is <<>>  *)
(*                      for ENABLED A, <<v>> for ENABLED <A>_v             *)
(*   taken, kept        edge atom |-> [action, vars]: <A>_v and [A]_v      *)
(*   nextPreds          edge atom |-> pairs of states                      *)
(*   predFails          states where a predicate or a `v' raises an error *)
(*   actionFails        states where a sub-action or a `v' after it does  *)
(*   edgeFails          pairs of states where an edge atom does            *)
ASSUME GraphAssumption ==
    \A sp \in Specs :
        /\ sp.program \in Models
        /\ sp.predFails \subseteq States /\ sp.actionFails \subseteq States
        /\ sp.edgeFails \subseteq States \X States
        \* an atom is of one kind
        /\ DOMAIN sp.taken \cap (DOMAIN sp.kept \cup DOMAIN sp.nextPreds) = {}

VARIABLES
    spec, config,
    arena,        \* [state, parent, depth] of each state in order of discovery
    stateBits,    \* the atoms true at each state
    edges,        \* for each expanded state, the list of [to, atoms]
    initCount,    \* g.init_count, or Initial while initial states are interned
    outcome       \* the result of build

graphVars == <<spec, config, arena, stateBits, edges, initCount, outcome>>

NoParent == 0
Initial == -1

Program == spec.program

Result(kind, trace, states) == [kind |-> kind, trace |-> trace, states |-> states]

GraphInit ==
    /\ spec \in Specs
    /\ config \in Configs
    /\ arena = <<>> /\ stateBits = <<>> /\ edges = <<>>
    /\ initCount = Initial
    /\ outcome = Result("none", <<>>, 0)

Found(a) == {a[i].state : i \in DOMAIN a}
IdOf(a, s) == CHOOSE i \in DOMAIN a : a[i].state = s
ValueOf(v, s) == [x \in v |-> s[x]]

\* The states from an initial one to the one with the given id.
TraceTo(a, id) ==
    LET path[i \in DOMAIN a] ==
            IF a[i].parent = NoParent THEN <<a[i].state>>
            ELSE Append(path[a[i].parent], a[i].state)
    IN  path[id]

\* matches, framed, is_enabled of SubActionRuns
Matches(action, s, t) ==
    \E run \in spec.partials[action][s] : \A x \in DOMAIN run : run[x] = t[x]
Framed(action, s) ==
    {[x \in DOMAIN s |-> IF x \in DOMAIN run THEN run[x] ELSE s[x]] :
        run \in spec.partials[action][s]}

\* What intern evaluates on a fresh state: the predicates; Enabled atoms are put in later.
PredBits(s) == {a \in DOMAIN spec.preds : s \in spec.preds[a]}

EnabledBits(s) ==
    {a \in DOMAIN spec.enabled :
        LET e == spec.enabled[a]
        IN  IF e.changed = <<>> THEN spec.partials[e.action][s] # {}
            ELSE \E t \in Framed(e.action, s) :
                    ValueOf(e.changed[1], t) # ValueOf(e.changed[1], s)}

\* A bug: a stuttering step counts as a step of the action.
TakenStuttering(s, t) ==
    {a \in DOMAIN spec.taken : Matches(spec.taken[a].action, s, t)}
TakenBits(s, t) ==
    {a \in DOMAIN spec.taken :
        /\ Matches(spec.taken[a].action, s, t)
        /\ ValueOf(spec.taken[a].vars, s) # ValueOf(spec.taken[a].vars, t)}
KeptBits(s, t) ==
    {a \in DOMAIN spec.kept :
        \/ Matches(spec.kept[a].action, s, t)
        \/ ValueOf(spec.kept[a].vars, s) = ValueOf(spec.kept[a].vars, t)}
NextBits(s, t) == {a \in DOMAIN spec.nextPreds : <<s, t>> \in spec.nextPreds[a]}
EdgeBits(s, t) == TakenBits(s, t) \cup KeptBits(s, t) \cup NextBits(s, t)

\* What intern pushes for each of the states it has not seen.
Entries(fresh, parent, depth) ==
    [k \in DOMAIN fresh |-> [state |-> fresh[k], parent |-> parent, depth |-> depth]]
BitsOf(bits, a) ==
    [i \in DOMAIN a |-> IF i \in DOMAIN bits THEN bits[i] ELSE PredBits(a[i].state)]

AtCap(a) == Reached(config.maxStates, Len(a))
CapReport(a) == IF AtCap(a) THEN Result("incomplete", <<>>, Len(a)) ELSE outcome
Failed(trace) == Result("error", trace, 0)
Building == outcome.kind = "none"

\* build returns; the graph is dropped unless it is the result.
Report(o) == outcome' = o /\ UNCHANGED <<spec, config, arena, stateBits, edges, initCount>>

Interning == Building /\ initCount = Initial
InitialLeft == Interning /\ ~Program.initError /\ Len(arena) < Len(Program.init)
NextInitial == Program.init[Len(arena) + 1]

InitFails == Interning /\ Program.initError /\ Report(Failed(<<>>))

\* The list has no duplicates, so each initial state is fresh.
InitialFails ==
    /\ InitialLeft
    /\ NextInitial \in spec.predFails
    /\ Report(Failed(<<NextInitial>>))

\* One initial state; the cap is looked at after each.
InternInitial ==
    /\ InitialLeft
    /\ NextInitial \notin spec.predFails
    /\ arena' = arena \o Entries(<<NextInitial>>, NoParent, 0)
    /\ stateBits' = BitsOf(stateBits, arena')
    /\ outcome' = CapReport(arena')
    /\ UNCHANGED <<spec, config, edges, initCount>>

InitDone ==
    /\ Interning /\ ~Program.initError /\ Len(arena) = Len(Program.init)
    /\ initCount' = Len(arena)
    /\ UNCHANGED <<spec, config, arena, stateBits, edges, outcome>>

Cursor == Len(edges) + 1
Expanding == Building /\ initCount # Initial /\ Cursor <= Len(arena)
Source == arena[Cursor].state

StepFails ==
    /\ Expanding /\ Source \in Program.stepError
    /\ Report(Failed(TraceTo(arena, Cursor)))

FindDeadlock ==
    /\ Expanding /\ Source \notin Program.stepError
    /\ Program.step[Source] = <<>> /\ config.deadlock
    /\ Report(Result("deadlock", TraceTo(arena, Cursor), 0))

Expands(s) == s \notin Program.stepError /\ (config.deadlock => Program.step[s] # <<>>)

ActionFails ==
    /\ Expanding /\ Expands(Source) /\ Source \in spec.actionFails
    /\ Report(Failed(TraceTo(arena, Cursor)))

Targets(s) == IF s \in Range(Program.step[s]) THEN Program.step[s]
              ELSE Append(Program.step[s], s)

Fresh == Only(Targets(Source), States \ Found(arena))
FailingFresh == Only(Fresh, spec.predFails)
Interns == Expanding /\ Expands(Source) /\ Source \notin spec.actionFails

TargetFails ==
    /\ Interns /\ FailingFresh # <<>>
    /\ Report(Failed(Append(TraceTo(arena, Cursor), FailingFresh[1])))

EdgeFailsAt(s) == \E t \in Range(Targets(s)) : <<s, t>> \in spec.edgeFails

EdgeFails ==
    /\ Interns /\ FailingFresh = <<>> /\ EdgeFailsAt(Source)
    /\ Report(Failed(TraceTo(arena, Cursor)))

\* A bug: targets get the depth of their source.
DepthOfSource == arena[Cursor].depth
NextDepth == arena[Cursor].depth + 1

GrownArena == arena \o Entries(Fresh, Cursor, NextDepth)

EdgesOf(a, s) ==
    [k \in DOMAIN Targets(s) |->
        [to |-> IdOf(a, Targets(s)[k]), atoms |-> EdgeBits(s, Targets(s)[k])]]

Expand ==
    /\ Interns /\ FailingFresh = <<>> /\ ~EdgeFailsAt(Source)
    /\ arena' = GrownArena
    /\ stateBits' = [BitsOf(stateBits, GrownArena) EXCEPT
                        ![Cursor] = @ \cup EnabledBits(Source)]
    /\ edges' = Append(edges, EdgesOf(GrownArena, Source))
    /\ outcome' = CapReport(GrownArena)
    /\ UNCHANGED <<spec, config, initCount>>

\* Invariants are looked at when the graph is complete.
Complete == Building /\ initCount # Initial /\ Cursor > Len(arena)
Violating == {id \in DOMAIN arena : Program.invs[arena[id].state] # "holds"}
\* A bug: the last violation is reported.
IsLast(id) == \A j \in Violating : id >= j
IsFirst(id) == \A j \in Violating : id <= j

GraphDone == Complete /\ Violating = {} /\ Report(Result("graph", <<>>, Len(arena)))

FindViolation ==
    /\ Complete
    /\ \E id \in Violating :
          /\ IsFirst(id)
          /\ Report(IF Program.invs[arena[id].state] = "violated"
                    THEN Result("invariant", TraceTo(arena, id), 0)
                    ELSE Failed(TraceTo(arena, id)))

BuildStep ==
    \/ InitFails \/ InitialFails \/ InternInitial \/ InitDone
    \/ StepFails \/ FindDeadlock \/ ActionFails \/ TargetFails \/ EdgeFails \/ Expand
    \/ GraphDone \/ FindViolation

GraphSpec == GraphInit /\ [][BuildStep]_graphVars

-------------------------------------------------------------------------------
Entry == [state : States, parent : Nat, depth : Nat]

StateAtomsOf(sp) == DOMAIN sp.preds \cup DOMAIN sp.enabled
EdgeAtomsOf(sp) == DOMAIN sp.taken \cup DOMAIN sp.kept \cup DOMAIN sp.nextPreds

GraphTypeOK ==
    /\ spec \in Specs
    /\ config \in Configs
    /\ arena \in Seq(Entry)
    /\ stateBits \in [DOMAIN arena -> SUBSET StateAtomsOf(spec)]
    /\ edges \in Seq(Seq([to : Nat, atoms : SUBSET EdgeAtomsOf(spec)]))
    /\ initCount \in Nat \cup {Initial}
    /\ outcome \in [kind : {"none", "error", "deadlock", "incomplete", "invariant", "graph"},
                     trace : Seq(States), states : Nat]

(* graph.rs:71: a finished graph has exactly the reachable states, each at *)
(* its distance from the initial ones and with its atoms, those filled in  *)
(* later too, and from each state exactly its next states and itself.      *)
GraphIsReachable ==
    outcome.kind = "graph" =>
        /\ \A n \in 0 .. Horizon : Layer(Program, n) \subseteq Found(arena)
        /\ \A i \in DOMAIN arena :
              LET s == arena[i].state
              IN  /\ s \in Layer(Program, arena[i].depth)
                  /\ \A n \in 0 .. arena[i].depth - 1 : s \notin Layer(Program, n)
                  /\ stateBits[i] = PredBits(s) \cup EnabledBits(s)
                  /\ {arena[e.to].state : e \in Range(edges[i])}
                        = Range(Program.step[s]) \cup {s}
                  /\ IsInjective([k \in DOMAIN edges[i] |-> edges[i][k].to])

(* graph.rs:4-8: the edge from a state to itself stands for a step of the  *)
(* program and for stuttering at once, which is sound because no <A>_v     *)
(* holds on it and every [A]_v does.                                       *)
StutterIsHarmless ==
    \A i \in DOMAIN edges : \A e \in Range(edges[i]) :
        e.to = i => /\ e.atoms \cap DOMAIN spec.taken = {}
                    /\ DOMAIN spec.kept \subseteq e.atoms

\* An evaluation at s, or on an edge from it, raises an error.
Fails(s) ==
    \/ s \in Program.stepError \cup spec.predFails \cup spec.actionFails
    \/ Program.invs[s] = "error"
    \/ EdgeFailsAt(s)

\* A deadlock is a nearest one, and no state nearer fails to expand.
DeadlockIsTrue(o) ==
    /\ IsTrace(Program, o.trace)
    /\ Culprit(Program, config, "deadlock", Final(o.trace))
    /\ \A n \in 0 .. Len(o.trace) - 2 : ExpandsAt(Program, config, n)

\* A violation is a nearest one, and is reported only when all states expand.
ViolationIsTrue(o) ==
    /\ IsTrace(Program, o.trace)
    /\ Culprit(Program, config, "violation", Final(o.trace))
    /\ \A n \in 0 .. Len(o.trace) - 2 : HoldsAt(Program, n)
    /\ \A n \in 0 .. Horizon : ExpandsAt(Program, config, n)

\* An error report leads to where an evaluation fails.
ErrorIsTrue(o) ==
    IF o.trace = <<>> THEN Program.initError
    ELSE IsTrace(Program, o.trace) /\ Fails(Final(o.trace))

NothingToReport ==
    \A n \in 0 .. Horizon :
        /\ HoldsAt(Program, n) /\ ExpandsAt(Program, config, n)
        /\ \A s \in Layer(Program, n) : ~Fails(s)

IsTrue(o) ==
    /\ o.kind = "deadlock" => DeadlockIsTrue(o)
    /\ o.kind = "invariant" => ViolationIsTrue(o)
    /\ o.kind = "error" => ErrorIsTrue(o)
    /\ o.kind = "incomplete" => Reached(config.maxStates, o.states)
    /\ o.kind = "graph" => NothingToReport

(* What build reports is true of the program (graph.rs:65-70, the results  *)
(* of build, and CheckError).                                              *)
BuildReportsAreTrue == IsTrue(outcome)

-------------------------------------------------------------------------------
(* The inductive invariant (TemporalProofs).                               *)

StatesOnce == \A i, j \in DOMAIN arena : arena[i].state = arena[j].state => i = j

\* Parent links lead to an initial state along steps of the program.
LinksAreSteps ==
    \A id \in DOMAIN arena :
        LET e == arena[id]
        IN  /\ e.parent < id
            /\ e.parent = NoParent => e.depth = 0 /\ e.state \in Range(Program.init)
            /\ e.parent # NoParent =>
                  /\ e.depth = arena[e.parent].depth + 1
                  /\ e.state \in Range(Program.step[arena[e.parent].state])

DepthsInOrder == \A i, j \in DOMAIN arena : i <= j => arena[i].depth <= arena[j].depth

\* Nothing is more than one level deeper than the state to expand next.
TwoLevels ==
    /\ initCount = Initial => \A i \in DOMAIN arena : arena[i].depth = 0
    /\ Cursor <= Len(arena) =>
          \A i \in DOMAIN arena : arena[i].depth <= arena[Cursor].depth + 1

\* The first states are the initial ones.
RootsFirst ==
    /\ \A k \in DOMAIN arena \cap DOMAIN Program.init :
          arena[k].state = Program.init[k] /\ arena[k].depth = 0
    /\ Len(edges) <= Len(arena)
    /\ initCount = Initial => edges = <<>> /\ Len(arena) <= Len(Program.init)
    /\ initCount # Initial => initCount = Len(Program.init) /\ initCount <= Len(arena)

\* No predicate failed; what is expanded has an edge to each target, in their order.
Expanded(i) ==
    LET s == arena[i].state
    IN  /\ Expands(s) /\ s \notin spec.actionFails /\ ~EdgeFailsAt(s)
        /\ Len(edges[i]) = Len(Targets(s))
        /\ \A k \in DOMAIN Targets(s) :
              LET e == edges[i][k]
              IN  /\ e.to \in DOMAIN arena
                  /\ arena[e.to].state = Targets(s)[k]
                  /\ arena[e.to].depth <= arena[i].depth + 1
                  /\ e.atoms = EdgeBits(s, Targets(s)[k])

EdgesAreTargets == \A i \in DOMAIN edges : Expanded(i)

\* Atoms of states; those of ENABLED are filled in when the state is expanded.
AtomsAreTrue ==
    \A i \in DOMAIN arena :
        LET s == arena[i].state
        IN  /\ s \notin spec.predFails
            /\ stateBits[i] = PredBits(s) \cup
                                (IF i \in DOMAIN edges THEN EnabledBits(s) ELSE {})

GraphIsFinished ==
    outcome.kind = "graph" => initCount # Initial /\ Len(edges) = Len(arena) /\ Violating = {}

IInv ==
    /\ GraphTypeOK /\ StatesOnce /\ LinksAreSteps /\ DepthsInOrder /\ TwoLevels
    /\ RootsFirst /\ EdgesAreTargets /\ AtomsAreTrue /\ GraphIsFinished
    /\ BuildReportsAreTrue
==============================================================================
