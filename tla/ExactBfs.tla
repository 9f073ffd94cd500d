------------------------------ MODULE ExactBfs -------------------------------
(***************************************************************************)
(* The exact search (--exact-states): breadth-first over full states kept  *)
(* in a flat arena, one loop iteration per action.                         *)
(*                                                                         *)
(* The arena, the seen-set and the frontier are the StateArena, SeenSet    *)
(* and VecDeque<u32> of check_exact; ids count from 1, and parent 0 is the *)
(* NO_PARENT of an initial state.  todo holds the rest of the list that    *)
(* the running `for' loop iterates over, cur the id being expanded and     *)
(* then the id the trace walk has come to.                                 *)
(***************************************************************************)
EXTENDS SearchProblem

VARIABLES
  model, cfg,   \* the program and the configuration, never changed
  pc,           \* where the search is
  todo,         \* initial states or successors still to be looked at
  arena,        \* discovered states in discovery order
  frontier,     \* ids waiting for expansion
  cur,          \* id under expansion, or next on the trace
  maxDepth,     \* largest depth popped
  pending,      \* the kind of counterexample whose trace is being collected
  trace,        \* the collected end of the trace
  outcome       \* what check_exact returned

vars == <<model, cfg, pc, todo, arena, frontier, cur, maxDepth, pending, trace, outcome>>

NoParent == 0

Entry == [state : States, parent : Nat, depth : Nat]

(***************************************************************************)
(* SeenSet looks a state up by comparing it with the arena's slices.       *)
(***************************************************************************)
Seen(s) == \E id \in DOMAIN arena : arena[id].state = s

Max2(a, b) == IF a >= b THEN a ELSE b

Init ==
  /\ model \in Models
  /\ cfg \in Configs
  /\ pc = "start"
  /\ todo = << >>
  /\ arena = << >>
  /\ frontier = << >>
  /\ cur = 0
  /\ maxDepth = 0
  /\ pending = "none"
  /\ trace = << >>
  /\ outcome = Running

(***************************************************************************)
(* enumerate(init) failed: an error report with no trace.                  *)
(***************************************************************************)
InitFails ==
  /\ pc = "start"
  /\ model.initError
  /\ outcome' = Counterexample("error", << >>)
  /\ pc' = "done"
  /\ UNCHANGED <<model, cfg, todo, arena, frontier, cur, maxDepth, pending, trace>>

EnumerateInit ==
  /\ pc = "start"
  /\ ~ model.initError
  /\ todo' = model.init
  /\ pc' = "init"
  /\ UNCHANGED <<model, cfg, arena, frontier, cur, maxDepth, pending, trace, outcome>>

-----------------------------------------------------------------------------
(***************************************************************************)
(* A fresh state enters the arena, and its invariants are checked.  A      *)
(* state that fails the check is not pushed; one that passes is, and then  *)
(* the state cap is looked at.                                             *)
(***************************************************************************)
Admit(s, parent, depth) ==
  LET id == Len(arena) + 1
  IN  /\ arena' = Append(arena, [state |-> s, parent |-> parent, depth |-> depth])
      /\ \/ /\ model.invs[s] # "holds"
            /\ pending' = IF model.invs[s] = "violated" THEN "violation" ELSE "error"
            /\ cur' = id
            /\ pc' = "trace"
            /\ UNCHANGED <<todo, frontier, outcome>>
         \/ /\ model.invs[s] = "holds"
            /\ frontier' = Append(frontier, id)
            /\ IF Reached(cfg.maxStates, id)
               THEN /\ outcome' = IncompleteOf(id)
                    /\ pc' = "done"
                    /\ UNCHANGED todo
               ELSE /\ todo' = Tail(todo)
                    /\ UNCHANGED <<pc, outcome>>
            /\ UNCHANGED <<cur, pending>>
      /\ UNCHANGED <<model, cfg, maxDepth, trace>>

AdmitInitial ==
  /\ pc = "init"
  /\ todo # << >>
  /\ Admit(Head(todo), NoParent, 0)

\* Mutant: the depth is counted from the state discovered last.
AdmitBelowLast ==
  /\ pc = "expand"
  /\ todo # << >>
  /\ ~ Seen(Head(todo))
  /\ Admit(Head(todo), cur, arena[Len(arena)].depth + 1)

AdmitSuccessor ==
  /\ pc = "expand"
  /\ todo # << >>
  /\ ~ Seen(Head(todo))
  /\ Admit(Head(todo), cur, arena[cur].depth + 1)

\* Mutant: a state seen before is looked at again and again.
SkipNothing ==
  /\ pc = "expand"
  /\ todo # << >>
  /\ Seen(Head(todo))
  /\ UNCHANGED vars

SkipSeen ==
  /\ pc = "expand"
  /\ todo # << >>
  /\ Seen(Head(todo))
  /\ todo' = Tail(todo)
  /\ UNCHANGED <<model, cfg, pc, arena, frontier, cur, maxDepth, pending, trace, outcome>>

ListDone ==
  /\ pc \in {"init", "expand"}
  /\ todo = << >>
  /\ pc' = "pop"
  /\ UNCHANGED <<model, cfg, todo, arena, frontier, cur, maxDepth, pending, trace, outcome>>

-----------------------------------------------------------------------------
(***************************************************************************)
(* The main loop takes the oldest id off the frontier and enumerates its   *)
(* successors, whatever its depth: an evaluation error and a deadlock are  *)
(* reported also for a state at the step bound.                            *)
(***************************************************************************)
PopFront ==
  /\ pc = "pop"
  /\ frontier # << >>
  /\ frontier' = Tail(frontier)
  /\ cur' = Head(frontier)
  /\ maxDepth' = Max2(maxDepth, arena[Head(frontier)].depth)
  /\ UNCHANGED <<model, cfg, arena, trace, outcome>>

StepFails ==
  /\ PopFront
  /\ arena[Head(frontier)].state \in model.stepError
  /\ pending' = "error"
  /\ pc' = "trace"
  /\ UNCHANGED todo

FindDeadlock ==
  /\ PopFront
  /\ LET s == arena[Head(frontier)].state
     IN  s \notin model.stepError /\ model.step[s] = << >>
  /\ cfg.deadlock
  /\ pending' = "deadlock"
  /\ pc' = "trace"
  /\ UNCHANGED todo

\* Mutant: errors and deadlocks are passed over.
AlwaysExpandable(s) == TRUE

(***************************************************************************)
(* The state expands, and either its successors are looked at or it is at  *)
(* the step bound and the loop continues with the next one.                *)
(***************************************************************************)
Expandable(s) == s \notin model.stepError /\ (cfg.deadlock => model.step[s] # << >>)

StopAtBound ==
  /\ PopFront
  /\ Expandable(arena[Head(frontier)].state)
  /\ Reached(cfg.maxSteps, arena[Head(frontier)].depth)
  /\ UNCHANGED <<pc, todo, pending>>

Expand ==
  /\ PopFront
  /\ Expandable(arena[Head(frontier)].state)
  /\ ~ Reached(cfg.maxSteps, arena[Head(frontier)].depth)
  /\ todo' = model.step[arena[Head(frontier)].state]
  /\ pc' = "expand"
  /\ UNCHANGED pending

ReportPass ==
  /\ pc = "pop"
  /\ frontier = << >>
  /\ outcome' = PassOf(Len(arena), maxDepth)
  /\ pc' = "done"
  /\ UNCHANGED <<model, cfg, todo, arena, frontier, cur, maxDepth, pending, trace>>

(***************************************************************************)
(* StateArena::trace: push the state, follow its parent, and reverse at    *)
(* the end (here the states are put in front instead).                     *)
(***************************************************************************)
WalkTrace ==
  /\ pc = "trace"
  /\ trace' = <<arena[cur].state>> \o trace
  /\ IF arena[cur].parent = NoParent
     THEN /\ outcome' = Counterexample(pending, trace')
          /\ pc' = "done"
          /\ UNCHANGED cur
     ELSE /\ cur' = arena[cur].parent
          /\ UNCHANGED <<pc, outcome>>
  /\ UNCHANGED <<model, cfg, todo, arena, frontier, maxDepth, pending>>

(***************************************************************************)
(* check_exact has returned.                                               *)
(***************************************************************************)
Returned == pc = "done" /\ UNCHANGED vars

Next ==
  \/ InitFails
  \/ EnumerateInit
  \/ AdmitInitial
  \/ AdmitSuccessor
  \/ SkipSeen
  \/ ListDone
  \/ StepFails
  \/ FindDeadlock
  \/ StopAtBound
  \/ Expand
  \/ ReportPass
  \/ WalkTrace
  \/ Returned

Spec == Init /\ [][Next]_vars

(***************************************************************************)
(* One thread runs the loop and nothing blocks it.                         *)
(***************************************************************************)
FairSpec == Spec /\ WF_vars(Next)

-----------------------------------------------------------------------------
TypeOK ==
  /\ model \in Models
  /\ cfg \in Configs
  /\ pc \in {"start", "init", "pop", "expand", "trace", "done"}
  /\ todo \in Seq(States)
  /\ arena \in Seq(Entry)
  /\ frontier \in Seq(Nat)
  /\ cur \in Nat
  /\ maxDepth \in Nat
  /\ pending \in {"none", "violation", "deadlock", "error"}
  /\ trace \in Seq(States)
  /\ outcome \in OutcomeType

(***************************************************************************)
(* Whatever check_exact reports is true: a Pass omits no state within the  *)
(* step bound, and a counterexample is a shortest one ("shortest by        *)
(* construction", explorer.rs:3).                                          *)
(***************************************************************************)
Promise == INSTANCE SearchPromise

KeepsPromise == Promise!Spec

(***************************************************************************)
(* The depth stored with a state is its distance from the initial states,  *)
(* although it is stored by whichever parent came first.                   *)
(***************************************************************************)
DepthsAreDistances ==
  \A id \in DOMAIN arena :
    LET e == arena[id]
    IN  /\ e.state \in Layer(model, e.depth)
        /\ \A n \in 0 .. e.depth - 1 : e.state \notin Layer(model, n)

(***************************************************************************)
(* The search of a finite program returns.                                 *)
(***************************************************************************)
Returns == <>(pc = "done")

-----------------------------------------------------------------------------
(***************************************************************************)
(* The inductive invariant of the search (ExactBfsProofs).                 *)
(***************************************************************************)
Searching == pc \in {"start", "init", "pop", "expand"}

Popped == Len(arena) - Len(frontier)

SeenBy(s, depth) ==
  \E id \in DOMAIN arena : arena[id].state = s /\ arena[id].depth <= depth

(***************************************************************************)
(* Ids are pushed as they are allocated, so the frontier is the run of ids *)
(* after those popped.                                                     *)
(***************************************************************************)
FrontierIsSuffix ==
  Searching =>
    /\ Len(frontier) <= Len(arena)
    /\ \A k \in DOMAIN frontier : frontier[k] = Popped + k

(***************************************************************************)
(* Parent links lead to an initial state along steps of the program, and   *)
(* depths, which count them, never decrease along the arena.               *)
(***************************************************************************)
LinksAreSteps ==
  \A id \in DOMAIN arena :
    LET e == arena[id]
    IN  /\ e.parent < id
        /\ InScope(cfg, e.depth)
        /\ e.parent = NoParent => e.depth = 0 /\ e.state \in Range(model.init)
        /\ e.parent # NoParent =>
             /\ e.depth = arena[e.parent].depth + 1
             /\ e.state \in Range(model.step[arena[e.parent].state])

DepthsInOrder ==
  \A i, j \in DOMAIN arena : i <= j => arena[i].depth <= arena[j].depth

(***************************************************************************)
(* Nothing is more than one level deeper than the state under expansion,   *)
(* or than the next one to pop.                                            *)
(***************************************************************************)
TwoLevels ==
  /\ pc = "init" => \A id \in DOMAIN arena : arena[id].depth = 0
  /\ pc = "expand" =>
       /\ cur = Popped
       /\ cur \in DOMAIN arena
       /\ \A id \in DOMAIN arena : arena[id].depth <= arena[cur].depth + 1
  /\ pc = "pop" /\ frontier # << >> =>
       \A id \in DOMAIN arena : arena[id].depth <= arena[Head(frontier)].depth + 1

(***************************************************************************)
(* Every initial state, and every successor of a popped state that is not  *)
(* at the bound, is in the arena or still in todo.                         *)
(***************************************************************************)
RootsCovered ==
  /\ pc = "start" => arena = << >> /\ frontier = << >>
  /\ pc = "init" =>
       /\ Popped = 0
       /\ Range(todo) \subseteq Range(model.init)
       /\ \A s \in Range(model.init) : s \in Range(todo) \/ SeenBy(s, 0)
  /\ pc \in {"pop", "expand"} => \A s \in Range(model.init) : SeenBy(s, 0)

PoppedCovered ==
  /\ pc \in {"pop", "expand"} =>
       \A id \in 1 .. Popped :
         /\ ~ (pc = "expand" /\ id = cur)
         /\ ~ Reached(cfg.maxSteps, arena[id].depth)
         => \A t \in Range(model.step[arena[id].state]) : SeenBy(t, arena[id].depth + 1)
  /\ pc = "expand" =>
       LET e == arena[cur]
       IN  /\ ~ Reached(cfg.maxSteps, e.depth)
           /\ Range(todo) \subseteq Range(model.step[e.state])
           /\ \A t \in Range(model.step[e.state]) :
                t \in Range(todo) \/ SeenBy(t, e.depth + 1)

(***************************************************************************)
(* As long as the search goes on, nothing it has looked at is to blame.    *)
(***************************************************************************)
NothingFound ==
  Searching =>
    /\ pc # "start" => ~ model.initError
    /\ \A id \in DOMAIN arena : model.invs[arena[id].state] = "holds"
    /\ \A id \in 1 .. Popped : Expandable(arena[id].state)

(***************************************************************************)
(* While the trace is collected: cur is its next state, and it will be a   *)
(* counterexample that is true.                                            *)
(***************************************************************************)
TraceGrows ==
  pc = "trace" =>
    /\ cur \in DOMAIN arena
    /\ pending \in {"violation", "deadlock", "error"}
    /\ LET e == arena[cur]
       IN  /\ Justified(model, cfg, pending, IF trace = << >> THEN e.state ELSE Final(trace),
                        e.depth + 1 + Len(trace))
           /\ trace # << >> => trace[1] \in Range(model.step[e.state])
    /\ \A i \in 1 .. Len(trace) - 1 : trace[i + 1] \in Range(model.step[trace[i]])

NothingReported ==
  /\ pc # "done" => outcome = Running
  /\ pc # "trace" /\ pc # "done" => trace = << >>

IInv ==
  /\ TypeOK
  /\ FrontierIsSuffix
  /\ LinksAreSteps
  /\ DepthsInOrder
  /\ TwoLevels
  /\ RootsCovered
  /\ PoppedCovered
  /\ NothingFound
  /\ TraceGrows
  /\ NothingReported

=============================================================================
