------------------------------- MODULE FpBfs ---------------------------------
(***************************************************************************)
(* The fingerprint search (the default, on one thread): breadth-first, but *)
(* only the fingerprint and the parent of a discovered state are kept.     *)
(* The trace of a counterexample is materialized by a second traversal     *)
(* that counts discoveries and keeps the states on the parent path.        *)
(*                                                                         *)
(* parents, fps and frontier are the Vec<u32>, FpSet and FlatFrontier of   *)
(* check_fp; a discovery index counts from 1, and parent 0 is NO_PARENT.   *)
(* fps, frontier and todo are used again by reconstruct, which creates its *)
(* own when the search's are no longer needed.                             *)
(***************************************************************************)
EXTENDS SearchProblem

CONSTANT Fingerprints   \* the hash functions considered

ASSUME FingerprintAssumption == \A f \in Fingerprints : f \in [States -> Nat]

VARIABLES
  model, cfg, fp,   \* the program, the configuration and the hash function
  pc,               \* where the search or the reconstruction is
  todo,             \* initial states or successors still to be looked at
  fps,              \* fingerprints seen
  parents,          \* parent of each discovery index
  frontier,         \* states waiting for expansion, with their depths
  popped,           \* FlatFrontier::pop_idx: the last discovery index popped
  depth,            \* the depth popped with it
  maxDepth,         \* largest depth popped by the search
  pending,          \* the kind of counterexample being reconstructed
  path,             \* the discovery indices of its trace
  counter,          \* discoveries of the second traversal
  found,            \* the states on the path materialized so far
  outcome           \* what check_fp returned

problem   == <<model, cfg, fp>>
traceVars == <<pending, path, counter, found>>
vars == <<problem, pc, todo, fps, parents, frontier, popped, depth, maxDepth, traceVars, outcome>>

NoParent == 0

Max2(a, b) == IF a >= b THEN a ELSE b

Init ==
  /\ model \in Models
  /\ cfg \in Configs
  /\ fp \in Fingerprints
  /\ pc = "start"
  /\ todo = << >>
  /\ fps = {}
  /\ parents = << >>
  /\ frontier = << >>
  /\ popped = 0
  /\ depth = 0
  /\ maxDepth = 0
  /\ pending = "none"
  /\ path = << >>
  /\ counter = 0
  /\ found = << >>
  /\ outcome = Running

InitFails ==
  /\ pc = "start"
  /\ model.initError
  /\ outcome' = Counterexample("error", << >>)
  /\ pc' = "done"
  /\ UNCHANGED <<problem, todo, fps, parents, frontier, popped, depth, maxDepth, traceVars>>

EnumerateInit ==
  /\ pc = "start"
  /\ ~ model.initError
  /\ todo' = model.init
  /\ pc' = "init"
  /\ UNCHANGED <<problem, fps, parents, frontier, popped, depth, maxDepth, traceVars, outcome>>

-----------------------------------------------------------------------------
\* Mutant: the fingerprint of a state that has left the frontier is forgotten.
LooksWaiting(s) == \E k \in DOMAIN frontier : fp[frontier[k].state] = fp[s]

(***************************************************************************)
(* FpSet::insert returns false: the state is taken for an old one.         *)
(***************************************************************************)
LooksSeen(s) == fp[s] \in fps

\* Mutant: the counter of the second traversal counts old states too.
SkipCounting ==
  /\ pc \in {"init", "expand", "reinit", "reexpand"}
  /\ todo # << >>
  /\ LooksSeen(Head(todo))
  /\ todo' = Tail(todo)
  /\ counter' = IF pc \in {"reinit", "reexpand"} THEN counter + 1 ELSE counter
  /\ UNCHANGED <<problem, pc, fps, parents, frontier, popped, depth, maxDepth,
                 pending, path, found, outcome>>

Skip ==
  /\ pc \in {"init", "expand", "reinit", "reexpand"}
  /\ todo # << >>
  /\ LooksSeen(Head(todo))
  /\ todo' = Tail(todo)
  /\ UNCHANGED <<problem, pc, fps, parents, frontier, popped, depth, maxDepth, traceVars, outcome>>

(***************************************************************************)
(* The search gives up and calls reconstruct for the trace to the target.  *)
(***************************************************************************)
Reconstruct(kind, target) ==
  /\ pending' = kind
  /\ path' = <<target>>
  /\ pc' = "path"
  /\ UNCHANGED <<counter, found>>

(***************************************************************************)
(* A fresh fingerprint: a discovery index is taken, and then the state's   *)
(* invariants are checked, and then the state cap is looked at.            *)
(***************************************************************************)
Admit(s, parent, d) ==
  LET index == Len(parents) + 1
  IN  /\ ~ LooksSeen(s)
      /\ fps' = fps \cup {fp[s]}
      /\ parents' = Append(parents, parent)
      /\ \/ /\ model.invs[s] # "holds"
            /\ Reconstruct(IF model.invs[s] = "violated" THEN "violation" ELSE "error", index)
            /\ UNCHANGED <<todo, frontier, outcome>>
         \/ /\ model.invs[s] = "holds"
            /\ frontier' = Append(frontier, [state |-> s, depth |-> d])
            /\ IF Reached(cfg.maxStates, index)
               THEN /\ outcome' = IncompleteOf(index)
                    /\ pc' = "done"
                    /\ UNCHANGED todo
               ELSE /\ todo' = Tail(todo)
                    /\ UNCHANGED <<pc, outcome>>
            /\ UNCHANGED traceVars
      /\ UNCHANGED <<problem, popped, depth, maxDepth>>

AdmitInitial ==
  /\ pc = "init"
  /\ todo # << >>
  /\ Admit(Head(todo), NoParent, 0)

AdmitSuccessor ==
  /\ pc = "expand"
  /\ todo # << >>
  /\ Admit(Head(todo), popped, depth + 1)

(***************************************************************************)
(* The `for' loop is over, and the `while' loop pops the next state.       *)
(***************************************************************************)
ListDone ==
  /\ todo = << >>
  /\ \/ pc \in {"init", "expand"} /\ pc' = "pop"
     \/ pc \in {"reinit", "reexpand"} /\ pc' = "repop"
  /\ UNCHANGED <<problem, todo, fps, parents, frontier, popped, depth, maxDepth, traceVars, outcome>>

-----------------------------------------------------------------------------
(***************************************************************************)
(* FlatFrontier::pop; the successors of the popped state are enumerated    *)
(* before the step bound is looked at.                                     *)
(***************************************************************************)
Pop ==
  /\ frontier # << >>
  /\ frontier' = Tail(frontier)
  /\ popped' = popped + 1
  /\ depth' = Head(frontier).depth

PopForSearch ==
  /\ pc = "pop"
  /\ Pop
  /\ maxDepth' = Max2(maxDepth, Head(frontier).depth)
  /\ UNCHANGED <<problem, fps, parents, outcome>>

StepFails ==
  /\ PopForSearch
  /\ Head(frontier).state \in model.stepError
  /\ Reconstruct("error", popped + 1)
  /\ UNCHANGED todo

\* Mutant: deadlocks are reported under --no-deadlock too.
FindAnyDeadlock ==
  /\ PopForSearch
  /\ Head(frontier).state \notin model.stepError
  /\ model.step[Head(frontier).state] = << >>
  /\ Reconstruct("deadlock", popped + 1)
  /\ UNCHANGED todo

FindDeadlock ==
  /\ PopForSearch
  /\ Head(frontier).state \notin model.stepError
  /\ model.step[Head(frontier).state] = << >>
  /\ cfg.deadlock
  /\ Reconstruct("deadlock", popped + 1)
  /\ UNCHANGED todo

Expandable(s) == s \notin model.stepError /\ (cfg.deadlock => model.step[s] # << >>)

StopAtBound ==
  /\ PopForSearch
  /\ Expandable(Head(frontier).state)
  /\ Reached(cfg.maxSteps, Head(frontier).depth)
  /\ UNCHANGED <<pc, todo, traceVars>>

Expand ==
  /\ PopForSearch
  /\ Expandable(Head(frontier).state)
  /\ ~ Reached(cfg.maxSteps, Head(frontier).depth)
  /\ todo' = model.step[Head(frontier).state]
  /\ pc' = "expand"
  /\ UNCHANGED traceVars

ReportPass ==
  /\ pc = "pop"
  /\ frontier = << >>
  /\ outcome' = PassOf(Len(parents), maxDepth)
  /\ pc' = "done"
  /\ UNCHANGED <<problem, todo, fps, parents, frontier, popped, depth, maxDepth, traceVars>>

-----------------------------------------------------------------------------
(***************************************************************************)
(* reconstruct: the path up to an initial state, then a second traversal   *)
(* with fingerprints, frontier and counter of its own.  A failure of init  *)
(* or step here (expect), or a path state that is not met (assert), would  *)
(* panic.                                                                  *)
(***************************************************************************)
Panic ==
  /\ outcome' = Outcome("panic", << >>, 0, 0)
  /\ pc' = "done"
  /\ UNCHANGED todo

WalkParents ==
  /\ pc = "path"
  /\ parents[Head(path)] # NoParent
  /\ path' = <<parents[Head(path)]>> \o path
  /\ UNCHANGED <<problem, pc, todo, fps, parents, frontier, popped, depth, maxDepth,
                 pending, counter, found, outcome>>

\* Mutant: the second traversal uses the fingerprint set of the first.
StartAgainSeen ==
  /\ pc = "path"
  /\ parents[Head(path)] = NoParent
  /\ frontier' = << >>
  /\ popped' = 0
  /\ depth' = 0
  /\ todo' = model.init
  /\ pc' = "reinit"
  /\ UNCHANGED <<problem, fps, parents, maxDepth, traceVars, outcome>>

StartAgain ==
  /\ pc = "path"
  /\ parents[Head(path)] = NoParent
  /\ fps' = {}
  /\ frontier' = << >>
  /\ popped' = 0
  /\ depth' = 0
  /\ IF model.initError
     THEN Panic
     ELSE todo' = model.init /\ pc' = "reinit" /\ UNCHANGED outcome
  /\ UNCHANGED <<problem, parents, maxDepth, traceVars>>

(***************************************************************************)
(* A discovery of the second traversal; when the last state of the path is *)
(* recorded, the trace is assembled and reported.                          *)
(***************************************************************************)
Rediscover(s, d) ==
  LET index == counter + 1
  IN  /\ ~ LooksSeen(s)
      /\ fps' = fps \cup {fp[s]}
      /\ counter' = index
      /\ found' = IF index \in Range(path)
                  THEN [i \in DOMAIN found \cup {index} |-> IF i = index THEN s ELSE found[i]]
                  ELSE found
      /\ IF DOMAIN found' = Range(path)
         THEN /\ outcome' = Counterexample(pending, [k \in DOMAIN path |-> found'[path[k]]])
              /\ pc' = "done"
              /\ UNCHANGED <<todo, frontier>>
         ELSE /\ frontier' = Append(frontier, [state |-> s, depth |-> d])
              /\ todo' = Tail(todo)
              /\ UNCHANGED <<pc, outcome>>
      /\ UNCHANGED <<problem, parents, popped, depth, maxDepth, pending, path>>

RediscoverInitial ==
  /\ pc = "reinit"
  /\ todo # << >>
  /\ Rediscover(Head(todo), 0)

RediscoverSuccessor ==
  /\ pc = "reexpand"
  /\ todo # << >>
  /\ Rediscover(Head(todo), depth + 1)

(***************************************************************************)
(* Here the bound is looked at before the successors are enumerated.       *)
(***************************************************************************)
PopAgain ==
  /\ pc = "repop"
  /\ IF frontier = << >>
     THEN Panic /\ UNCHANGED <<frontier, popped, depth>>
     ELSE /\ Pop
          /\ IF Reached(cfg.maxSteps, Head(frontier).depth)
             THEN UNCHANGED <<pc, todo, outcome>>
             ELSE IF Head(frontier).state \in model.stepError
             THEN Panic
             ELSE /\ todo' = model.step[Head(frontier).state]
                  /\ pc' = "reexpand"
                  /\ UNCHANGED outcome
  /\ UNCHANGED <<problem, fps, parents, maxDepth, traceVars>>

Returned == pc = "done" /\ UNCHANGED vars

Next ==
  \/ InitFails
  \/ EnumerateInit
  \/ Skip
  \/ AdmitInitial
  \/ AdmitSuccessor
  \/ ListDone
  \/ StepFails
  \/ FindDeadlock
  \/ StopAtBound
  \/ Expand
  \/ ReportPass
  \/ WalkParents
  \/ StartAgain
  \/ RediscoverInitial
  \/ RediscoverSuccessor
  \/ PopAgain
  \/ Returned

Spec == Init /\ [][Next]_vars

FairSpec == Spec /\ WF_vars(Next)

-----------------------------------------------------------------------------
(***************************************************************************)
(* A panic is not among the outcomes.                                      *)
(***************************************************************************)
TypeOK ==
  /\ model \in Models /\ cfg \in Configs /\ fp \in Fingerprints
  /\ pc \in {"start", "init", "pop", "expand", "path", "reinit", "repop", "reexpand", "done"}
  /\ todo \in Seq(States)
  /\ fps \in SUBSET Nat
  /\ parents \in Seq(Nat)
  /\ frontier \in Seq([state : States, depth : Nat])
  /\ popped \in Nat /\ depth \in Nat /\ maxDepth \in Nat
  /\ pending \in {"none", "violation", "deadlock", "error"}
  /\ path \in Seq(Nat)
  /\ counter \in Nat
  /\ DOMAIN found \subseteq Nat /\ \A i \in DOMAIN found : found[i] \in States
  /\ outcome \in OutcomeType

(***************************************************************************)
(* As long as no two states have the same fingerprint, whatever check_fp   *)
(* reports is true and its counterexamples are shortest, as of the exact   *)
(* search (README: "a reported counterexample is always a shortest one").  *)
(***************************************************************************)
Promise == INSTANCE SearchPromise WITH outcome <- IF IsInjective(fp) THEN outcome ELSE Running

KeepsPromise == Promise!Spec

(***************************************************************************)
(* Whatever the fingerprints, the second traversal finds every state of    *)
(* the path, at the index the first one gave it: the reported trace is a   *)
(* behaviour of the program within the step bound, and its last state is   *)
(* to blame.                                                               *)
(***************************************************************************)
TracesAreReal ==
  outcome.kind \notin {"running", "pass", "incomplete"} =>
    \/ outcome.kind = "error" /\ model.initError
    \/ /\ IsTrace(model, outcome.trace)
       /\ InScope(cfg, Len(outcome.trace) - 1)
       /\ Culprit(model, cfg, outcome.kind, Final(outcome.trace))

(***************************************************************************)
(* The second traversal stops at the target: it discovers exactly as many  *)
(* states as the path's last index says, in the order of the first.        *)
(***************************************************************************)
TraversalsAgree ==
  /\ counter <= Len(parents)
  /\ \A i \in DOMAIN found :
       /\ i <= counter
       /\ parents[i] # NoParent => found[i] \in Range(model.step[found[parents[i]]])

(***************************************************************************)
(* Only a collision omits a state: a state of a layer within the bound is  *)
(* counted in a Pass unless some state of the program shares a fingerprint *)
(* with another, and a Pass never counts more than there are.              *)
(***************************************************************************)
Within ==
  UNION {Layer(model, n) : n \in {k \in 0 .. Horizon : InScope(cfg, k)}}

CountsFingerprints ==
  outcome.kind = "pass" =>
    LET images == {fp[s] : s \in Within}
    IN  /\ outcome.states <= Cardinality(images)
        /\ Cardinality(images) = Cardinality(Within) =>
             outcome.states = Cardinality(Within)

(***************************************************************************)
(* The search, and the traversal for the trace, end.                       *)
(***************************************************************************)
Returns == <>(pc = "done")

=============================================================================
