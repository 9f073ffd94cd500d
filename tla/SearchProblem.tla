---------------------------- MODULE SearchProblem ----------------------------
(***************************************************************************)
(* What a state-space search of inquint is given and what it may report.   *)
(*                                                                         *)
(* The compiled Quint program is abstracted to a finite graph: the result  *)
(* of enumerating init, the result of enumerating step at every state, and *)
(* the result of evaluating the invariants at every state                  *)
(* (successor.rs enumerate, explorer.rs check_invs).  The configuration is *)
(* the part of CheckConfig that the three search engines read.  The states *)
(* reachable in exactly n steps are the reference against which the        *)
(* engines' reports are judged.                                            *)
(***************************************************************************)
EXTENDS Lists, Integers, Sequences, FiniteSets, Functions

CONSTANTS
  States,   \* the states of the program under check
  Models,   \* the programs considered, each a member of ModelType
  Configs,  \* the command lines considered, each a member of ConfigType
  Horizon   \* the number of steps up to which a Pass is judged

(***************************************************************************)
(* `None' of an Option<u32> or Option<u64> bound.                          *)
(***************************************************************************)
NoBound == -1

Verdicts == {"holds", "violated", "error"}

(***************************************************************************)
(* initError and stepError stand for enumerate returning Err; no state     *)
(* list exists then.  invs summarises the ordered list of invariants by    *)
(* what check_invs returns: Ok(None), Ok(Some(name)) or Err.               *)
(***************************************************************************)
ModelType ==
  [init      : Seq(States),
   initError : BOOLEAN,
   step      : [States -> Seq(States)],
   stepError : SUBSET States,
   invs      : [States -> Verdicts]]

ConfigType ==
  [deadlock  : BOOLEAN,
   maxSteps  : Nat \cup {NoBound},
   maxStates : Nat \cup {NoBound}]

WellFormed(m) ==
  /\ m.initError => m.init = << >>
  /\ \A s \in m.stepError : m.step[s] = << >>
  \* enumerate ends with sort_unstable and dedup
  /\ IsInjective(m.init)
  /\ \A s \in States : IsInjective(m.step[s])

ASSUME SearchAssumption ==
  /\ Models \subseteq ModelType
  /\ \A m \in Models : WellFormed(m)
  /\ Configs \subseteq ConfigType
  /\ Horizon \in Nat

(***************************************************************************)
(* cfg.max_steps.is_some_and(|max| n >= max), and the same of max_states.  *)
(***************************************************************************)
Reached(max, n) == max # NoBound /\ n >= max

(***************************************************************************)
(* The states reachable in exactly n steps.                                *)
(***************************************************************************)
Image(m, S) == UNION {Range(m.step[s]) : s \in S}

Layers(m) ==
  LET layer[n \in Nat] ==
        IF n = 0 THEN Range(m.init) ELSE Image(m, layer[n - 1])
  IN  layer

Layer(m, n) == Layers(m)[n]

(***************************************************************************)
(* Depth n is within the step bound: its states are generated.             *)
(***************************************************************************)
InScope(c, n) == c.maxSteps = NoBound \/ n <= c.maxSteps

(***************************************************************************)
(* The invariants hold n steps away from the initial states; and every     *)
(* state there can be expanded: no evaluation error, and a successor if    *)
(* deadlocks are to be reported.                                           *)
(***************************************************************************)
HoldsAt(m, n) == \A s \in Layer(m, n) : m.invs[s] = "holds"

ExpandsAt(m, c, n) ==
  \A s \in Layer(m, n) :
    /\ s \notin m.stepError
    /\ c.deadlock => m.step[s] # << >>

(***************************************************************************)
(* A behaviour of the program: from an initial state along its steps.      *)
(***************************************************************************)
IsTrace(m, t) ==
  /\ t # << >>
  /\ t[1] \in Range(m.init)
  /\ \A i \in 1 .. Len(t) - 1 : t[i + 1] \in Range(m.step[t[i]])

Final(t) == t[Len(t)]

-----------------------------------------------------------------------------
(***************************************************************************)
(* Outcomes: CheckOutcome, the error report, and "running" before either.  *)
(***************************************************************************)
OutcomeType ==
  [kind     : {"running", "pass", "incomplete", "violation", "deadlock", "error"},
   trace    : Seq(States),
   states   : Nat,
   maxDepth : Nat]

Outcome(kind, trace, states, maxDepth) ==
  [kind |-> kind, trace |-> trace, states |-> states, maxDepth |-> maxDepth]

Running                  == Outcome("running", << >>, 0, 0)
PassOf(states, maxDepth) == Outcome("pass", << >>, states, maxDepth)
IncompleteOf(states)     == Outcome("incomplete", << >>, states, 0)
Counterexample(kind, t)  == Outcome(kind, t, 0, 0)

(***************************************************************************)
(* A state that justifies a counterexample of the given kind.              *)
(***************************************************************************)
Culprit(m, c, kind, s) ==
  CASE kind = "violation" -> m.invs[s] = "violated"
    [] kind = "deadlock"  -> c.deadlock /\ m.step[s] = << >> /\ s \notin m.stepError
    [] kind = "error"     -> m.invs[s] = "error" \/ s \in m.stepError
    [] OTHER              -> FALSE

(***************************************************************************)
(* Nothing a breadth-first search reports earlier: the invariants hold in  *)
(* fewer than n steps, and every state fewer than n-1 steps away expands.  *)
(***************************************************************************)
NothingBefore(m, c, n) ==
  /\ \A k \in 0 .. n - 1 : HoldsAt(m, k)
  /\ \A k \in 0 .. n - 2 : ExpandsAt(m, c, k)

(***************************************************************************)
(* A trace of this length that ends in s justifies a counterexample of     *)
(* this kind.  A deadlock is found when its state is expanded, after all   *)
(* states of its depth have been checked.                                  *)
(***************************************************************************)
Justified(m, c, kind, s, length) ==
  /\ Culprit(m, c, kind, s)
  /\ InScope(c, length - 1)
  /\ NothingBefore(m, c, IF kind = "deadlock" THEN length ELSE length - 1)

=============================================================================
