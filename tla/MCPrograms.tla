----------------------------- MODULE MCPrograms ------------------------------
(***************************************************************************)
(* Families of small programs for the search modules.  Every state list is *)
(* sorted, as enumerate leaves it; since all graphs on the states are in   *)
(* the family, every discovery order is too.                               *)
(***************************************************************************)
EXTENDS Integers, FiniteSets, SequencesExt

Listed(S) == SetToSortSeq(S, <)

Program(init, initError, step, stepError, invs) ==
  [init |-> IF initError THEN << >> ELSE Listed(init), initError |-> initError,
   step |-> [s \in DOMAIN step |-> IF s \in stepError THEN << >> ELSE Listed(step[s])],
   stepError |-> stepError, invs |-> invs]

(***************************************************************************)
(* The invariants hold except at the states given.                         *)
(***************************************************************************)
Invs(S, violated, failing) ==
  [s \in S |-> IF s \in violated THEN "violated"
               ELSE IF s \in failing THEN "error" ELSE "holds"]

Three == 1 .. 3
Five == 1 .. 5

(***************************************************************************)
(* Steps of three states, beside two that nothing leads to.                *)
(***************************************************************************)
BesideTwo(step) == [s \in Five |-> IF s \in Three THEN step[s] ELSE {1}]

(***************************************************************************)
(* Every graph on three states, from one or two initial states, with and   *)
(* without a state that violates an invariant.                             *)
(***************************************************************************)
AllGraphs ==
  {Program(init, FALSE, BesideTwo(step), {}, Invs(Five, bad, {})) :
     init \in {{1}, {2, 3}}, step \in [Three -> SUBSET Three], bad \in {{}, {3}}}

(***************************************************************************)
(* Evaluation errors in init, in step and in the invariants.               *)
(***************************************************************************)
Failing ==
  {Program({1, 2}, initError, BesideTwo(step), stepError, Invs(Five, bad, failing)) :
     initError \in BOOLEAN,
     step \in [Three -> {{}, {1, 3}, {2, 3}}],
     stepError \in {{}, {2}, {3}},
     bad \in {{}, {3}},
     failing \in {{}, {2}, {3}}}

(***************************************************************************)
(* Deeper programs: five states in a chain with every set of shortcuts, so *)
(* that a state is reached along paths of different lengths.               *)
(***************************************************************************)
Shortcuts ==
  {Program({1}, FALSE,
           [s \in Five |-> {t \in Five : t = s + 1} \cup {t \in Five : <<s, t>> \in extra}],
           {}, Invs(Five, bad, {})) :
     extra \in SUBSET {<<1, 3>>, <<1, 4>>, <<2, 4>>, <<2, 5>>, <<4, 2>>, <<5, 1>>},
     bad \in {{}, {4}, {4, 5}}}

Bounds(deadlock, maxSteps, maxStates) ==
  [deadlock |-> deadlock, maxSteps |-> maxSteps, maxStates |-> maxStates]

=============================================================================
