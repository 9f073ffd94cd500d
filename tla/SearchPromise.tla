---------------------------- MODULE SearchPromise ----------------------------
(***************************************************************************)
(* The abstract specification of a safety search: one step, from running   *)
(* to a report that is true of the program under check.  How the state     *)
(* space is traversed, stored and divided among threads is left out.       *)
(***************************************************************************)
EXTENDS SearchProblem

VARIABLES model, cfg, outcome

promiseVars == <<model, cfg, outcome>>

(***************************************************************************)
(* Pass: no state within the step bound violates an invariant, fails to    *)
(* evaluate, or (when asked) lacks a successor.                            *)
(***************************************************************************)
PassIsTrue(m, c) ==
  /\ ~ m.initError
  /\ \A n \in 0 .. Horizon :
       InScope(c, n) => HoldsAt(m, n) /\ ExpandsAt(m, c, n)

(***************************************************************************)
(* A counterexample: a behaviour of the program within the step bound,     *)
(* whose final state is to blame and which no shorter one undercuts.  An   *)
(* error of the init action has no trace.                                  *)
(***************************************************************************)
CounterexampleIsTrue(m, c, kind, t) ==
  \/ kind = "error" /\ m.initError /\ t = << >>
  \/ /\ IsTrace(m, t)
     /\ Justified(m, c, kind, Final(t), Len(t))

Truthful(m, c, o) ==
  CASE o.kind = "pass"       -> PassIsTrue(m, c)
    [] o.kind = "incomplete" -> Reached(c.maxStates, o.states)
    [] OTHER                 -> CounterexampleIsTrue(m, c, o.kind, o.trace)

Init ==
  /\ model \in Models
  /\ cfg \in Configs
  /\ outcome = Running

Report ==
  /\ outcome.kind = "running"
  /\ outcome'.kind # "running"
  /\ Truthful(model, cfg, outcome')
  /\ UNCHANGED <<model, cfg>>

Spec == Init /\ [][Report]_promiseVars

=============================================================================
