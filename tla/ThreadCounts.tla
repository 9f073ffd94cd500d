----------------------------- MODULE ThreadCounts ----------------------------
(***************************************************************************)
(* One program checked twice in fingerprint mode: with --threads 1 and     *)
(* then, in a new process, with --threads N.  check() runs check_fp in the *)
(* first case, and in the second check_parallel and, when that asks for a  *)
(* rerun, check_fp again in the same process.                              *)
(*                                                                         *)
(* enumerate sorts a successor list by value ids.  Those of Booleans and   *)
(* small integers are fixed; those of composite values are given out as    *)
(* the values are first met, for which workers race.  The lists of a       *)
(* program are given in the order of a process with one thread, and ids    *)
(* records the order in which the process with N threads met the states.   *)
(***************************************************************************)
EXTENDS ParallelBfs

VARIABLES
  composite, \* are the states made of composite values?
  phase,    \* which search is running
  single,   \* the outcome of --threads 1
  multi,    \* the outcome of --threads N
  ids,      \* states in the order of their value ids in the second process
  \* the variables of check_fp
  fmodel, fpc, ftodo, ffps, parents, ffrontier, popped, fdepth, maxDepth,
  pending, path, counter, found, outcome

fpSearch == <<fmodel, fpc, ftodo, ffps, parents, ffrontier, popped, fdepth, maxDepth,
              pending, path, counter, found, outcome>>

F == INSTANCE FpBfs WITH
       model <- fmodel, pc <- fpc, todo <- ftodo, fps <- ffps, frontier <- ffrontier,
       depth <- fdepth

outcomes   == <<composite, single, multi>>
threadVars == <<vars, fpSearch, phase, outcomes, ids>>

(***************************************************************************)
(* A list as the second process sorts it: what the workers have met, in    *)
(* the order they met it, and then what the rerun is the first to meet.    *)
(***************************************************************************)
Unmet(list) == Only(list, States \ Range(ids))

Sorted(list) == IF composite THEN Only(ids, Range(list)) \o Unmet(list) ELSE list

Meet(list) == ids' = ids \o Unmet(list)

ThreadsInit ==
  /\ Init
  /\ F!Init
  /\ fmodel = model
  /\ composite \in BOOLEAN
  /\ phase = "single"
  /\ single = Running
  /\ multi = Running
  /\ ids = << >>

SearchAlone ==
  /\ phase = "single"
  /\ fpc # "done"
  /\ F!Next
  /\ UNCHANGED <<vars, phase, outcomes, ids>>

AloneDone ==
  /\ phase = "single"
  /\ fpc = "done"
  /\ single' = outcome
  /\ phase' = "parallel"
  /\ UNCHANGED <<vars, fpSearch, composite, multi, ids>>

CoordinateTogether ==
  /\ phase = "parallel"
  /\ Coordinate
  /\ IF pc = "start" THEN Meet(model.init) ELSE UNCHANGED ids
  /\ UNCHANGED <<fpSearch, phase, outcomes>>

WorkTogether(w) ==
  /\ phase = "parallel"
  /\ Step(w)
  /\ IF wpc[w] = "chunk" /\ work[w] # << >>
     THEN Meet(model.step[Head(work[w])])
     ELSE UNCHANGED ids
  /\ UNCHANGED <<fpSearch, phase, outcomes>>

(***************************************************************************)
(* check() passes on a Pass or Incomplete ...                              *)
(***************************************************************************)
TogetherDone ==
  /\ phase = "parallel"
  /\ \/ result.kind = "pass" /\ multi' = PassOf(result.states, result.maxDepth)
     \/ result.kind = "incomplete" /\ multi' = IncompleteOf(result.states)
  /\ phase' = "done"
  /\ UNCHANGED <<vars, fpSearch, composite, single, ids>>

(***************************************************************************)
(* ... and calls check_fp for a Rerun.                                     *)
(***************************************************************************)
Rerun ==
  /\ phase = "parallel"
  /\ result.kind = "rerun"
  /\ phase' = "rerun"
  /\ fmodel' = [model EXCEPT !.step = [s \in States |-> Sorted(model.step[s])]]
  /\ fpc' = "start"
  /\ ftodo' = << >>
  /\ ffps' = {}
  /\ parents' = << >>
  /\ ffrontier' = << >>
  /\ popped' = 0
  /\ fdepth' = 0
  /\ maxDepth' = 0
  /\ pending' = "none"
  /\ path' = << >>
  /\ counter' = 0
  /\ found' = << >>
  /\ outcome' = Running
  /\ UNCHANGED <<vars, outcomes, ids>>

SearchAgain ==
  /\ phase = "rerun"
  /\ fpc # "done"
  /\ F!Next
  /\ UNCHANGED <<vars, phase, outcomes, ids>>

AgainDone ==
  /\ phase = "rerun"
  /\ fpc = "done"
  /\ multi' = outcome
  /\ phase' = "done"
  /\ UNCHANGED <<vars, fpSearch, composite, single, ids>>

BothDone == phase = "done" /\ UNCHANGED threadVars

MainThread ==
  \/ SearchAlone
  \/ AloneDone
  \/ CoordinateTogether
  \/ TogetherDone
  \/ Rerun
  \/ SearchAgain
  \/ AgainDone

ThreadsNext == MainThread \/ (\E w \in Workers : WorkTogether(w)) \/ BothDone

(***************************************************************************)
(* Every thread is scheduled again and again; none of them ever blocks     *)
(* but the main one, on the others.                                        *)
(***************************************************************************)
ThreadsSpec ==
  /\ ThreadsInit
  /\ [][ThreadsNext]_threadVars
  /\ WF_threadVars(MainThread)
  /\ \A w \in Workers : WF_threadVars(WorkTogether(w))

-----------------------------------------------------------------------------
(***************************************************************************)
(* "Results are independent of the thread count", to the states of the     *)
(* trace ("reports and counterexample depths are identical to              *)
(* --threads 1"): so it is for states of fixed value ids, unless states    *)
(* collide or the cap is reached.                                          *)
(***************************************************************************)
Exhaustive == IsInjective(fp) /\ cfg.maxStates = NoBound

SameReport == phase = "done" /\ Exhaustive /\ ~ composite => multi = single

(***************************************************************************)
(* "State counts, depths and verdicts are deterministic and identical for  *)
(* every --threads value": of this, the verdict.                           *)
(***************************************************************************)
SameVerdict == phase = "done" => multi.kind = single.kind

(***************************************************************************)
(* The part of this that holds also when workers race for value ids: a     *)
(* clean program is reported as such, with the same numbers.               *)
(***************************************************************************)
SameVerdictOnPass ==
  phase = "done" /\ Exhaustive /\ (single.kind = "pass" \/ multi.kind = "pass")
    => multi = single

(***************************************************************************)
(* As long as no two states collide, what is reported with N threads is as *)
(* true as what is reported with one, and a counterexample is as short.    *)
(***************************************************************************)
Promise == INSTANCE SearchPromise WITH outcome <- IF IsInjective(fp) THEN multi ELSE Running

KeepsPromise == Promise!Spec

(***************************************************************************)
(* The main thread waits for every worker, whichever of them stops the     *)
(* search; yet both processes end.                                         *)
(***************************************************************************)
BothReturn == <>(phase = "done")

=============================================================================
