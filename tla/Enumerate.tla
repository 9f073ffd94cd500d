------------------------------ MODULE Enumerate ------------------------------
(***************************************************************************)
(* Successor enumeration: an action is evaluated once for every path       *)
(* through its tree of nondeterministic choices.  ChoiceCtl records the    *)
(* choices of a run in a trail; the next run replays a prefix of it, and   *)
(* advance moves the trail to the next path, like an odometer whose wheels *)
(* are discovered on the way.                                              *)
(*                                                                         *)
(* Evaluation is deterministic: what comes next depends on the choices     *)
(* made so far alone.  So an action is a tree: a path of choices leads to  *)
(* a choice among bound alternatives, or (bound 0) to the end of the run,  *)
(* where the action was enabled, was not, or failed.  A choice among none  *)
(* at all (`choose(0)' is None) leaves the trail alone, and is part of the *)
(* way to the next node.                                                   *)
(***************************************************************************)
EXTENDS Integers, Sequences, FiniteSets, Functions

CONSTANTS
  Trees,     \* the choice trees considered
  MaxRuns    \* MAX_RUNS_PER_STATE

Paths == Seq(Nat)

Ends == {"enabled", "disabled", "error"}

Node == [bound : Nat, end : Ends]

ChoicePoint == [bound : Nat, chosen : Nat]

IsTree(t) ==
  /\ IsFiniteSet(DOMAIN t)
  /\ << >> \in DOMAIN t
  /\ \A p \in DOMAIN t :
       /\ p \in Paths
       /\ t[p] \in Node
       /\ \A i \in 0 .. t[p].bound - 1 : Append(p, i) \in DOMAIN t

ASSUME EnumerateAssumption ==
  /\ \A t \in Trees : IsTree(t)
  /\ MaxRuns \in Nat

VARIABLES
  tree,      \* the action under evaluation, never changed
  pc,
  trail,     \* ChoiceCtl::trail
  cursor,    \* ChoiceCtl::cursor
  at,        \* the choices of the current run: where its evaluation is
  runs,      \* number of runs begun
  out,       \* the next states found, each named by the path it was found on
  outcome    \* what enumerate returned

vars == <<tree, pc, trail, cursor, at, runs, out, outcome>>

Init ==
  /\ tree \in Trees
  /\ pc = "start"
  /\ trail = << >>
  /\ cursor = 0
  /\ at = << >>
  /\ runs = 0
  /\ out = << >>
  /\ outcome = "running"

\* Mutant: the limit is refused to a tree with as many paths.
StartBelowLimit ==
  /\ pc = "start"
  /\ runs' = runs + 1
  /\ at' = << >>
  /\ IF runs' >= MaxRuns
     THEN outcome' = "too many" /\ pc' = "done"
     ELSE pc' = "run" /\ UNCHANGED outcome
  /\ UNCHANGED <<tree, trail, cursor, out>>

(***************************************************************************)
(* A run begins, unless there have been too many (QNT501).                 *)
(***************************************************************************)
StartRun ==
  /\ pc = "start"
  /\ runs' = runs + 1
  /\ at' = << >>
  /\ IF runs' > MaxRuns
     THEN outcome' = "too many" /\ pc' = "done"
     ELSE pc' = "run" /\ UNCHANGED outcome
  /\ UNCHANGED <<tree, trail, cursor, out>>

(***************************************************************************)
(* choose: replay the recorded choice, or record the first alternative.    *)
(***************************************************************************)
Recorded == cursor < Len(trail)

\* Mutant: the first alternative is returned for a recorded choice too.
ChooseFirst ==
  /\ pc = "run"
  /\ tree[at].bound > 0
  /\ trail' = IF Recorded THEN trail
              ELSE Append(trail, [bound |-> tree[at].bound, chosen |-> 0])
  /\ at' = Append(at, 0)
  /\ cursor' = cursor + 1
  /\ UNCHANGED <<tree, pc, runs, out, outcome>>

Choose ==
  /\ pc = "run"
  /\ tree[at].bound > 0
  /\ trail' = IF Recorded THEN trail
              ELSE Append(trail, [bound |-> tree[at].bound, chosen |-> 0])
  /\ at' = Append(at, trail'[cursor + 1].chosen)
  /\ cursor' = cursor + 1
  /\ UNCHANGED <<tree, pc, runs, out, outcome>>

(***************************************************************************)
(* The run ends; its next state is kept if the action was enabled.         *)
(***************************************************************************)
EndRun ==
  /\ pc = "run"
  /\ tree[at].bound = 0
  /\ IF tree[at].end = "error"
     THEN outcome' = "error" /\ pc' = "done"
     ELSE pc' = "advance" /\ UNCHANGED outcome
  /\ out' = IF tree[at].end = "enabled" THEN Append(out, at) ELSE out
  /\ UNCHANGED <<tree, trail, cursor, at, runs>>

(***************************************************************************)
(* advance_trail: among the choices the last run visited, the last one     *)
(* with an alternative left takes it, and what follows it is dropped.      *)
(***************************************************************************)
Visited == IF cursor <= Len(trail) THEN cursor ELSE Len(trail)

CanAdvance(k) == trail[k].chosen + 1 < trail[k].bound

\* Mutant: what follows the advanced choice is kept.
AdvanceKeeping ==
  /\ pc = "advance"
  /\ \E k \in 1 .. Visited :
       /\ CanAdvance(k)
       /\ \A j \in k + 1 .. Visited : ~ CanAdvance(j)
       /\ trail' = [trail EXCEPT ![k].chosen = @ + 1]
  /\ cursor' = 0
  /\ pc' = "start"
  /\ UNCHANGED <<tree, at, runs, out, outcome>>

\* Mutant: the first choice that can advance does.
AdvanceFirst ==
  /\ pc = "advance"
  /\ \E k \in 1 .. Visited :
       /\ CanAdvance(k)
       /\ \A j \in 1 .. k - 1 : ~ CanAdvance(j)
       /\ trail' = [SubSeq(trail, 1, k) EXCEPT ![k].chosen = @ + 1]
  /\ cursor' = 0
  /\ pc' = "start"
  /\ UNCHANGED <<tree, at, runs, out, outcome>>

Advance ==
  /\ pc = "advance"
  /\ \E k \in 1 .. Visited :
       /\ CanAdvance(k)
       /\ \A j \in k + 1 .. Visited : ~ CanAdvance(j)
       /\ trail' = [SubSeq(trail, 1, k) EXCEPT ![k].chosen = @ + 1]
  /\ cursor' = 0
  /\ pc' = "start"
  /\ UNCHANGED <<tree, at, runs, out, outcome>>

(***************************************************************************)
(* No choice has an alternative left: the whole tree is exhausted.         *)
(***************************************************************************)
Exhausted ==
  /\ pc = "advance"
  /\ \A k \in 1 .. Visited : ~ CanAdvance(k)
  /\ trail' = << >>
  /\ outcome' = "ok"
  /\ pc' = "done"
  /\ UNCHANGED <<tree, cursor, at, runs, out>>

Returned == pc = "done" /\ UNCHANGED vars

Next == StartRun \/ Choose \/ EndRun \/ Advance \/ Exhausted \/ Returned

Spec == Init /\ [][Next]_vars

-----------------------------------------------------------------------------
(***************************************************************************)
(* A choice is an index below its bound, also where it is -1 that would    *)
(* come before the first (u64).                                            *)
(***************************************************************************)
TypeOK ==
  /\ IsTree(tree)
  /\ pc \in {"start", "run", "advance", "done"}
  /\ trail \in Seq(ChoicePoint)
  /\ cursor \in Nat
  /\ at \in Paths
  /\ runs \in Nat
  /\ out \in Seq(Paths)
  /\ outcome \in {"running", "ok", "too many", "error"}

(***************************************************************************)
(* Replaying a prefix reaches the same choice points: wherever a recorded  *)
(* choice is replayed, it was recorded for as many alternatives as there   *)
(* are (the debug_assert of choose).                                       *)
(***************************************************************************)
ReplayAgrees ==
  pc = "run" =>
    /\ at \in DOMAIN tree
    /\ tree[at].bound > 0 /\ Recorded => trail[cursor + 1].bound = tree[at].bound
    /\ tree[at].bound = 0 => ~ Recorded

(***************************************************************************)
(* The ends of the tree, and the order in which a depth-first walk visits  *)
(* them.                                                                   *)
(***************************************************************************)
Leaves == {p \in DOMAIN tree : tree[p].bound = 0}

Reachable(p) == \A k \in 1 .. Len(p) : p[k] < tree[SubSeq(p, 1, k - 1)].bound

Before(p, q) ==
  \E k \in 1 .. Len(p) :
    /\ k <= Len(q)
    /\ p[k] < q[k]
    /\ \A j \in 1 .. k - 1 : p[j] = q[j]

(***************************************************************************)
(* Paths are visited depth first, and so none is visited twice.            *)
(***************************************************************************)
InOrder == \A i, j \in DOMAIN out : i < j => Before(out[i], out[j])

CompletePaths == {p \in Leaves : Reachable(p)}

(***************************************************************************)
(* When the tree is exhausted no next state was left out.                  *)
(***************************************************************************)
NoneOmitted ==
  outcome = "ok" => Range(out) = {p \in CompletePaths : tree[p].end = "enabled"}

(***************************************************************************)
(* There was one run for each path.  With more paths than the limit there  *)
(* is no result, and one is not refused with as many.                      *)
(***************************************************************************)
LimitIsExact ==
  /\ outcome = "ok" => runs = Cardinality(CompletePaths)
  /\ outcome = "too many" => Cardinality(CompletePaths) > MaxRuns

-----------------------------------------------------------------------------
(***************************************************************************)
(* The inductive invariant (EnumerateProofs): the trail is a path of the   *)
(* tree, of which the current run has taken the first cursor choices.      *)
(***************************************************************************)
Chosen(t, n) == [k \in 1 .. n |-> t[k].chosen]

TrailIsPath ==
  \A k \in DOMAIN trail :
    /\ trail[k].chosen < trail[k].bound
    /\ Chosen(trail, k - 1) \in DOMAIN tree
    /\ tree[Chosen(trail, k - 1)].bound = trail[k].bound

RunFollowsTrail ==
  /\ outcome # "running" => pc = "done"
  /\ pc = "start" => cursor = 0
  /\ pc = "run" =>
       /\ cursor <= Len(trail)
       /\ at = Chosen(trail, cursor)
       /\ at \in DOMAIN tree
  /\ pc = "advance" =>
       /\ cursor = Len(trail)
       /\ at = Chosen(trail, cursor)
       /\ at \in DOMAIN tree
       /\ tree[at].bound = 0

(***************************************************************************)
(* The paths visited are those before the trail and, when its run has      *)
(* ended, the trail itself; their next states have been found, in order.   *)
(***************************************************************************)
Path == Chosen(trail, Len(trail))

Visiting == pc \in {"start", "run", "advance"}

Ended(p) == Before(p, Path) \/ (pc = "advance" /\ p = at)

EndedPaths == {p \in CompletePaths : Ended(p)}

FoundAreEnded ==
  Visiting => Range(out) = {p \in EndedPaths : tree[p].end = "enabled"}

(***************************************************************************)
(* Every run began on a path of its own.                                   *)
(***************************************************************************)
RunsAreCounted ==
  Visiting => runs = Cardinality(EndedPaths) + (IF pc = "run" THEN 1 ELSE 0)

IInv ==
  /\ TypeOK
  /\ TrailIsPath
  /\ RunFollowsTrail
  /\ FoundAreEnded
  /\ RunsAreCounted
  /\ InOrder
  /\ NoneOmitted
  /\ LimitIsExact

=============================================================================
