# A verification project for inquint

inquint is an explicit-state model checker for Quint specifications. This
directory holds TLA+ models of its algorithms, TLC configurations that check
them on small instances, and theorems about them that TLAPS checks. Paths below
are relative to the repository, `inquint/src/` unless they say otherwise.

A model checker is a program whose wrong answers look like right ones: a state
that is silently skipped turns a violated invariant into a pass. So the
question put to every part is what its answer *omits*: states, successors,
choices, behaviours.

## 1. The system

`inquint-cli` compiles a specification with `quint compile`, loads the syntax
tree (crate `quint-ast`), resolves and lowers it to bytecode (`spec.rs`,
`vm/lower.rs`), and then does one of three things: search for a violation of
invariants (`explorer.rs`), check temporal properties (`temporal/`), or execute
`run` tests (`runner.rs`). All of them obtain states from
`successor::enumerate`, which runs an action in the virtual machine (`vm/`)
once for every path through its tree of nondeterministic choices (`choice.rs`).
Values are interned in a store shared by all threads (`value.rs`), so that a
state is a short list of ids.

| Component | State it keeps | Operations | What makes it correct |
|---|---|---|---|
| Exact search (`explorer.rs` `check_exact`, `state.rs`) | arena of states with parent and depth, seen-set, frontier | admit a state, expand the oldest one, collect a trace | a Pass omits nothing within the step bound; a counterexample is real and shortest |
| Fingerprint search (`check_fp`, `reconstruct`) | fingerprints, parent indices, frontier; again for the second traversal | the same; walk the parents, traverse again, record the states of the path | the same without collisions; with them, traces are still real |
| Parallel search (`check_parallel`) | fingerprint set, counter, two flags, level, cursor; buffers of each worker | claim a chunk, expand, insert, count, stop; join and form the next level | levels are layers whatever the schedule; no fresh state is lost or taken twice; a Pass is complete |
| Dispatch (`check`) | the outcome | choose the engine, repeat on one thread | results do not depend on the number of threads |
| Choice oracle and enumeration (`choice.rs`, `successor.rs`) | trail of choices, cursor, next states | choose, advance, run | every path once, none omitted |
| Virtual machine (`vm/`, `eval/`) | registers, next-state assignments, snapshots, caches of lets and vals | instructions of actions and expressions | a run means what the action means; nothing stale is read from a cache; a disabled branch leaves nothing behind |
| Value store (`value.rs`) | shards, published values, caches of each thread, order keys | intern, compare, symbolic sets, pick | equal values have equal ids; an id is never seen before its value; order keys agree with the order |
| Temporal checking (`temporal/`) | state graph with labelled edges, tableau automaton, product, components | build, normalize formulas, translate, product, strongly connected components, lasso | a reported lasso violates the property under the fairness assumed; a violation is not missed |
| Specification loading (`spec.rs`, `quint-ast` `table.rs`) | tables | resolve names, build | a function of its input |
| Run tests (`runner.rs`) | as enumeration | run until one path succeeds | a test passes iff some path does |
| Interning (`quint-ast` `symbol.rs`, `slab.rs`) | slab chunks, ranks | intern, look up, compare | publication to other threads; order of names is that of their text |
| Command line, ITF output | none between calls | parse arguments, print | |
| Reference evaluator (`inquint-reference`) | as the above | a second interpreter for differential tests | agreement with the first |
| Partial order probe (`por_probe`) | counters | measure | not used by the checker |

Interaction: the searches call enumerate and the evaluation of invariants as
functions of a state; workers share the fingerprint set, the counter, the
flags, the cursor and the value store; the rerun on one thread happens in the
process in which the workers have filled the value store.

### What is hard to test here

`PROJECT.json` lists the hazards at their lines. They are of six kinds. (1)
Interleavings of workers: who inserts a state first, who sees `stop`, who
reaches the cap, who interns a value first. (2) Two computations that must
agree although they are written twice: the search and the traversal that
reconstructs its trace, the recorded and the replayed choice, one thread and
several. (3) Boundaries: the step bound (states at it are still expanded for
deadlocks), the cap, the last chunk, the limit of runs. (4) Omission: a state
lost to a seen-set, to an odometer, to an automaton node that was merged, to a
symbolic set that is never listed. (5) Staleness: a let, a val, a register, a
parameter slot or a memo that still shows an earlier evaluation. (6) Failing
half way: a branch that has assigned variables before it is disabled, an error
in the middle of scopes.

## 2. How the modules fit together

```
Lists           picking from a list, as a recursive function
SearchProblem  SearchPromise          what a search is given / may report
  ExactBfs      check_exact           -> refines SearchPromise (proved)
  FpBfs         check_fp, reconstruct -> refines SearchPromise unless states collide (proved)
  ParallelBfs   check_parallel
    ThreadCounts  check(): ParallelBfs + FpBfs, with ids raced for
                                      -> refines SearchPromise unless states collide (proved)

Enumerate       ChoiceCtl and the loop of enumerate

Ltl             formulas, normal form, evaluation on a lasso
  Tableau       build_gba            TableauCheck  against the semantics
  FairScc       scc.rs, witness.rs   FairSccCheck  against the definition
    Liveness    check_liveness: Tableau + product + FairScc + self-check
StateGraph      build of graph.rs
  TemporalCheck check_temporal: StateGraph + safety path
ParseProperty   parse.rs

Values          the values, their order, keys and normal form
  SymbolicSets  sets that are not listed
ValueStore      interning among threads
UpdateMemo      the memo of map updates
    ValuesCheck the three together, against definitions
Syntax          the syntax tree
  Builtins      eager operators (on Values)
  Lowering      syntax to instructions
  Machine       the virtual machine
  Closures      the reference evaluator
    Engines     Machine beside Closures
```

The modules whose names begin with `MC` define the instances that the
configurations name. `*Proofs` are the theorems, those on `StateGraph` and
`FairScc` together in `TemporalProofs`; `ProofFacts` has what they share.
Modules that are proved about declare no recursive operator; recursion that
only TLC needs (`Closures`, `Lowering`, `SymbolicSets`, `Ltl`) is in modules
without theorems.

## 3. The modules

### Searching

**SearchProblem** has no state. A compiled program is a finite graph: the list
that `enumerate(init)` returns, the list that `enumerate(step)` returns at
every state (or that they fail), and what `check_invs` returns at every state.
Of `CheckConfig` it has `max_steps`, `max_states` and `deadlock`. `Layer(m,
n)`, the states reachable in exactly n steps, is the reference by which reports
are judged.

**SearchPromise** is the abstract specification: one step from running to a
report that is true. A Pass is true if nothing in the layers within the step
bound is to blame; a counterexample if its trace is a behaviour of the program,
its last state is to blame, and nothing a breadth-first search reports earlier
exists.

**ExactBfs** is `check_exact`, one loop iteration per action. `arena` is the
`StateArena`, whose states are also what `SeenSet` looks up; `frontier` the
queue of ids; `todo` the rest of the list the running `for` loop iterates over;
`cur` the id popped last and then the id to which `StateArena::trace` has come.
`Admit` is the body of both `for` loops: insert, check the invariants, push,
look at the cap. Ids count from 1, so that the sentinel `NO_PARENT` can be 0.

**FpBfs** is `check_fp` followed by `reconstruct`, under a fingerprint function
`fp` that may collide. The traversal for the trace uses `fps`, `frontier` and
`todo` again, which the search no longer needs (`reconstruct` creates its own).
A failed `expect` or `assert_eq!` would be the outcome `panic`, which is
outside the type of outcomes.

**ParallelBfs** is `check_parallel`. Every atomic operation on shared data is
an action: claiming a chunk, inserting a fingerprint, adding to the counter,
setting a flag. What a worker does between two of them is its own and is part
of the action. `stop` is loaded with relaxed ordering: a worker may go on
although it is set (`Claim` has no guard on it) but does not see it before it
is (`SeeStop`); the join orders it before the coordinating thread's load.
Successors are looked at in any order, since workers race for the ids by which
a list is sorted.

**ThreadCounts** runs one program twice: with `--threads 1` (`FpBfs`) and, in a
second process, with `--threads N` (`ParallelBfs`, and `FpBfs` again for a
rerun, with lists in the order of the ids that the workers have given out).
States stand for their values: the state that is met first has the smaller id,
so a list of a rerun has the states met before in the order in which they were
met (`ids`), and then the others in the order of the program (`Sorted`).
Interning the values of one successor list is atomic here.

### Choices

**Enumerate** is the run loop of `enumerate` with `ChoiceCtl`. The action under
evaluation is a tree of choices, since evaluation is deterministic; a next
state is named by the path on which it was found (`sort` and `dedup` at the
end, which merge equal states, are in `SearchProblem`'s `WellFormed`). `trail`
and `cursor` are those of `ChoiceCtl`; `Choose` is `choose` with both of its
branches, `Advance` and `Exhausted` are the two ways `advance_trail` returns,
`StartRun` and `EndRun` the two halves of the loop around the evaluation.

### Temporal properties

**Ltl** has the formulas over opaque atoms (state atoms speak of a position,
edge atoms of the step out of it), `Nnf`, the test for the safety fragment, and
`Eval`, the sweep of `validate.rs` over a lasso. `Holds` is the semantics by
quantifiers, against which all of this is judged.

**Tableau** is `build_gba`. The recursion of `expand` is a stack of frames, and
one step takes one formula out of `new`, by its kind; `Merge` and `Create` are
what happens to a frame with nothing left. Formulas are interned as they are
met, and the least id is taken first. **TableauCheck** states that the finished
automaton accepts a word iff the property is false on it, and that in every
state before that frames and nodes together lose no word.

**FairScc** is `scc.rs` and `witness.rs`: Tarjan's algorithm, one edge at a
time, over a list of nodes (`view`), the examination of the components, the
refinement of one that fails for strong fairness only, and the search for the
parts of the lasso. A problem is a product with its side conditions. `IsProblem`
says what `build_product` guarantees of one: it interns each pair of a state and
an automaton node once, so that ids are 1 .. n and no list names a node twice
(the graph has one edge between two states, the automaton one between two
nodes), and it makes a node only when an initial one leads to it. The recursion
of `check_scc` into a refined component is the list `pending`, in which the
parts of the refined component come before the components that were waiting. A
path is found by `PathsFrom`, which makes the queue of `bfs_path` with a path
for each entry instead of a parent; that `bfs_path` stops at the goal is a
choice among paths of which only one ends there. **FairSccCheck** has the
definitions: classes of mutual reachability, and whether some set of nodes
carries an accepting fair cycle.

**Liveness** is `check_liveness`: tableau, product (one worklist item per
step), components, lasso, self-check. `Panic` is the failed `expect` of
`build_gba` for an until whose right operand was never interned; it ends the
check without a report. Any other report is compared with all lassos of
the graph. It can also start from a given product, to reach shapes for which no
small graph and formula exist.

**StateGraph** is `build` of `graph.rs`: states, edges closed under stuttering,
and the bit of every atom, where an `enabled`, `taken` or `kept` atom is
decided by matching the partial assignments of a sub-action
(`enumerate_partial`) with the edge, framed by what they leave alone. Each way
in which `build` returns is an action: a failing `init`, a predicate that fails
on an initial state or on a target, a failing step, sub-action or edge atom, a
deadlock, the cap, and a failing or violated invariant of the finished graph.
**TemporalCheck** adds the list of properties and `safety.rs`. The liveness
check is represented there by what `Liveness` shows of it, and its bodies are
such that the tableau does not panic.

**ParseProperty** is `parse.rs`: fairness premises are split off implications,
as whole premises or not at all; quantifiers and calls are unrolled under
bindings; a list of properties is parsed with one set of tables. `table` keeps
a bound expression under its node and the bound values alone (`Key`), the names
of the parameters left out, as the code does: an atom of one property serves
any later one with the same key, with the bindings of the first. What could be
wrong is that two instances meet there which differ in what they mean.
`MeaningIsKept` evaluates every atom at the bindings found in the table and
compares the property with the meaning of its definition, parameters scoped
lexically, on all words of the run. A temporal or a state-dependent argument, a
domain that depends on the state and a `let` are errors, which end the parsing.

### Values

**Values** has the forms of values, `structural_cmp`, order keys and
`normalize`; The fields of a key are a few bits wide, so that small values
cross their limits. **SymbolicSets** has the operations on sets that are not
listed: count, member, subset, equality, bounds, pick, enumeration.
**ValueStore** is `lookup_or_insert`: the cache of a thread, the lock and table
of a shard, the relaxed counter, the slab written without lock. `sees` is the
set of entries whose write happened before whatever a thread does next: locks
pass it on, and so does the hand-off of work; the counter does not. An entry
read that is not in it would be a read of uninitialized memory. **UpdateMemo**
is the memo of `Map.put` and `Map.set`, whose entry does not say which of the
two it is for. **ValuesCheck** runs them and compares sets with what they
denote by definition (`Den`). `AnswersByStructure` asks `contains`, `subseteq`
and `value_eq` of all pairs, sets with empty parts included: inclusion may be
refused wrongly only there. Likewise `KeysDecideAlike` excepts pairs on both
sides of the limit of exact digests, and `OrderIsTotal` says that the order
survives; together they are `OrderIsSound`. Both exceptions are wrong answers
of the code (section 4), and `ExceptionsAreMet`, an assumption of `MCValues`
that TLC evaluates, shows that the samples have such values.

### Evaluation

**Syntax** is the resolved tree of `quint-ast`. **Builtins** are the eager
operators on values, with their errors. **Lowering** is `lower.rs`: to each
definition the code of its function, with inlining, guards fused into jumps,
lets and vals cached by call kind, conjuncts hoisted over a choice, and the
control flow of `any`, `all`, `then`, `reps`, `expect`, `match` and `next`.
**Machine** is `Vm`: an action for each instruction, and `Start`, `Rerun`,
`Return` and `unwind` for the jobs. `Start` loads a state and so begins a new
generation of the val cache; `Rerun` is the next turn of the loop of
`enumerate`, which resets the next state and nothing else, so that vals cached
by one run are read by the next. `frames` are the calls with their register windows;
`cur`, `nxt` and the generation are the state banks; `params`, `lets`, `vals`,
`pures` the slots and caches; five stacks hold what is to be restored.
**Closures** is the reference evaluator: an expression is a function of a
storage, as its closures are. **Engines** lets a machine serve jobs in a row
and asks for each whether the reference evaluator, from an empty cache, ends it
in the same way.

## 4. The runs

| Run | Question | Instance |
|---|---|---|
| exact | Does the exact search keep the promise, are depths distances, does it end? | every graph on three states from one or two initial states, one state violating or none; three-state programs with every kind of error; chains of five states with every subset of six shortcuts (two of them backwards); eight configurations |
| fp | Does the fingerprint search with its second traversal? What remains under collisions? | the failing programs and the chains, under no collision, every single one and the total one; four configurations |
| threads | Are levels layers, do counters agree, is the report the same with one thread and with two? | three initial states, a full chunk of two and a partial one, that race for two others; scalar and composite values; a collision; a cap |
| threads_race_ids | Is the verdict the same when ids are raced for? *No.* | composite values, no collision |
| enumerate | Is every path visited, once, in order, and does the limit refuse only trees beyond it? | every tree of depth three with up to two alternatives and of depth two with up to three, some runs failing; limit of six runs |
| liveness | Does the automaton accept the violations, is every fair component found, is every report a counterexample and none missed? | some thirty bodies on all lassos of up to three positions; graphs of three states under no, weak and strong fairness, all lassos of up to four; products of three nodes and rings of four |
| liveness_empty | Does this hold for connectives of no operands? *No.* | four bodies with an empty `and` or `or` |
| temporal | Is the graph the reachable one, are its reports true, is the safety path exact, is a counterexample shortest, and how far from it can it be? | programs of two variables with four action sets, an evaluation failing in each of the places of `build` or an invariant, deadlock check, cap; all lassos of up to four |
| parse_meaning | Does the parsed property mean what the definition does, whatever was parsed before? | twenty definitions, alone and in six lists that share tables; all words of up to two positions over four letters and many of three |
| values | Do symbolic sets mean what they denote, do keys decide as values, are ids published, is the memo invisible? | some sixty values and their pairs; two threads, two shards, three ids; maps with one key and two values over words of eight bits |
| values_nested | Is every element of a set of maps of maps picked? *No.* | two keys at both levels |
| engines | Does a machine end each job as the reference evaluator does? | two jobs in a row or two runs of one, every choice, out of some eighty: six actions and nine predicates at four states, edges, run tests |

Bounds. `Horizon` is the number of layers by which a Pass is judged: with as
many layers as states every reachable state is in one of them. Three states are
enough for a state with two parents, a cycle, a self-loop, an unreachable state
and a deadlock at once; five in a chain for a path one, two and three steps
shorter than another. Two workers suffice for every race on one atomic
operation. A chunk of two with three states leaves a partial one. All graphs on
the states are in the families, so that fixing the order of a list by the order
of the states loses no discovery order. `MaxLasso` is four with three states,
so that a lasso may revisit a state with another edge. `MaxNodes` is four: the
search is judged by all sets of nodes on the products of up to four, and on the
larger ones of the pipeline by the lasso and the report alone. Refinement under
strong fairness happens twice in the rings of four. `MAX_ENUM` is 64 (2^20 in
the code), so that some set is too large to list. `INLINE_MAX_NODES` is 4 (24
in the code), so that small definitions are inlined and others called. `MaxInt`
is 99, which no program reaches (overflow is an error of the operator table
that both engines share). `MaxJobs` is 2: a stale cache or slot needs one run
to fill it and one to read it, of another job (`Start`) or of the same state
(`Rerun`). `MaxIds` is 3, a counter for the ids of the
store; with `MaxKids` 1 an entry, its child and a third that races.

Deadlock. `Engines` stops when a machine has served its jobs and `Values` when
the ids run out (a panic in the code): their configurations say `CHECK_DEADLOCK
FALSE`. In all others a report is followed by stuttering and anything else that
stops is an error.

Fairness. `ExactBfs` and `FpBfs` are one thread that nothing blocks: weak
fairness of `Next`. In `ParallelBfs` each thread is scheduled again and again
and is fair by itself: weak fairness of each worker's steps and of the
coordinating thread, which alone waits, for the joins. No fairness is assumed
elsewhere.

### Findings

Three runs exhibit behaviour that the repository's documents, comments or
assertions deny.

*threads_race_ids*: the rerun "on one thread" sorts successors by ids that the
workers have raced for. Two counterexamples of different kinds that are equally
near may then be met in another order: one thread reports a deadlock, two an
error. Both reports are true and shortest (`KeepsPromise` in *threads*), and a
Pass is never affected (`SameVerdictOnPass`).

*liveness_empty*: `nnf` (`temporal/ltl.rs:178`) starts its fold from a constant
that depends on the polarity alone and not on the connective, so a negated
empty `or` becomes false. `exists` over an empty set is such an `or`, and
`always(eventually(...))` of it is reported to hold.

*values_nested*: for `setOfMaps(D, setOfMaps(D2, R))`, `bounds`
(`value.rs:1535`) announces the bounds of the range once for each element of
the domain, while `pick` uses one index each: with two keys at both levels 4 of
the 16 maps are picked, and successors are omitted.

The passing runs contain five more. Each is an action, an exception of a
property that is as narrow as the code allows, or left out and named here:

- **A panic of the tableau.** `build_gba` takes the id of the right operand of
  every interned until (`temporal/buchi.rs:218-220`, `expect("interned")`), but
  the operand gets an id only when a frame expands the until. `a or (a implies
  always(q))` negated is `not a and (a and (true until not q))`: the until is
  interned as an operand of the conjunction, the frame is dropped because `not
  a` contradicts `a`, and the program panics. Two occurrences of a predicate
  are two atoms, since atoms are named by their expression, so `p or (p implies
  ...)` itself does not panic; `M or (M implies always(q))` does where M names a
  definition of the form `mustChange(A, v)`. Among the bodies of *liveness* are
  `Excluded`, of this form, and two with the literal `true`, of which the one
  that drops its frame first panics too. `Panic` is the action; a body that
  panics gets no report, and the properties are about the others.
- **Counterexamples that are not shortest.** `safety.rs:4` promises shortest
  ones. An edge that violates is reported at its source, so it comes before a
  state of the same depth that violates by itself, with a trace that is one
  state longer. `ShortestOfOneKind`, a part of `SafetyIsExact`, says that this
  is all: a counterexample is a shortest one if the conjuncts are all about
  states, or all about steps, and never more than one state too long. The
  bodies `TwoKinds` mix both.
- **Inclusion of sets with empty parts.** `subseteq` (`value.rs:1438-1447`)
  compares factors of products, and domains and ranges of sets of maps. With an
  empty factor, or an empty domain, the sets may be equal although their other
  parts are not: `tuples(Set(), Set(1))` is said not to be a subset of
  `tuples(Set(), Set(2))`. The exception of `AnswersByStructure` is
  `HasEmptyPart`, and only inclusion is excepted, not membership or equality.
- **Keys of pairs.** A pair of integers in [-2^27, 2^27) has an exact digest
  that begins with the first integer, every other pair one that begins with the
  rank of its first component (`value.rs:316-333`). (-2^27 - 1, 0) has a larger
  key than (-2^27, 0), against the comment at `value.rs:293-298` and the
  `debug_assert` of `value_cmp` (`value.rs:980`): a debug build panics, a
  release build orders such pairs the wrong way round, but consistently
  (`OrderIsTotal`). The exception of `KeysDecideAlike` is `Straddle`.
- **Products of products.** `bounds` announces one index for each factor of a
  product (`value.rs:1525`), a factor that is itself a product or a set of maps
  takes more: `oneOf` over `tuples(tuples(S, S), S)` panics in `pick`
  (`value.rs:1559`). Such sets are not among the samples of `EnumerationIsExact`;
  `ExceptionsAreMet` has two of them.

One more is in no run. Conjuncts hoisted over a choice (`vm/lower.rs:1151-1158`)
are evaluated although the set may be empty, in which case the choice disables
the action: a guard that fails with an error, such as `m.get(0) > 0` over
`oneOf(m.keys())` of an empty map, fails in the machine and is not reached in
the reference evaluator. No program of *engines* has such a guard.

Noted while modelling, without a run of their own:

- A worker that finds a violation and one that reaches `--max-states` in one
  level set the same `stop`, and `capped` wins: two threads say Incomplete
  where one reports the violation (`SameReport` excludes caps for this reason).
- A safety violation is reported without regard to the fairness premises
  (`temporal/mod.rs:81`); if no fair behaviour exists, the report is of none.
- `build` looks for violated invariants in the finished graph: a deadlock, an
  error or the cap met before hides them. Nothing in the repository says which
  of them is reported.
- `lower.rs:1020-1030` describes inlining of callees that use their parameters;
  `has_choice` (`lower.rs:385`) never allows it.
- A `let` is cached under a key that ignores whether its body is read under
  `next` (`vm/mod.rs:461`). Both engines do so: no property is about it.
- Parameter slots are dynamically scoped in both engines: a lambda that
  outlives its call reads the slot of whoever calls it.

## 5. The proofs

The four searches and the state graph are proved correct for every program,
finite or infinite, every configuration, hash function, number of threads and
schedule that the assumptions of their modules admit, and the search for a fair
component for every product:

| | types | invariants of the runs | what is reported |
|---|---|---|---|
| `ExactBfs` | `TypeCorrectness` | `DepthsAreDistancesAlways` | `Refinement` |
| `FpBfs` | `TypeCorrectness` | `TraversalsAgreeAlways`, `TracesAreRealAlways`, `CountsFingerprintsAlways` | `Refinement`, `PassIsExactAlways` |
| `ParallelBfs` | `TypeCorrectness` | `EveryStateOnceAlways`, `LevelsAreLayersAlways`, `RerunIsNeededAlways`, `OvershootIsBoundedAlways` | `PassIsExactAlways` |
| `ThreadCounts` | `TypesAlways` | `SameReportAlways`, `SameVerdictOnPassAlways` | `ThreadsRefinement` |
| `StateGraph` | `TypeCorrectness` | `GraphIsReachableAlways`, `StutterIsHarmlessAlways` | `BuildReportsAreTrueAlways` |
| `FairScc` | `SccTypeCorrectness` | `ComponentsAreMaximalAlways` | `FoundIffFairAlways`, `LassoIsFairAlways` |

Those on programs rest on `SearchAssumption` (programs and configurations of
their types, lists without duplicates; the bound up to which the runs judge a
Pass is a number) and on what the module itself assumes: fingerprints are
numbers, there is at least one thread, a chunk is not empty; and
`GraphAssumption`, that a `taken` atom is no other edge atom. Three theorems
name one thing more that they need:

- `HorizonSuffices`, in `CountsFingerprintsAlways` and `RerunIsNeededAlways`:
  what can be reached can be reached in `Horizon` steps. The properties that
  the runs check look no further than that. `HorizonOfStates` shows it of every
  program with at most `Horizon + 1` states, so of every instance of the runs.
- `IsFiniteSet(States)`, in `CountsFingerprintsAlways`, which counts the
  fingerprints of all states.
- `BranchingBounded`, in `OvershootIsBoundedAlways`: no state has more than
  `MostSuccessors` successors.

"No two states collide" is a premise within the properties that need it.

`SearchProblemProofs` shows that the recursive function of layers is well
defined, and lays out induction over layers as the least counterexample. It
also has what is said of reports without regard to a search: the numbers of a
Pass (`PassIsExactOf`), that two true reports without a cap are the same Pass
if one of them is a Pass (`PassTellsAll`), and that a program whose lists are
rearranged has the same layers, traces and true reports (`TellsRearranged`).

`ExactBfsProofs` proves, for all programs, configurations and any horizon:

- `Invariance`: `IInv` holds in every reachable state. Its parts: ids are
  pushed in the order in which they are allocated, so the frontier is the run
  of ids not yet popped (`FrontierIsSuffix`); parent links are steps of the
  program and depths count them (`LinksAreSteps`); depths never decrease along
  the arena and span at most two levels (`DepthsInOrder`, `TwoLevels`); every
  successor of a popped state is in the arena or still in the list
  (`RootsCovered`, `PoppedCovered`); nothing looked at so far is to blame
  (`NothingFound`).
- `TypeCorrectness`, which needs the invariant because a parent link or the
  head of the frontier must be an id.
- `Refinement`: `ExactBfs` implements `SearchPromise`. At an empty frontier the
  invariant says that the arena is closed under steps within the bound, so
  every layer within it was seen, at no greater depth (`LayersSeen`), and is
  clean. At a counterexample of depth n every state of an earlier depth has
  been popped, so the earlier layers are clean (`LayersClean`).
- `DepthsAreDistancesAlways`: a state is in the layer of its depth by its links,
  and in no earlier one since all of those were seen at no greater depth.

`FpBfsProofs`. `check_fp` keeps no states, only fingerprints and parents, so
the invariant (`IInv`) supplies what it does not keep: a list `disc` of the
discoveries with their depths and their places in the lists. It is determined
by one rule (`FirstFit`): discovery j is the first state in the lists of the
discoveries before it, taken in order, whose fingerprint is new. Nothing in
that rule mentions which traversal is running, so each step of the first
extends the list (`AdmitAgrees`) and each step of the second finds what it
says at the position it has reached (`RediscoverAgrees`, from
`DiscoveriesAgree`): the parent read from the array is the number at which the
second traversal arrives. Hence `TraversalsAgree` and, walking the parents,
`TracesAreReal`, with collisions or without; `TypeCorrectness` contains that
none of the assertions of `reconstruct` fails.

The second invariant, `JInv`, says why a report was made: nothing discovered
before the target is to blame, and the target was met last or popped last
(`Caught`). Depths grow along `disc` because parents do (`ParentsGrow`,
`DepthsGrow`), so when the states within the bound differ in their
fingerprints (`Apart`), the layers are found at no greater depth
(`LayersFound`), a Pass omits nothing and a counterexample is a nearest one
(`LastIsNearest`, `PoppedIsNearest`): `Refinement`. The fingerprints of `disc`
are different, so their number is the count of a Pass (`PrintsCount`), which
gives `CountsFingerprintsAlways`. The third part shows that an answer of
`check_fp` is determined by program, configuration and hash function
(`AnswersAgree`): two lists that obey the rule agree as far as both go
(`ListsAgree`), and only one discovery can be the one that is reported.

`ThreadCountsProofs`, part 1, is about `ParallelBfs`. `IInv` says for every
interleaving: workers that have not started or have joined hold nothing
(`WorkersRest`); no state is twice in the level, in the buffers, or in the
hands of workers, and what they hold was claimed (`FrontierOnce`, `OutOnce`,
`WorkOnce`, together `EveryStateOnce`); what is listed lies in the layer of the
level (`ListedIsReached`); `stop` is set only by a fault or the cap
(`StopHasReason`, which gives `RerunIsNeeded`); a state of the level not yet
taken is still ahead of the cursor or with a worker, else its successors are in
the set or with the worker that inserts them (`NothingSkipped`). When all have
joined without a stop the last part says that the level was explored completely
(`LevelExplored`), and this is what carries `ExactInv` from level to level:
what was seen is what lies in the layers so far, and the next level what is new
in the next layer. The parts of `ExactInv` hold without collisions;
`LevelsAreLayers` and the numbers of a Pass follow. For the overshoot, `CapInv`
says that a worker that has not joined may add the fresh successors of one
state at most (`FewFresh`), and joins once it has added them (`CapKept`).

Part 2 joins them to `check`. `SameParallel`: with `check` around it,
`check_parallel` takes its own steps only, so that all of the above holds of
the second process. `FpBfsProofs` is instantiated for all well-formed programs
(`Sane`) and not only those of `Models`, because the rerun searches the program
with its lists rearranged. The invariant of `check_fp` holds of both its
executions, since a rerun starts it anew (`FpInvStart`). The first process has
an answer of the program (`Answered`); what the second reports is true of the
program, and if neither ids are raced for nor the cap is set it is the same
(`Finished`): either the parallel search ended with a Pass, whose numbers are
the program's, or it asked for a rerun, and answers of `check_fp` agree.
`SameVerdictOnPassAlways` needs only that both reports are true.

`TemporalProofs`, part 1, proves, for every program, any sets of atoms and any
cap, that a finished graph is the reachable one (`GraphIsReachableAlways`),
that the edge of a state to itself may stand for stuttering
(`StutterIsHarmlessAlways`), and that whatever `build` returns is true
(`BuildReportsAreTrueAlways`). `IInv` says:

- no state is in the arena twice (`StatesOnce`), links are steps
  (`LinksAreSteps`), depths never decrease and span two levels from the state
  to expand next (`DepthsInOrder`, `TwoLevels`), the first states are the
  initial ones (`RootsFirst`). So every state is in the layer of its depth
  (`DepthsAreLayers`), and the traces of reports are behaviours
  (`TracesOfArena`);
- each expanded state expands without an error and has an edge to each of its
  targets, in their order and with the atoms of that step, and each target is
  in the arena at most one level deeper (`EdgesAreTargets`). So when all states
  of a depth less than d are expanded, the layers up to d have been found at no
  greater depth (`LayersFound`): a deadlock at the cursor is a nearest one, a
  finished graph omits nothing, and depths are distances. The edge from a state
  to itself has the atoms of a step that changes nothing, on which a `taken`
  atom is false and a `kept` atom true;
- no predicate failed on what was interned, and the atoms of a state are its
  own, those of `ENABLED` once it is expanded (`AtomsAreTrue`).

`BuildReportsAreTrue` itself is part of `IInv`, shown where each report is made
(`InitialReports`, `ExpansionReports`, `TargetReports`, `FinalReports`). The
theorems are about `GraphSpec`, whose steps are those of `TemporalCheck` that
change the graph. `TemporalCheck` itself is not proved about: its lassos are
judged by `Ltl`, which is recursive over formulas.

Part 2 is about `SccSpec`, the steps of `scc.rs` and `witness.rs` on a product
for which `IsProblem` holds. Reachability is not defined by paths but by closed
sets (`After`: what is in every set that contains the successors and is closed
under edges), so that no induction is needed to reason about it: what is led to
by a node of a closed set is in the set (`StaysInClosed`). The invariant,
`SccInv`, has three parts.

- `TarjanInv`. Indices number the nodes as they are met (`NumbersOnce`); the
  stack and the calls descend in that order. A call leads to everything above it
  on the stack, and everything on the stack leads to a call at or below it
  (`CallsLead`, `LeadToCalls`), so that what is above a call is one piece. A low
  link is the index of a node on the stack that the call leads to (`LowIsLed`),
  and no edge that has been followed from above a call goes below all the links
  of that call and the calls inside it (`LowIsLeast`). What has left the stack
  leads to nothing else (`FinishedIsClosed`). When a call ends with a low link
  equal to its index, the last two say that no edge leaves what is above it
  except to what has left the stack (`AboveIsClosed`), and the first two that
  it is connected: what is popped is a class (`AboveIsClass`). When the link is
  lower, there is a call below, to which the node leads
  (`InnerRetreatKeepsTarjan`).
- Of the search: a component that waits is connected, no fair set of nodes is in
  neither the view nor a waiting component (`NoneDropped`), and what was found
  is fair. A fair set in the view is inside one class of it (`FairInOneClass`);
  a rejected component holds none (`RejectedHasNone`); and a fair set avoids
  every state that is dropped for strong fairness (`RefinedKeepsFair`), because
  a constraint without an edge taken in the component has none in a part of it.
- Of the cycle: it follows edges inside the component from its first node; what
  is still to visit lies in the component; and what has been visited together
  with what is still to visit meets each acceptance set and each constraint
  (`AllIsVisited`). `Accept` establishes it (`AcceptFacts`), and a visit moves
  its node or edge from one to the other (`VisitKeeps`). When nothing is left
  the cycle meets everything by itself.

The path search is a recursive function (`AllPaths`): the list of paths has one
path for each node that has been met, each follows edges, and what the paths
before position i end in has all its successors met. A list has no more
paths than there are nodes, so at the end what has been met is closed
(`BfsFinds`). For the prefix this meets the goal because every node is reached
from an initial one, inside a component because it is connected.

The theorems hold for products of any size: `Judged`, which keeps TLC from
enumerating the sets of nodes of large products, is not used. In `Liveness` the
same steps run on the product it has built; that `IsProblem` holds of it is not
proved there, since the automaton comes from recursive operators on formulas.

`EnumerateProofs` proves, for every finite choice tree and every limit, that
the walk of `Enumerate` meets what it recorded (`Replay`, the `debug_assert` of
`choose`), finds next states in depth-first order and none twice (`Order`),
omits none when it succeeds (`Omission`), and makes one run for each path, so
that the limit refuses exactly the trees with more paths (`Limit`). None of
these is inductive by itself. `IInv` adds:

- the trail is a path of the tree, each choice recorded at the node that the
  choices before it lead to (`TrailIsPath`), and the current run has taken its
  first `cursor` choices and ends where the trail does (`RunFollowsTrail`).
  `Replay` follows from these two;
- what has been found is what the paths before the current one end in
  (`FoundAreEnded`), and each of them took one run (`RunsAreCounted`).

The argument is one lemma for each action on which paths are behind the current
one: recording a first alternative puts none behind it (`ChooseOrder`),
`advance_trail` puts exactly the path of the last run behind it
(`AdvanceOrder`), since a leaf between the two would leave the trail at a
choice after the advanced one, which has no alternative left (`LeavesAhead`);
when no choice can advance nothing is ahead (`ExhaustedOrder`). For `Limit`
there must be a leaf below the current path whenever a run begins
(`LeafBelow`). The theorems assume `EnumerateAssumption`: the trees are finite
and closed under their choices, and the limit is a natural number.

`ValueStoreProofs` proves, for any threads, shards and number of ids, that
whatever a thread can resolve was written before and is visible to it
(`Publication`) and that two ids in use never stand for equal data
(`HashConsing`). `IInv` adds: a lock has one holder (`LocksAreHeld`); a claimed
index belongs to one thread, is in no table, and is written by nobody else
(`ClaimsAreOwn`); a table has the written entries of its shard, each data once,
and not yet the data that its holder inserts (`TableIsRight`, `NewDataIsNew`),
which is what uniqueness rests on; an id that a thread has is in its table
(`IdsAreInTables`); and what a free lock released covers its table, children
included (`ViewsAreRight`), which is what publication rests on. There is one
lemma per action. `StoreAssumption`: the tag of an empty entry is no tag,
nobody is no thread, and a hash selects a shard.

The same module proves that an update is answered as without the memo
(`Transparency`). The entry does not record the operation, so this rests on the
slots of `set` and `put` on one map, key and value being different: adding a
multiplier `Mix` with SlotSize <= Mix <= Modulus - SlotSize moves a word into
another slot (`MixMovesSlot`). `MemoAssumption` states these inequalities; they
hold of 0x9e3779b97f4a7c15, 2^64 and slots of 2^48 words.

`ProofFacts` has what these modules need of sequences, and that a set of
numbers has a least element, by which they do all induction. The inductive
invariants stand in the modules of the searches, beside what they speak of.

Model-checked only: liveness (`Returns`, `BothReturn`), which is beyond the
prover; all about formulas, symbolic sets and evaluation (the properties of
`Liveness`, `ParseProperty`, `ValuesCheck` and `Engines`, and `SafetyIsExact`).
What those say is defined by recursion over formulas, sets and expressions, and
induction over such data is beyond the prover too. That the search of `FairScc`
ends is liveness as well; *liveness* shows that it does not get stuck.

## 6. What is left

In order of importance:

1. `slab.rs` and `symbol.rs` of `quint-ast`: publication of chunks without a
   lock, and the rank order of symbols.
2. The report of `runner.rs`, which ends at the first failing path.
3. Parameter overrides and memo tables of the machine.

## 7. What is not modelled

Compiling and loading a specification, output, and the probe: see the notes in
`PROJECT.json`. Within the modelled parts:

- Ids and indices are natural numbers; at 2^32-1 states a `u32` index would be
  the sentinel.
- A program without variables: `check_exact` asserts that there is one
  (`state.rs:28`), and states are never empty in these models.
- `last_report` and its message.
- Memory orderings in the searches other than of `stop`: each other shared
  datum is one atomic counter or is guarded by the lock of a shard. Those of
  the store are in `ValueStore`.
- A worker that panics (`join().unwrap()`).
- Evaluation: functions, cells and slots are named by their definitions and not
  numbered; memo tables, `param_override` with `Move` (no code that the
  lowering emits has one) and `inline_stack` are left out, and so is the
  condition `def_refs.contains_key` of `lower_let`. The choice oracle is
  nondeterminism, its replay is `Enumerate`. Panics on ill-typed operands are
  excluded by the programs. `allLists`, `allListsUpTo` and `q::debug` are left
  out. Both engines share one table of eager operators and one representation
  of values, so `SameSuccessors` compares their control and not these. For
  predicates results are compared; for actions the result, and what they assign
  if they are enabled. Where the machine asked for fewer choices than the
  reference, all completions in the reference must agree with it. `Rerun` lets
  the oracle answer as it did before, which `advance` does not.
- Strings are numbers, ordered as their text is.
- The constants that name operations of the value store in `Builtins` are
  operators of `SymbolicSets`; `MCEngines` joins the two.
