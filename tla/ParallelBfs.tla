----------------------------- MODULE ParallelBfs -----------------------------
(***************************************************************************)
(* The parallel fingerprint search (--threads N): level-synchronized       *)
(* breadth-first.  For every level the workers claim chunks of the         *)
(* frontier with an atomic cursor, expand their states, and collect the    *)
(* fresh successors in buffers of their own; when all have joined, the     *)
(* buffers become the next frontier.  Only a Pass or a cap is reported     *)
(* from here: for anything else the caller searches again on one thread.   *)
(*                                                                         *)
(* What the workers share is read and written one atomic operation per     *)
(* action: cursor, discovered, stop, capped, and the fingerprint set, of   *)
(* which an insertion locks one shard.                                     *)
(***************************************************************************)
EXTENDS SearchProblem, FiniteSetsExt

CONSTANTS
  Fingerprints,   \* the hash functions considered
  Threads,        \* number of workers
  Chunk           \* states per work unit (CHUNK)

ASSUME ParallelAssumption ==
  /\ \A f \in Fingerprints : f \in [States -> Nat]
  /\ Threads \in Nat \ {0}
  /\ Chunk \in Nat \ {0}

Workers == 1 .. Threads

VARIABLES
  model, cfg, fp,   \* the program, the configuration and the hash function
  pc,               \* where the coordinating thread is
  todo,             \* initial states still to be looked at
  fps,              \* the sharded fingerprint set
  discovered,       \* fresh states counted so far
  stop, capped,     \* the flags
  frontier,         \* the states of the current level
  depth,            \* its depth
  cursor,           \* the next chunk to claim
  wpc,              \* where each worker is
  work,             \* the states of its chunk it has not begun
  succs,            \* the successors it has not looked at
  fresh,            \* how many of the looked-at ones were fresh
  out,              \* its buffer
  result            \* what check_parallel returned

problem    == <<model, cfg, fp>>
workerVars == <<wpc, work, succs, fresh, out>>
levelVars  == <<frontier, depth>>
vars == <<problem, pc, todo, fps, discovered, stop, capped, levelVars, cursor, workerVars, result>>

Result(kind, states, maxDepth) == [kind |-> kind, states |-> states, maxDepth |-> maxDepth]

(***************************************************************************)
(* check_invs returns anything but Ok(None).                               *)
(***************************************************************************)
Bad(s) == model.invs[s] # "holds"

Fresh(s) == fp[s] \notin fps

AtBound == Reached(cfg.maxSteps, depth)

Init ==
  /\ model \in Models
  /\ cfg \in Configs
  /\ fp \in Fingerprints
  /\ pc = "start"
  /\ todo = << >>
  /\ fps = {}
  /\ discovered = 0
  /\ stop = FALSE
  /\ capped = FALSE
  /\ frontier = << >>
  /\ depth = 0
  /\ cursor = 0
  /\ wpc = [w \in Workers |-> "joined"]
  /\ work = [w \in Workers |-> << >>]
  /\ succs = [w \in Workers |-> {}]
  /\ fresh = [w \in Workers |-> 0]
  /\ out = [w \in Workers |-> << >>]
  /\ result = Result("running", 0, 0)

Return(kind, states, maxDepth) ==
  /\ result' = Result(kind, states, maxDepth)
  /\ pc' = "done"

-----------------------------------------------------------------------------
(***************************************************************************)
(* The initial states are looked at before any worker is spawned.          *)
(***************************************************************************)
EnumerateInit ==
  /\ pc = "start"
  /\ IF model.initError
     THEN Return("rerun", 0, 0) /\ UNCHANGED todo
     ELSE todo' = model.init /\ pc' = "init" /\ UNCHANGED result
  /\ UNCHANGED <<problem, fps, discovered, stop, capped, levelVars, cursor, workerVars>>

AdmitInitial ==
  /\ pc = "init"
  /\ todo # << >>
  /\ LET s == Head(todo)
     IN  /\ fps' = fps \cup {fp[s]}
         /\ IF ~ Fresh(s)
            THEN /\ todo' = Tail(todo)
                 /\ UNCHANGED <<pc, discovered, frontier, result>>
            ELSE IF Bad(s)
            THEN /\ Return("rerun", 0, 0)
                 /\ UNCHANGED <<todo, discovered, frontier>>
            ELSE /\ frontier' = Append(frontier, s)
                 /\ discovered' = discovered + 1
                 /\ todo' = Tail(todo)
                 /\ IF Reached(cfg.maxStates, discovered')
                    THEN Return("incomplete", discovered', 0)
                    ELSE UNCHANGED <<pc, result>>
  /\ UNCHANGED <<problem, stop, capped, depth, cursor, workerVars>>

InitDone ==
  /\ pc = "init"
  /\ todo = << >>
  /\ pc' = "level"
  /\ UNCHANGED <<problem, todo, fps, discovered, stop, capped, levelVars, cursor, workerVars, result>>

(***************************************************************************)
(* A level begins: a new cursor, and workers with empty buffers.           *)
(***************************************************************************)
Spawn ==
  /\ pc = "level"
  /\ frontier # << >>
  /\ cursor' = 0
  /\ wpc' = [w \in Workers |-> "claim"]
  /\ out' = [w \in Workers |-> << >>]
  /\ pc' = "work"
  /\ UNCHANGED <<problem, todo, fps, discovered, stop, capped, levelVars, work, succs, fresh, result>>

ReportPass ==
  /\ pc = "level"
  /\ frontier = << >>
  /\ Return("pass", Cardinality(fps), depth)
  /\ UNCHANGED <<problem, todo, fps, discovered, stop, capped, levelVars, cursor, workerVars>>

-----------------------------------------------------------------------------
\* Mutant: the cursor is read, and nobody is told.
ClaimUnseen(w) ==
  /\ wpc[w] = "claim"
  /\ cursor < Len(frontier)
  /\ work' = [work EXCEPT ![w] = SubSeq(frontier, cursor + 1, cursor + 1)]
  /\ wpc' = [wpc EXCEPT ![w] = "chunk"]
  /\ UNCHANGED <<problem, pc, todo, fps, discovered, stop, capped, levelVars, cursor,
                 succs, fresh, out, result>>

(***************************************************************************)
(* A worker claims the next chunk, or joins when there is none.  That it   *)
(* has loaded `stop' before is no guard: another worker may have set it    *)
(* since, and a relaxed load may return an older value.                    *)
(***************************************************************************)
Claim(w) ==
  /\ wpc[w] = "claim"
  /\ cursor' = cursor + 1
  /\ LET lo == cursor * Chunk
         hi == IF lo + Chunk <= Len(frontier) THEN lo + Chunk ELSE Len(frontier)
     IN  IF lo >= Len(frontier)
         THEN /\ wpc' = [wpc EXCEPT ![w] = "joined"]
              /\ UNCHANGED work
         ELSE /\ work' = [work EXCEPT ![w] = SubSeq(frontier, lo + 1, hi)]
              /\ wpc' = [wpc EXCEPT ![w] = "chunk"]
  /\ UNCHANGED <<problem, pc, todo, fps, discovered, stop, capped, levelVars,
                 succs, fresh, out, result>>

SeeStop(w) ==
  /\ wpc[w] = "claim"
  /\ stop
  /\ wpc' = [wpc EXCEPT ![w] = "joined"]
  /\ UNCHANGED <<problem, pc, todo, fps, discovered, stop, capped, levelVars, cursor,
                 work, succs, fresh, out, result>>

(***************************************************************************)
(* Abandon the chunk (break 'chunks).                                      *)
(***************************************************************************)
Abandon(w) ==
  /\ wpc' = [wpc EXCEPT ![w] = "joined"]
  /\ work' = [work EXCEPT ![w] = << >>]
  /\ succs' = [succs EXCEPT ![w] = {}]
  /\ fresh' = [fresh EXCEPT ![w] = 0]

(***************************************************************************)
(* Enumerate the successors of the next state of the chunk.  An error or a *)
(* deadlock stops everybody; at the step bound that is all.                *)
(***************************************************************************)
TakeState(w) ==
  /\ wpc[w] = "chunk"
  /\ work[w] # << >>
  /\ LET s == Head(work[w])
     IN  IF s \in model.stepError \/ (model.step[s] = << >> /\ cfg.deadlock)
         THEN /\ stop' = TRUE
              /\ Abandon(w)
         ELSE /\ work' = [work EXCEPT ![w] = Tail(@)]
              /\ IF AtBound
                 THEN UNCHANGED <<wpc, succs>>
                 ELSE /\ succs' = [succs EXCEPT ![w] = Range(model.step[s])]
                      /\ wpc' = [wpc EXCEPT ![w] = "insert"]
              /\ UNCHANGED <<stop, fresh>>
  /\ UNCHANGED <<problem, pc, todo, fps, discovered, capped, levelVars, cursor, out, result>>

(***************************************************************************)
(* Look at a successor: the list is ordered by the ids of its values, and  *)
(* workers race for the ids of new values, so it may be any of them.       *)
(***************************************************************************)
InsertSuccessor(w) ==
  /\ wpc[w] = "insert"
  /\ \E s \in succs[w] :
       /\ fps' = fps \cup {fp[s]}
       /\ IF Fresh(s) /\ Bad(s)
          THEN /\ stop' = TRUE
               /\ Abandon(w)
               /\ UNCHANGED out
          ELSE /\ succs' = [succs EXCEPT ![w] = @ \ {s}]
               /\ IF Fresh(s)
                  THEN /\ fresh' = [fresh EXCEPT ![w] = @ + 1]
                       /\ out' = [out EXCEPT ![w] = Append(@, s)]
                  ELSE UNCHANGED <<fresh, out>>
               /\ UNCHANGED <<stop, wpc, work>>
  /\ UNCHANGED <<problem, pc, todo, discovered, capped, levelVars, cursor, result>>

\* Mutant: the worker that reaches the cap goes on with its chunk.
CountAndGoOn(w) ==
  /\ wpc[w] = "insert"
  /\ succs[w] = {}
  /\ discovered' = discovered + fresh[w]
  /\ capped' = (capped \/ Reached(cfg.maxStates, discovered'))
  /\ stop' = (stop \/ Reached(cfg.maxStates, discovered'))
  /\ wpc' = [wpc EXCEPT ![w] = "chunk"]
  /\ fresh' = [fresh EXCEPT ![w] = 0]
  /\ UNCHANGED <<problem, pc, todo, fps, levelVars, cursor, work, succs, out, result>>

(***************************************************************************)
(* All successors of a state are looked at: add the fresh ones to the      *)
(* common count.  The worker that brings it to the cap stops everybody.    *)
(***************************************************************************)
CountFresh(w) ==
  /\ wpc[w] = "insert"
  /\ succs[w] = {}
  /\ discovered' = discovered + fresh[w]
  /\ IF fresh[w] > 0 /\ Reached(cfg.maxStates, discovered')
     THEN /\ capped' = TRUE
          /\ stop' = TRUE
          /\ Abandon(w)
     ELSE /\ wpc' = [wpc EXCEPT ![w] = "chunk"]
          /\ fresh' = [fresh EXCEPT ![w] = 0]
          /\ UNCHANGED <<capped, stop, work, succs>>
  /\ UNCHANGED <<problem, pc, todo, fps, levelVars, cursor, out, result>>

ChunkDone(w) ==
  /\ wpc[w] = "chunk"
  /\ work[w] = << >>
  /\ wpc' = [wpc EXCEPT ![w] = "claim"]
  /\ UNCHANGED <<problem, pc, todo, fps, discovered, stop, capped, levelVars, cursor,
                 work, succs, fresh, out, result>>

Step(w) ==
  \/ Claim(w)
  \/ SeeStop(w)
  \/ TakeState(w)
  \/ InsertSuccessor(w)
  \/ CountFresh(w)
  \/ ChunkDone(w)

-----------------------------------------------------------------------------
\* Mutant: the last worker's buffer is left out.
BuffersButLast ==
  LET upTo[n \in 0 .. Threads] == IF n = 0 THEN << >> ELSE upTo[n - 1] \o out[n]
  IN  upTo[Threads - 1]

(***************************************************************************)
(* The buffers of the workers one after the other.                         *)
(***************************************************************************)
Buffers ==
  LET upTo[n \in 0 .. Threads] == IF n = 0 THEN << >> ELSE upTo[n - 1] \o out[n]
  IN  upTo[Threads]

AllJoined == pc = "work" /\ \A w \in Workers : wpc[w] = "joined"

\* Mutant: the cap is not told from a violation.
JoinForRerun ==
  /\ AllJoined
  /\ stop
  /\ Return("rerun", 0, 0)
  /\ UNCHANGED <<problem, todo, fps, discovered, stop, capped, levelVars, cursor, workerVars>>

(***************************************************************************)
(* All workers have joined and `stop' is set: the cap, or else a search    *)
(* for the report on one thread.                                           *)
(***************************************************************************)
JoinStopped ==
  /\ AllJoined
  /\ stop
  /\ IF capped THEN Return("incomplete", discovered, 0) ELSE Return("rerun", 0, 0)
  /\ UNCHANGED <<problem, todo, fps, discovered, stop, capped, levelVars, cursor, workerVars>>

\* Mutant: an empty level counts.
NextDepthAlways == depth + 1

NextDepth == IF Buffers = << >> THEN depth ELSE depth + 1

JoinLevel ==
  /\ AllJoined
  /\ ~ stop
  /\ frontier' = Buffers
  /\ IF AtBound
     THEN /\ Return("pass", Cardinality(fps), depth)
          /\ UNCHANGED depth
     ELSE /\ depth' = NextDepth
          /\ pc' = "level"
          /\ UNCHANGED result
  /\ UNCHANGED <<problem, todo, fps, discovered, stop, capped, cursor, workerVars>>

Returned == pc = "done" /\ UNCHANGED vars

Coordinate == EnumerateInit \/ AdmitInitial \/ InitDone \/ Spawn \/ ReportPass \/ JoinStopped \/ JoinLevel

Next == Coordinate \/ (\E w \in Workers : Step(w)) \/ Returned

Spec == Init /\ [][Next]_vars

(***************************************************************************)
(* Two workers never expand, or put in their buffers, the same state.      *)
(***************************************************************************)
EveryStateOnce ==
  pc = "work" =>
    /\ \A v, w \in Workers : v # w =>
         /\ Range(work[v]) \cap Range(work[w]) = {}
         /\ Range(out[v]) \cap Range(out[w]) = {}
    /\ \A w \in Workers :
         /\ IsInjective(out[w])
         /\ Range(out[w]) \cap Range(frontier) = {}

(***************************************************************************)
(* Between levels, and without collisions, the frontier holds the states   *)
(* at this distance from the initial ones, however the last level was      *)
(* divided among the workers: "the state set is schedule-independent".     *)
(***************************************************************************)
LevelsAreLayers ==
  pc = "level" /\ frontier # << >> /\ IsInjective(fp) =>
    Range(frontier) = Layer(model, depth) \ UNION {Layer(model, n) : n \in 0 .. depth - 1}

(***************************************************************************)
(* The second search has something to report: not every state within the   *)
(* step bound satisfies the invariants and can be expanded.                *)
(***************************************************************************)
Clean ==
  /\ ~ model.initError
  /\ \A n \in 0 .. Horizon :
       InScope(cfg, n) => HoldsAt(model, n) /\ ExpandsAt(model, cfg, n)

RerunIsNeeded == result.kind = "rerun" => ~ Clean

(***************************************************************************)
(* A worker that races past the cap counts no more than the successors of  *)
(* one state: "~N states".  The initial states are counted one by one.     *)
(***************************************************************************)
MostSuccessors == Max({Len(model.step[s]) : s \in States})

OvershootIsBounded ==
  result.kind = "incomplete" =>
    /\ Reached(cfg.maxStates, result.states)
    /\ \/ result.states \in {1, cfg.maxStates}
       \/ result.states < cfg.maxStates + Threads * MostSuccessors

-----------------------------------------------------------------------------
(***************************************************************************)
(* The inductive invariant behind these properties.                        *)
(***************************************************************************)
ResultType ==
  [kind : {"running", "pass", "incomplete", "rerun"}, states : Nat, maxDepth : Nat]

TypeOK ==
  /\ model \in Models /\ cfg \in Configs /\ fp \in Fingerprints
  /\ pc \in {"start", "init", "level", "work", "done"}
  /\ todo \in Seq(States)
  /\ fps \in SUBSET Nat /\ IsFiniteSet(fps)
  /\ discovered \in Nat
  /\ stop \in BOOLEAN /\ capped \in BOOLEAN
  /\ frontier \in Seq(States)
  /\ depth \in Nat
  /\ cursor \in Nat
  /\ wpc \in [Workers -> {"claim", "chunk", "insert", "joined"}]
  /\ work \in [Workers -> Seq(States)]
  /\ succs \in [Workers -> SUBSET States]
  /\ fresh \in [Workers -> Nat]
  /\ out \in [Workers -> Seq(States)]
  /\ result \in ResultType

(***************************************************************************)
(* Workers run during a level only, and hold nothing when they do not.     *)
(***************************************************************************)
WorkersRest ==
  /\ pc # "work" => \A w \in Workers : wpc[w] = "joined"
  /\ \A w \in Workers :
       /\ wpc[w] \in {"claim", "joined"} => work[w] = << >>
       /\ wpc[w] # "insert" => succs[w] = {} /\ fresh[w] = 0

(***************************************************************************)
(* What is listed for this level, and what for the next, was fresh when it *)
(* was listed: no fingerprint occurs twice.                                *)
(***************************************************************************)
FrontierOnce ==
  \A i \in 1 .. Len(frontier) :
    /\ fp[frontier[i]] \in fps
    /\ \A j \in 1 .. Len(frontier) : fp[frontier[i]] = fp[frontier[j]] => i = j

OutOnce ==
  pc = "work" =>
    \A w \in Workers : \A i \in 1 .. Len(out[w]) :
      /\ fp[out[w][i]] \in fps
      /\ \A j \in 1 .. Len(frontier) : fp[frontier[j]] # fp[out[w][i]]
      /\ \A v \in Workers : \A j \in 1 .. Len(out[v]) :
           fp[out[v][j]] = fp[out[w][i]] => v = w /\ j = i

(***************************************************************************)
(* The chunks are parts of the frontier before the cursor, and disjoint.   *)
(***************************************************************************)
WorkOnce ==
  pc = "work" =>
    \A w \in Workers :
      /\ \A s \in Range(work[w]) :
           \E i \in 1 .. Len(frontier) : i <= cursor * Chunk /\ s = frontier[i]
      /\ \A v \in Workers : v # w => Range(work[v]) \cap Range(work[w]) = {}

(***************************************************************************)
(* Everything listed is reached in as many steps as the level is deep.     *)
(***************************************************************************)
ListedIsReached ==
  /\ InScope(cfg, depth)
  /\ pc = "start" => frontier = << >> /\ fps = {}
  /\ pc \in {"start", "init"} => depth = 0 /\ Range(todo) \subseteq Layer(model, 0)
  /\ pc # "done" => Range(frontier) \subseteq Layer(model, depth)
  /\ pc = "work" =>
       \A w \in Workers :
         /\ Range(out[w]) \subseteq Layer(model, depth + 1)
         /\ succs[w] \subseteq Layer(model, depth + 1)
         /\ wpc[w] = "insert" \/ out[w] # << >> => ~ AtBound

(***************************************************************************)
(* The search is stopped early for a reason: the cap, or something that    *)
(* check_fp will find too.                                                 *)
(***************************************************************************)
Faulty ==
  \/ model.initError
  \/ \E n \in 0 .. depth + 1 :
       InScope(cfg, n) /\ ~ (HoldsAt(model, n) /\ ExpandsAt(model, cfg, n))

StopHasReason ==
  /\ pc \in {"start", "init", "level"} => ~ stop
  /\ stop /\ ~ capped => Faulty
  /\ result.kind = "rerun" => Faulty
  /\ pc # "done" => result.kind = "running"

(***************************************************************************)
(* Unless stopped, a worker leaves nothing of what has been claimed, and   *)
(* joins when everything has been.                                         *)
(***************************************************************************)
Expandable(s) == s \notin model.stepError /\ (cfg.deadlock => model.step[s] # << >>)

Looked(s) ==
  /\ Expandable(s)
  /\ ~ AtBound =>
       \A t \in Range(model.step[s]) : fp[t] \in fps \/ \E w \in Workers : t \in succs[w]

NothingSkipped ==
  pc = "work" /\ ~ stop =>
    /\ \A i \in 1 .. Len(frontier) :
         i <= cursor * Chunk =>
           Looked(frontier[i]) \/ \E w \in Workers : frontier[i] \in Range(work[w])
    /\ \A w \in Workers : wpc[w] = "joined" => Len(frontier) <= cursor * Chunk

(***************************************************************************)
(* Without collisions, what has been seen is what can be reached in depth  *)
(* steps, and it is all in order: beyond it lie only the successors of the *)
(* frontier.                                                               *)
(***************************************************************************)
Seen(s) == fp[s] \in fps

Upto(n) == UNION {Layer(model, k) : k \in 0 .. n}

RootsSeen ==
  pc = "init" =>
    /\ \A s \in Layer(model, 0) : s \in Range(todo) \/ Seen(s)
    /\ \A f \in fps : \E s \in Range(frontier) : f = fp[s]
    /\ \A s \in Range(frontier) : model.invs[s] = "holds"

LayersSeen ==
  pc \in {"level", "work"} =>
    /\ \A s \in Upto(depth) :
         /\ Seen(s)
         /\ model.invs[s] = "holds"
         /\ s \in Range(frontier) \/ (Expandable(s) /\ Range(model.step[s]) \subseteq Upto(depth))
    /\ frontier # << >> => Range(frontier) = Layer(model, depth) \ Upto(depth - 1)
    /\ pc = "level" => \A f \in fps : \E s \in Upto(depth) : f = fp[s]

NextLayerSeen ==
  pc = "work" =>
    /\ \A w \in Workers : \A s \in Range(out[w]) : s \notin Upto(depth) /\ model.invs[s] = "holds"
    /\ ~ stop =>
         \A f \in fps :
           \E s \in States :
             f = fp[s] /\ (s \in Upto(depth) \/ \E w \in Workers : s \in Range(out[w]))

DepthIsNeeded == depth = 0 \/ Layer(model, depth) \ Upto(depth - 1) # {}

PassSawAll ==
  result.kind = "pass" =>
    /\ result.maxDepth = depth
    /\ result.states = Cardinality(fps)
    /\ fps = {fp[s] : s \in Upto(depth)}
    /\ \A s \in Upto(depth) :
         /\ model.invs[s] = "holds"
         /\ Expandable(s)
         /\ AtBound \/ Range(model.step[s]) \subseteq Upto(depth)

IInv ==
  /\ TypeOK
  /\ WorkersRest
  /\ FrontierOnce /\ OutOnce /\ WorkOnce
  /\ ListedIsReached
  /\ StopHasReason
  /\ NothingSkipped

ExactInv ==
  IsInjective(fp) => RootsSeen /\ LayersSeen /\ NextLayerSeen /\ DepthIsNeeded /\ PassSawAll

(***************************************************************************)
(* Before the cap the count is below it; after, every worker but those     *)
(* that have joined may still add the successors of one state.             *)
(***************************************************************************)
Joined == {w \in Workers : wpc[w] = "joined"}

FewFresh ==
  \A w \in Workers :
    IsFiniteSet(succs[w]) /\ fresh[w] + Cardinality(succs[w]) <= MostSuccessors

CapKept ==
  /\ capped => stop
  /\ pc \in {"start", "init", "level"} => ~ Reached(cfg.maxStates, discovered) \/ frontier = << >>
  /\ pc \in {"start", "init"} /\ frontier = << >> => discovered = 0
  /\ pc = "work" =>
       /\ ~ capped => ~ Reached(cfg.maxStates, discovered)
       /\ capped =>
            /\ Reached(cfg.maxStates, discovered)
            /\ discovered < cfg.maxStates + Cardinality(Joined) * MostSuccessors

CapInv == FewFresh /\ CapKept /\ OvershootIsBounded

=============================================================================
