------------------------------- MODULE Machine --------------------------------
(***************************************************************************)
(* The virtual machine, one instruction at a time.  A machine serves many  *)
(* jobs: its caches survive from one to the next, and whatever a job that  *)
(* stops with an error leaves on the unwind stacks is taken down.          *)
(*                                                                         *)
(* A register window is a function of the registers that were written.     *)
(* The choice oracle is nondeterminism, and trail is what it answered.     *)
(***************************************************************************)
EXTENDS Syntax, Builtins

CONSTANTS Program,    \* the code of each function (Lowering)
          Jobs,       \* what the program asks of a machine
          MaxJobs     \* bound: jobs of one machine

VARIABLES frames, result,                    \* calls; what the last one returned
          cur, nxt, generation,              \* state banks
          params, lets, vals, pures,         \* parameter slots and caches
          cell_stack, param_stack, snapshots, any_stack, next_stack,
          next_mode, trail,                  \* the run's environment
          job, served

banks == <<cur, nxt, generation>>
caches == <<params, lets, vals, pures>>
stacks == <<cell_stack, param_stack, snapshots, any_stack, next_stack>>
session == <<job, served>>
vars == <<frames, result, banks, caches, stacks, next_mode, trail, session>>

Unset == <<"unset", 0>>
NoResult == <<"running", 0>>
NoLoop == [none |-> 0]
Idle == [entry |-> "none"]

AllUnset(S) == [s \in S |-> Unset]

Top == Last(frames)
Ins == Program[Top.fn][Top.pc]
Reg(r) == Top.regs[r]
RegsOf(rs) == [i \in DOMAIN rs |-> Reg(rs[i])]

\* The machine is about to execute an instruction of this kind.
At(op) == frames # << >> /\ result = NoResult /\ Top.loop = NoLoop /\ Ins.op = op

SetTop(f) == frames' = Append(Front(frames), f)
Resume(pc) == SetTop([Top EXCEPT !.pc = pc]) /\ UNCHANGED result
WriteTo(r, v, pc) == SetTop([Top EXCEPT !.regs = r :> v @@ @, !.pc = pc]) /\ UNCHANGED result
Fault(code) == result' = Err(code) /\ UNCHANGED frames

\* An instruction's value goes to its register, its error to the caller.
Deliver(r) == IF IsErr(r) THEN Fault(r[2]) ELSE WriteTo(Ins.a, r[2], Top.pc + 1)

Next1 == Top.pc + 1

Init ==
  /\ frames = << >>
  /\ result = NoResult
  /\ cur = AllUnset(Vars)
  /\ nxt = AllUnset(Vars)
  /\ generation = 1
  /\ params = AllUnset(Params)
  /\ lets = AllUnset(LetNames)
  /\ vals = [d \in TopVals("val") |-> [gen |-> 0, v |-> FALSEV]]
  /\ pures = AllUnset(TopVals("pureval"))
  /\ cell_stack = << >> /\ param_stack = << >> /\ snapshots = << >>
  /\ any_stack = << >> /\ next_stack = << >>
  /\ next_mode = FALSE
  /\ trail = << >>
  /\ job = Idle
  /\ served = 0

-----------------------------------------------------------------------------
(***************************************************************************)
(* Straight-line instructions.                                             *)
(***************************************************************************)
others == <<caches, stacks, next_mode, trail, session>>

DoLoadImm == At("LoadImm") /\ WriteTo(Ins.a, Ins.b, Next1) /\ UNCHANGED <<banks, others>>

DoLoadVar ==
  /\ At("LoadVar")
  /\ LET bank == IF next_mode THEN nxt ELSE cur
     IN  Deliver(IF bank[Ins.b] = Unset THEN Err("QNT502") ELSE Ok(bank[Ins.b]))
  /\ UNCHANGED <<banks, others>>

DoLoadParam ==
  /\ At("LoadParam")
  /\ Deliver(IF params[Ins.b] = Unset THEN Err("QNT500") ELSE Ok(params[Ins.b]))
  /\ UNCHANGED <<banks, others>>

DoAssign ==
  /\ At("Assign")
  /\ LET v == NormalizeValue(Reg(Ins.c[1]))
     IN  IF IsErr(v) THEN Fault(v[2]) /\ UNCHANGED nxt
         ELSE /\ nxt' = [nxt EXCEPT ![Ins.b] = v[2]]
              /\ WriteTo(Ins.a, TRUEV, Next1)
  /\ UNCHANGED <<cur, generation, others>>

DoJump ==
  /\ frames # << >> /\ result = NoResult /\ Top.loop = NoLoop
  /\ \/ Ins.op = "Jump" /\ Resume(Ins.t)
     \/ Ins.op = "JumpIfFalse" /\ Resume(IF Reg(Ins.a) = FALSEV THEN Ins.t ELSE Next1)
     \/ Ins.op = "JumpIfTrue" /\ Resume(IF Reg(Ins.a) = TRUEV THEN Ins.t ELSE Next1)
  /\ UNCHANGED <<banks, others>>

Fused == [GuardEq |-> "eq", GuardNeq |-> "neq", GuardLt |-> "ilt", GuardLte |-> "ilte",
          GuardGt |-> "igt", GuardGte |-> "igte"]

DoGuard ==
  /\ \E op \in DOMAIN Fused :
       /\ At(op)
       /\ LET r == eager_op(Fused[op], <<Reg(Ins.a), Reg(Ins.b)>>)
          IN  IF IsErr(r) THEN Fault(r[2])
              ELSE Resume(IF r[2] = TRUEV THEN Next1 ELSE Ins.t)
  /\ UNCHANGED <<banks, others>>

\* Eq, Neq, Not and RecField are builtins with instructions of their own.
DoFusedBuiltin ==
  /\ \/ At("Eq") /\ Deliver(eager_op("eq", <<Reg(Ins.b), Reg(Ins.c[1])>>))
     \/ At("Neq") /\ Deliver(eager_op("neq", <<Reg(Ins.b), Reg(Ins.c[1])>>))
     \/ At("Not") /\ Deliver(eager_op("not", <<Reg(Ins.b)>>))
     \/ At("RecField") /\ Deliver(eager_op("field", <<Reg(Ins.b), Ins.c>>))
  /\ UNCHANGED <<banks, others>>

DoBuiltin ==
  /\ At("Builtin")
  /\ Ins.b \notin HoOps
  /\ Deliver(eager_op(Ins.b, RegsOf(Ins.c)))
  /\ UNCHANGED <<banks, others>>

DoFail == At("Fail") /\ Fault(Ins.a) /\ UNCHANGED <<banks, others>>

DoMatchVariant ==
  /\ At("MatchVariant")
  /\ LET label == Str(Data(Reg(Ins.b))[1])
         found == {i \in DOMAIN Ins.c : Ins.c[i][1] \in {label, Str(-1)}}
     IN  IF found = {} THEN Fault("QNT505")
         ELSE WriteTo(Ins.a, Data(Reg(Ins.b))[2],
                      Ins.c[CHOOSE i \in found : \A j \in found : i <= j][2])
  /\ UNCHANGED <<banks, others>>

-----------------------------------------------------------------------------
(***************************************************************************)
(* Calls.  The caller stays at its instruction until the callee returns,   *)
(* with a value or an error; the slots of its parameters are then put back *)
(* and a cached definition remembers what it may.                          *)
(***************************************************************************)
Plain == [kind |-> "plain", gen |-> 0]

Frame(fn, saved, call) ==
  [fn |-> fn, pc |-> 1, regs |-> << >>, saved |-> saved, call |-> call, loop |-> NoLoop]

Bind(ps, args) ==
  params' = [p \in Params |-> IF p \in Range(ps) THEN args[CHOOSE i \in DOMAIN ps : ps[i] = p]
                              ELSE params[p]]

Enter(fn, args, call) ==
  LET ps == Defs[fn].ps
  IN  /\ frames' = Append(frames, Frame(fn, [p \in Range(ps) |-> params[p]], call))
      /\ Bind(ps, args)
      /\ UNCHANGED result

unaffected == <<banks, lets, vals, pures, stacks, next_mode, trail, session>>

DoCall == At("Call") /\ Enter(Ins.b, RegsOf(Ins.c), Plain) /\ UNCHANGED unaffected

DoCallValue ==
  At("CallValue") /\ Enter(Data(Reg(Ins.b)), RegsOf(Ins.c), Plain) /\ UNCHANGED unaffected

\* A cached definition: its value if there is one, a call of its code if not.
Cached(hit, r, call) ==
  IF hit THEN Deliver(r) /\ UNCHANGED params ELSE Enter(Ins.b, << >>, call)

DoCallCached ==
  /\ At("CallCached")
  /\ Cached(lets[Ins.b] # Unset, lets[Ins.b], [kind |-> "let", gen |-> 0])
  /\ UNCHANGED unaffected

\* Mutant: a val is cached in next mode too.
CachedInNextMode ==
  /\ At("CallCachedVal")
  /\ Cached(vals[Ins.b].gen = generation, Ok(vals[Ins.b].v), [kind |-> "val", gen |-> generation])
  /\ UNCHANGED unaffected

\* A val is cached for the current state; in next mode the cache is bypassed.
DoCallCachedVal ==
  /\ At("CallCachedVal")
  /\ Cached(~next_mode /\ vals[Ins.b].gen = generation, Ok(vals[Ins.b].v),
            IF next_mode THEN Plain ELSE [kind |-> "val", gen |-> generation])
  /\ UNCHANGED unaffected

DoCallCachedPure ==
  /\ At("CallCachedPure")
  /\ Cached(pures[Ins.b] # Unset, Ok(pures[Ins.b]), [kind |-> "pure", gen |-> 0])
  /\ UNCHANGED unaffected

DoRet ==
  /\ At("Ret")
  /\ result' = Ok(Reg(Ins.a))
  /\ UNCHANGED <<frames, banks, others>>

\* What every return does, with an error or a value: only a let caches errors.
Leave ==
  LET f == Top
  IN  /\ params' = [p \in Params |-> IF p \in DOMAIN f.saved THEN f.saved[p] ELSE params[p]]
      /\ lets' = IF f.call.kind = "let" THEN [lets EXCEPT ![f.fn] = result] ELSE lets
      /\ vals' = IF f.call.kind = "val" /\ ~IsErr(result)
                 THEN [vals EXCEPT ![f.fn] = [gen |-> f.call.gen, v |-> result[2]]] ELSE vals
      /\ pures' = IF f.call.kind = "pure" /\ ~IsErr(result)
                  THEN [pures EXCEPT ![f.fn] = result[2]] ELSE pures

Caller == Last(Front(frames))

Returning == frames # << >> /\ result # NoResult

\* An error goes through every frame; the value of the entry ends the run.
ReturnOut ==
  /\ Returning
  /\ IsErr(result) \/ Len(frames) = 1
  /\ Leave
  /\ frames' = Front(frames)
  /\ UNCHANGED <<result, banks, stacks, next_mode, trail, session>>

Return ==
  /\ Returning /\ ~IsErr(result) /\ Len(frames) > 1
  /\ Caller.loop = NoLoop
  /\ Leave
  /\ frames' = Append(Front(Front(frames)),
                      [Caller EXCEPT !.regs = Program[Caller.fn][Caller.pc].a :> result[2] @@ @,
                                     !.pc = @ + 1])
  /\ result' = NoResult
  /\ UNCHANGED <<banks, stacks, next_mode, trail, session>>

-----------------------------------------------------------------------------
(***************************************************************************)
(* Loops of the higher-order builtins and of reps, which commits the next  *)
(* state between two iterations.                                           *)
(***************************************************************************)
\* Mutant: the caches of the old state stay valid.
CommitKeepsCaches ==
  /\ cur' = [x \in Vars |-> IF nxt[x] = Unset THEN cur[x] ELSE nxt[x]]
  /\ nxt' = AllUnset(Vars)
  /\ UNCHANGED generation

commit_shift ==
  /\ cur' = [x \in Vars |-> IF nxt[x] = Unset THEN cur[x] ELSE nxt[x]]
  /\ nxt' = AllUnset(Vars)
  /\ generation' = generation + 1

IsLoop == At("Reps") \/ (At("Builtin") /\ Ins.b \in HoOps)

DoLoop ==
  /\ IsLoop
  /\ LET items == LoopItems(Ins.b, RegsOf(Ins.c))
     IN  IF IsErr(items) THEN Fault(items[2])
         ELSE /\ SetTop([Top EXCEPT !.loop = [rest |-> items[2],
                                              acc |-> LoopInit(Ins.b, RegsOf(Ins.c))]])
              /\ UNCHANGED result
  /\ UNCHANGED <<banks, others>>

InLoop == frames # << >> /\ result = NoResult /\ Top.loop # NoLoop

Iterate ==
  /\ InLoop
  /\ Top.loop.rest # << >>
  /\ Enter(Data(Reg(Last(Ins.c))), LoopArgs(Ins.b, Head(Top.loop.rest), Top.loop.acc), Plain)
  /\ UNCHANGED unaffected

EndLoop ==
  /\ InLoop
  /\ Top.loop.rest = << >>
  /\ SetTop([Top EXCEPT !.regs = Ins.a :> LoopResult(Ins.b, RegsOf(Ins.c), Top.loop.acc) @@ @,
                        !.pc = @ + 1, !.loop = NoLoop])
  /\ UNCHANGED <<result, banks, others>>

ReturnToLoop ==
  /\ Returning /\ ~IsErr(result) /\ Len(frames) > 1
  /\ Caller.loop # NoLoop
  /\ Leave
  /\ LET op == Program[Caller.fn][Caller.pc].b
         rest == Tail(Caller.loop.rest)
         acc == LoopNext(op, Head(Caller.loop.rest), Caller.loop.acc, result[2])
     IN  IF IsErr(acc)
         THEN /\ frames' = Front(frames)
              /\ result' = acc
              /\ UNCHANGED banks
         ELSE /\ frames' = Append(Front(Front(frames)),
                                  [Caller EXCEPT !.loop =
                                     [rest |-> IF LoopStops(op, result[2]) THEN << >> ELSE rest,
                                      acc |-> acc[2]]])
              /\ result' = NoResult
              /\ IF op = "reps" /\ rest # << >> THEN commit_shift ELSE UNCHANGED banks
  /\ UNCHANGED <<stacks, next_mode, trail, session>>

-----------------------------------------------------------------------------
(***************************************************************************)
(* Scopes.                                                                 *)
(***************************************************************************)
PushCell(d, new) ==
  /\ cell_stack' = Append(cell_stack, <<d, lets[d]>>)
  /\ lets' = [lets EXCEPT ![d] = new]

beside == <<params, vals, pures, session>>

DoLetEnter ==
  /\ At("LetEnter")
  /\ PushCell(Ins.a, Unset)
  /\ Resume(Next1)
  /\ UNCHANGED <<banks, beside, param_stack, snapshots, any_stack, next_stack, next_mode, trail>>

DoLetExit ==
  /\ At("LetExit")
  /\ lets' = [lets EXCEPT ![Last(cell_stack)[1]] = Last(cell_stack)[2]]
  /\ cell_stack' = Front(cell_stack)
  /\ Resume(Next1)
  /\ UNCHANGED <<banks, beside, param_stack, snapshots, any_stack, next_stack, next_mode, trail>>

DoParamEnter ==
  /\ At("ParamEnter")
  /\ param_stack' = Append(param_stack, <<Ins.a, params[Ins.a]>>)
  /\ params' = [params EXCEPT ![Ins.a] = Reg(Ins.b)]
  /\ Resume(Next1)
  /\ UNCHANGED <<banks, lets, vals, pures, cell_stack, snapshots, any_stack, next_stack,
                 next_mode, trail, session>>

DoParamExit ==
  /\ At("ParamExit")
  /\ params' = [params EXCEPT ![Last(param_stack)[1]] = Last(param_stack)[2]]
  /\ param_stack' = Front(param_stack)
  /\ Resume(Next1)
  /\ UNCHANGED <<banks, lets, vals, pures, cell_stack, snapshots, any_stack, next_stack,
                 next_mode, trail, session>>

DoNextEnter ==
  /\ At("NextEnter")
  /\ IF job.next_allowed
     THEN /\ next_stack' = Append(next_stack, next_mode)
          /\ next_mode' = TRUE
          /\ Resume(Next1)
     ELSE Fault("QNT501") /\ UNCHANGED <<next_stack, next_mode>>
  /\ UNCHANGED <<banks, caches, cell_stack, param_stack, snapshots, any_stack, trail, session>>

DoNextExit ==
  /\ At("NextExit")
  /\ next_mode' = Last(next_stack)
  /\ next_stack' = Front(next_stack)
  /\ Resume(Next1)
  /\ UNCHANGED <<banks, caches, cell_stack, param_stack, snapshots, any_stack, trail, session>>

DoShift == At("Shift") /\ commit_shift /\ Resume(Next1) /\ UNCHANGED others

-----------------------------------------------------------------------------
(***************************************************************************)
(* Snapshots of the next state, and choices.                               *)
(***************************************************************************)
around == <<caches, cell_stack, param_stack, next_stack, next_mode, session>>

DoSnapNext ==
  /\ At("SnapNext")
  /\ snapshots' = Append(snapshots, nxt)
  /\ Resume(Next1)
  /\ UNCHANGED <<banks, any_stack, trail, around>>

DoRestoreSnapPop ==
  /\ At("RestoreSnapPop")
  /\ nxt' = Last(snapshots)
  /\ snapshots' = Front(snapshots)
  /\ Resume(Next1)
  /\ UNCHANGED <<cur, generation, any_stack, trail, around>>

DoDropSnap ==
  /\ At("DropSnap")
  /\ snapshots' = Front(snapshots)
  /\ Resume(Next1)
  /\ UNCHANGED <<banks, any_stack, trail, around>>

AnyRec(i) == [start |-> i, tried |-> 0, table |-> Ins.c, join |-> Ins.t]

\* The table is never empty: an any without branches is lowered to false.
DoAnyBegin ==
  /\ At("AnyBegin")
  /\ IF ~job.choices THEN Fault("QNT501") /\ UNCHANGED <<snapshots, any_stack, trail>>
     ELSE \E i \in 1 .. Len(Ins.c) :
            /\ trail' = Append(trail, i - 1)
            /\ snapshots' = Append(snapshots, nxt)
            /\ any_stack' = Append(any_stack, AnyRec(i))
            /\ Resume(Ins.c[i])
  /\ UNCHANGED <<banks, around>>

DoAnyEnd ==
  /\ At("AnyEnd")
  /\ LET rec == Last(any_stack)
         n == Len(rec.table)
         tries == IF job.any_fallthrough THEN n ELSE 1
         Close(v) == /\ snapshots' = Front(snapshots)
                     /\ any_stack' = Front(any_stack)
                     /\ WriteTo(Ins.a, v, rec.join)
     IN  IF Reg(Ins.a) = TRUEV THEN Close(TRUEV) /\ UNCHANGED nxt
         ELSE /\ nxt' = Last(snapshots)
              /\ IF rec.tried + 1 < tries
                 THEN /\ any_stack' = Append(Front(any_stack), [rec EXCEPT !.tried = @ + 1])
                      /\ Resume(rec.table[((rec.start - 1 + rec.tried + 1) % n) + 1])
                      /\ UNCHANGED snapshots
                 ELSE Close(FALSEV)
  /\ UNCHANGED <<cur, generation, trail, around>>

\* Indices for the bounds up to the first that is zero, if there is one.
Answers(bs) ==
  LET zeros == {i \in DOMAIN bs : bs[i] = 0}
      k == IF zeros = {} THEN Len(bs) + 1 ELSE CHOOSE i \in zeros : \A j \in zeros : i <= j
  IN  ChoiceIndices(SubSeq(bs, 1, k - 1))

\* A choice from a set: Chosen gets the indices, Empty is what no element does.
Choose(set, Chosen(_), Empty) ==
  IF HasNoEnd(set) \/ (set_bounds(set) # << >> /\ ~job.choices)
  THEN Fault("QNT501") /\ UNCHANGED <<trail, lets, cell_stack>>
  ELSE \E ix \in Answers(set_bounds(set)) :
         /\ trail' = trail \o ix
         /\ IF Len(ix) = Len(set_bounds(set)) THEN Chosen(ix) ELSE Empty

beyond == <<params, vals, pures, param_stack, snapshots, any_stack, next_stack, next_mode, session>>

DoOneOfBind ==
  /\ At("OneOfBind")
  /\ Choose(Reg(Ins.b),
            LAMBDA ix : LET v == NormalizeValue(set_pick(Reg(Ins.b), ix).v)
                        IN  IF IsErr(v) THEN Fault(v[2]) /\ UNCHANGED <<lets, cell_stack>>
                            ELSE PushCell(Ins.a, v) /\ Resume(Next1),
            Resume(Ins.t) /\ UNCHANGED <<lets, cell_stack>>)
  /\ UNCHANGED <<banks, beyond>>

DoOneOfPick ==
  /\ At("OneOfPick")
  /\ Choose(Reg(Ins.b),
            LAMBDA ix : WriteTo(Ins.a, set_pick(Reg(Ins.b), ix).v, Next1) /\ UNCHANGED <<lets, cell_stack>>,
            Fault("QNT509") /\ UNCHANGED <<lets, cell_stack>>)
  /\ UNCHANGED <<banks, beyond>>

-----------------------------------------------------------------------------
(***************************************************************************)
(* Jobs.  [entry, from, to, binds, choices, next_allowed, any_fallthrough] *)
(* from and to are states, or NoState.                                      *)
(***************************************************************************)
Cleared == stacks = [i \in 1 .. 5 |-> << >>]

\* A job is over when its entry has returned, and an error has unwound.
Served == frames = << >> /\ result # NoResult /\ (IsErr(result) => Cleared)

\* A job with choices starts from an empty next state; an edge brings its own.
Start(j) ==
  /\ job = Idle \/ Served
  /\ served < MaxJobs
  /\ served' = served + 1
  /\ job' = j
  /\ cur' = IF j.from = NoState THEN AllUnset(Vars) ELSE j.from
  /\ nxt' = IF j.to # NoState THEN j.to ELSE IF j.choices THEN AllUnset(Vars) ELSE nxt
  /\ generation' = generation + 1
  /\ frames' = <<Frame(j.entry, [p \in DOMAIN j.binds |-> params[p]], Plain)>>
  /\ params' = j.binds @@ params
  /\ result' = NoResult
  /\ next_mode' = FALSE
  /\ trail' = << >>
  /\ UNCHANGED <<lets, vals, pures, stacks>>

(***************************************************************************)
(* An action is run once for each of its choices from one load of a state: *)
(* only the next state is reset, and what a run has cached of the state is *)
(* read by the next.  An error, also of a variable that is not assigned,   *)
(* ends this; the oracle may here answer as it did.                        *)
(***************************************************************************)
Rerun ==
  /\ Served
  /\ served < MaxJobs
  /\ job.choices /\ ~job.any_fallthrough /\ trail # << >>
  /\ result = Ok(FALSEV) \/ (result = Ok(TRUEV) /\ \A v \in Vars : nxt[v] # Unset)
  /\ served' = served + 1
  /\ nxt' = AllUnset(Vars)
  /\ frames' = <<Frame(job.entry, << >>, Plain)>>
  /\ result' = NoResult
  /\ next_mode' = FALSE
  /\ trail' = << >>
  /\ UNCHANGED <<cur, generation, caches, stacks, job>>

\* The oldest saved content of each cell or slot is what it held before the run.
Restored(bank, stack) ==
  [s \in DOMAIN bank |->
     LET saved == {i \in DOMAIN stack : stack[i][1] = s}
     IN  IF saved = {} THEN bank[s] ELSE stack[CHOOSE i \in saved : \A j \in saved : i <= j][2]]

\* Mutant: the parameters bound by match stay bound.
UnwindKeepsParams ==
  /\ frames = << >> /\ result # NoResult /\ IsErr(result)
  /\ ~Cleared
  /\ lets' = Restored(lets, cell_stack)
  /\ next_mode' = IF next_stack = << >> THEN next_mode ELSE Head(next_stack)
  /\ cell_stack' = << >> /\ param_stack' = << >> /\ snapshots' = << >>
  /\ any_stack' = << >> /\ next_stack' = << >>
  /\ UNCHANGED <<frames, result, banks, params, vals, pures, trail, session>>

unwind ==
  /\ frames = << >> /\ result # NoResult /\ IsErr(result)
  /\ ~Cleared
  /\ lets' = Restored(lets, cell_stack)
  /\ params' = Restored(params, param_stack)
  /\ next_mode' = IF next_stack = << >> THEN next_mode ELSE Head(next_stack)
  /\ cell_stack' = << >> /\ param_stack' = << >> /\ snapshots' = << >>
  /\ any_stack' = << >> /\ next_stack' = << >>
  /\ UNCHANGED <<frames, result, banks, vals, pures, trail, session>>

StraightLine ==
  \/ DoLoadImm \/ DoLoadVar \/ DoLoadParam \/ DoAssign \/ DoJump \/ DoGuard
  \/ DoFusedBuiltin \/ DoBuiltin \/ DoFail \/ DoMatchVariant

Calls ==
  \/ DoCall \/ DoCallValue \/ DoCallCached \/ DoCallCachedVal \/ DoCallCachedPure
  \/ DoRet \/ ReturnOut \/ Return
  \/ DoLoop \/ Iterate \/ EndLoop \/ ReturnToLoop

Scopes ==
  \/ DoLetEnter \/ DoLetExit \/ DoParamEnter \/ DoParamExit \/ DoNextEnter \/ DoNextExit \/ DoShift

Choosing ==
  \/ DoSnapNext \/ DoRestoreSnapPop \/ DoDropSnap
  \/ DoAnyBegin \/ DoAnyEnd \/ DoOneOfBind \/ DoOneOfPick

Next ==
  \/ \E j \in Jobs : Start(j)
  \/ Rerun
  \/ StraightLine \/ Calls \/ Scopes \/ Choosing
  \/ unwind

Spec == Init /\ [][Next]_vars

=============================================================================
