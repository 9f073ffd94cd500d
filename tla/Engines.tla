------------------------------- MODULE Engines --------------------------------
(***************************************************************************)
(* The virtual machine beside the reference evaluator: what a job leaves,  *)
(* on a machine that served other jobs before, is what the closures        *)
(* compute for it from scratch.                                            *)
(***************************************************************************)
EXTENDS Machine, Closures

-----------------------------------------------------------------------------
(***************************************************************************)
(* A job on the machine ends as the same choices end it in the reference   *)
(* evaluator: with the same value or error, and, if an action is enabled,  *)
(* with the same assignments.  Where the machine asked for fewer choices,  *)
(* because a false guard was hoisted over them, whatever is chosen ends    *)
(* the reference in the same way.  (vm/mod.rs and vm/lower.rs; the         *)
(* comparison is the one of the tests of both engines.)                    *)
(***************************************************************************)
SameSuccessors ==
  Served => RefOutcomes(job, trail) = {Outcome(job, result, cur, nxt)}

(***************************************************************************)
(* A machine that has served a job, also one that stopped with an error in *)
(* the middle of scopes and choices, is ready for the next: every scope is *)
(* left, no parameter or let stays bound and reads are of the current      *)
(* state.  (Vm::run and Vm::unwind, vm/mod.rs:362-401.)                    *)
(***************************************************************************)
Unwound ==
  Served => /\ Cleared
            /\ params = AllUnset(Params)
            /\ lets = AllUnset(LetNames)
            /\ ~next_mode

\* The registers that an instruction reads.
Reads(ins) ==
  CASE ins.op \in {"JumpIfFalse", "JumpIfTrue", "Ret", "AnyEnd"} -> {ins.a}
    [] ins.op \in DOMAIN Fused -> {ins.a, ins.b}
    [] ins.op \in {"Eq", "Neq", "CallValue"} -> {ins.b} \cup Range(ins.c)
    [] ins.op \in {"Not", "RecField", "OneOfBind", "OneOfPick", "MatchVariant", "ParamEnter"} ->
         {ins.b}
    [] ins.op \in {"Assign", "Call", "Builtin", "Reps"} -> Range(ins.c)
    [] OTHER -> {}

(***************************************************************************)
(* No instruction reads a register that its function has not written: the  *)
(* machine never clears a register window, which would show a stale value  *)
(* of an earlier call.  (vm/mod.rs:194-199, 403-420.)                      *)
(***************************************************************************)
RegistersAreWritten ==
  (frames # << >> /\ result = NoResult) => Reads(Ins) \subseteq DOMAIN Top.regs

=============================================================================
