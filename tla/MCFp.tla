-------------------------------- MODULE MCFp ---------------------------------
(***************************************************************************)
(* Instances of FpBfs for TLC: hash functions without and with collisions. *)
(***************************************************************************)
EXTENDS FpBfs, MCPrograms

(***************************************************************************)
(* At most two states, or all of them, have a fingerprint in common; its   *)
(* value does not matter, so the least state of a class stands for it.     *)
(***************************************************************************)
Hashes ==
  {f \in [States -> States] :
     /\ \A s \in States : f[s] <= s /\ f[f[s]] = f[s]
     /\ Cardinality(Range(f)) \in {1, 4, 5}}

Programs == Failing \cup Shortcuts

AllBounds ==
  {Bounds(TRUE, NoBound, NoBound), Bounds(FALSE, NoBound, NoBound),
   Bounds(FALSE, 2, NoBound), Bounds(TRUE, 1, 3)}

=============================================================================
