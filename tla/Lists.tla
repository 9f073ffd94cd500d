-------------------------------- MODULE Lists --------------------------------
(* Picking from a list, as a recursive function.                           *)
EXTENDS Integers, Sequences

\* The elements of q that are in S, in the order they have in q.
Only(q, S) ==
  LET upTo[n \in 0 .. Len(q)] ==
        IF n = 0 THEN << >>
        ELSE IF q[n] \in S THEN Append(upTo[n - 1], q[n])
        ELSE upTo[n - 1]
  IN  upTo[Len(q)]
==============================================================================
