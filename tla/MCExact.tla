------------------------------- MODULE MCExact -------------------------------
(***************************************************************************)
(* Instances of ExactBfs for TLC.                                          *)
(***************************************************************************)
EXTENDS ExactBfs, MCPrograms

FewerGraphs == Failing \cup Shortcuts
Programs == AllGraphs \cup FewerGraphs

AllBounds ==
  {Bounds(TRUE, NoBound, NoBound), Bounds(FALSE, NoBound, NoBound), Bounds(FALSE, 0, NoBound),
   Bounds(FALSE, 1, NoBound), Bounds(TRUE, 2, NoBound), Bounds(TRUE, 3, 4),
   Bounds(TRUE, 1, 3), Bounds(FALSE, NoBound, 0)}

=============================================================================
