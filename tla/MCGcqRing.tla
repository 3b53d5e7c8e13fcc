------------------------------ MODULE MCGcqRing ------------------------------
(* Model values for GcqRing. *)
EXTENDS GcqRingProps

CONSTANTS m1, m2
TwoMsgs == {m1, m2}

\* The other ring's tail: ordinary, or about to wrap.
EdgeTails == {0, AllOnes}
=============================================================================
