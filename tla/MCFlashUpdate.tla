---------------------------- MODULE MCFlashUpdate ----------------------------
(* Instances of FlashUpdateProps for TLC. *)
EXTENDS FlashUpdateProps, TLC

Symmetry == Permutations(Parts \ {P0})
=============================================================================
