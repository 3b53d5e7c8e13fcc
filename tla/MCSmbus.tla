------------------------------- MODULE MCSmbus -------------------------------
(* Instances of SmbusProps for TLC. *)
EXTENDS SmbusProps
=============================================================================
