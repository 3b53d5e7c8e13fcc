----------------------------- MODULE MCAmiDevice -----------------------------
(* Model values for AmiDevice. *)
EXTENDS AmiDeviceProps, TLC

CONSTANTS u1, u2   \* two user processes

TwoUsers == {u1, u2}
=============================================================================
