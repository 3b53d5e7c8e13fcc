----------------------------- MODULE MCTelemetry -----------------------------
(* Instances of TelemetryProps for TLC. *)
EXTENDS TelemetryProps, TLC

WarningAndFatal == 1 :> 3 @@ 3 :> 5
=============================================================================
