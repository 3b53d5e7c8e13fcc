---------------------------- MODULE MCSensorRead -----------------------------
(* Instances of SensorReadProps for TLC. *)
EXTENDS SensorReadProps, TLC

CONSTANTS h1, i1, i2

\* A sensor with a lower, an upper critical and an upper warning limit, and one
\* without a critical one.
TwoSensors == 1 :> ("lw" :> 1 @@ "uc" :> 5 @@ "uw" :> 3) @@ 2 :> ("uf" :> 6 @@ "uw" :> 4)

\* Files of each sensor; the ioctl for one, and for a channel without a record.
AskedOfTwo ==
  h1 :> {<<2, "value">>, <<1, "status">>}
  @@ i1 :> {<<1, "value">>} @@ i2 :> {<<3, "value">>}

\* One caller of the ioctl.
AskedOfPair == h1 :> {<<2, "value">>} @@ i1 :> {<<1, "value">>}
=============================================================================
