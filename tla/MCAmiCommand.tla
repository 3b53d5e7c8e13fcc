---------------------------- MODULE MCAmiCommand ----------------------------
(* Model values for AmiCommand. *)
EXTENDS AmiCommandProps, TLC

CONSTANTS hb, u1, u2   \* the heartbeat thread and two user threads

ThreeThreads == {hb, u1, u2}
Users        == {u1, u2}
OneUser      == {u1}
OnlyHb       == {hb}
Nobody       == {}

LogKind  == [t \in Threads |-> IF t = hb THEN "plain" ELSE "log"]
DataKind == [t \in Threads |-> IF t = hb THEN "plain" ELSE "data"]

HbTwice   == [t \in Threads |-> IF t = hb THEN 2 ELSE 1]
Twice     == [t \in Threads |-> 2]
UserTwice == [t \in Threads |-> IF t = u1 THEN 2 ELSE 1]
=============================================================================
