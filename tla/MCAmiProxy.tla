----------------------------- MODULE MCAmiProxy -----------------------------
(* Model values for AmiProxy. *)
EXTENDS AmiProxyProps, TLC

CONSTANTS q1, i1, a1, a2   \* a heartbeat, an identity request, two downloads

FourRequests == {q1, i1, a1, a2}
Kinds == [r \in Requests |-> IF r = q1 THEN "quick"
                             ELSE IF r = i1 THEN "identity" ELSE "apc"]
=============================================================================
