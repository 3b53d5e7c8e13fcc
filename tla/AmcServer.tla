------------------------------ MODULE AmcServer ------------------------------
(***************************************************************************)
(* What the AMC promises to the AMI driver: a request is taken once and    *)
(* answered at most once, with its own result.  It may be answered after   *)
(* later requests, or never.  This is the AMC that module AmiCommand has   *)
(* as its environment.                                                     *)
(***************************************************************************)
CONSTANT Requests   \* the requests of the host; no two are the same

VARIABLES
  unsent,  \* not sent yet
  sq,      \* sent and not taken
  busy,    \* taken and not answered
  cq       \* answers: the id of the request, and the request it is a result of

vars == <<unsent, sq, busy, cq>>

Answer(r) == [cid |-> r, of |-> r]

Init == unsent = Requests /\ sq = {} /\ busy = {} /\ cq = {}

Send(r) ==
  /\ r \in unsent
  /\ unsent' = unsent \ {r} /\ sq' = sq \cup {r}
  /\ UNCHANGED <<busy, cq>>

Take(r) ==
  /\ r \in sq
  /\ sq' = sq \ {r} /\ busy' = busy \cup {r}
  /\ UNCHANGED <<unsent, cq>>

Respond(r) ==
  /\ r \in busy
  /\ busy' = busy \ {r} /\ cq' = cq \cup {Answer(r)}
  /\ UNCHANGED <<unsent, sq>>

Deliver(a) ==
  /\ a \in cq
  /\ cq' = cq \ {a}
  /\ UNCHANGED <<unsent, sq, busy>>

Next ==
  \/ \E r \in Requests : Send(r) \/ Take(r) \/ Respond(r)
  \/ \E a \in cq : Deliver(a)

Spec == Init /\ [][Next]_vars
=============================================================================
