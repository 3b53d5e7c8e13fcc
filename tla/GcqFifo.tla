------------------------------- MODULE GcqFifo -------------------------------
(***************************************************************************)
(* What a GCQ ring promises to the code that uses it: while the AMC is up, *)
(* a FIFO of at most NumSlots messages, which leave the queue whole, once  *)
(* and in the order they were sent, and in no other way.  Only an AMC that *)
(* goes down takes the messages with it, and it comes up with none.        *)
(***************************************************************************)
EXTENDS Sequences, Integers

CONSTANTS
  NumSlots,  \* capacity
  Messages,  \* the whole messages
  NoMsg      \* nothing delivered yet

VARIABLES
  up,     \* the AMC has started its driver
  queue,  \* published and not yet consumed
  got     \* the last message delivered

vars == <<up, queue, got>>

Init == up = FALSE /\ queue = <<>> /\ got = NoMsg

Send(m) ==
  /\ up /\ Len(queue) < NumSlots
  /\ queue' = Append(queue, m)
  /\ UNCHANGED <<up, got>>

Receive ==
  /\ up /\ queue # <<>>
  /\ got' = Head(queue)
  /\ queue' = Tail(queue)
  /\ UNCHANGED up

\* The device is reset.
GoDown ==
  /\ up /\ up' = FALSE
  /\ queue' = <<>>
  /\ UNCHANGED got

\* xGCQInit in the AMC, with prvvGCQSoftReset: "ignore any existing commands".
ComeUp ==
  /\ ~up /\ up' = TRUE
  /\ UNCHANGED <<queue, got>>

Next == (\E m \in Messages : Send(m)) \/ Receive \/ GoDown \/ ComeUp

Spec == Init /\ [][Next]_vars
=============================================================================
