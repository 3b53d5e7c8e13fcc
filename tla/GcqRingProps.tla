----------------------------- MODULE GcqRingProps -----------------------------
(***************************************************************************)
(* What a GCQ ring must guarantee, and the FIFO it implements.             *)
(***************************************************************************)
EXTENDS GcqRing, Sequences

SharedTypeOK ==
  /\ magic \in BOOLEAN
  /\ tail \in Ctr /\ consumed \in Ctr /\ peerTail \in PeerTails
  /\ slot \in [0 .. NumSlots - 1 -> [1 .. Words -> Msgs]]

ProducerTypeOK ==
  /\ pProduced \in Ctr /\ pConsumed \in Ctr
  /\ pPc \in {"idle", "write", "publish"} /\ pMsg \in Msgs
  /\ pWord \in 1 .. Words + 1 /\ (pPc = "write" => pWord # Words + 1)

ConsumerTypeOK ==
  /\ cProduced \in Ctr /\ cConsumed \in Ctr /\ cPeerOnes \in BOOLEAN
  /\ cPc \in {"idle", "tails", "refresh", "read", "release"}
  /\ cWord \in 1 .. Words + 1 /\ (cPc = "read" => cWord # Words + 1)
  /\ cBuf \in [1 .. Words -> Msgs]
  /\ got \in [1 .. Words -> Msgs] \cup {NoMsg}

LifeTypeOK ==
  /\ amcPc \in {"off", "header", "reset", "up"}
  /\ hostPc \in {"closed", "magic", "produced", "up"}

TypeOK == SharedTypeOK /\ ProducerTypeOK /\ ConsumerTypeOK /\ LifeTypeOK

\* The producer never writes the slot the consumer is reading: the copy loops
\* of xGCQProduceData and xGCQConsumeData take no lock.
NoSlotRace ==
  (ProducerUp /\ ConsumerUp /\ pPc = "write" /\ cPc = "read")
    => Slot(Sub(pProduced, 1)) # Slot(Sub(cConsumed, 1))

\* The shared counters never drift further apart than the ring has slots,
\* across the wrap of the 32-bit counters and across restarts of either side.
WindowBounded == magic => Sub(tail, consumed) <= NumSlots

\* The messages between a consumed counter c and a tail t, and those that are
\* published and not yet consumed.
Between(t, c, s) == [k \in 1 .. Sub(t, c) |-> s[Slot((c + k - 1) % Wrap)]]
Unread == Between(tail, consumed, slot)

\* What the caller of xGCQConsumeData gets is one whole message, never words of
\* two: the tail is published after the words and consumed after they are read.
NoTornMessage ==
  /\ got # NoMsg => \E m \in Msgs : got = Whole(m)
  /\ magic => \A k \in DOMAIN Unread : \E m \in Msgs : Unread[k] = Whole(m)

Fifo == INSTANCE GcqFifo WITH
  up <- amcPc = "up",
  queue <- IF amcPc = "up" THEN Unread ELSE <<>>,
  Messages <- {Whole(m) : m \in Msgs}

\* The ring is a FIFO: every published message is delivered whole, once and in
\* order, and none is lost before the AMC is reset.  A close or an attachment of
\* the host, or a poll that takes the link for dead, removes nothing, and an AMC
\* that comes up starts with an empty ring whatever its former life left there.
ImplementsFifo == Fifo!Spec

\* A consumer that stays and keeps finding messages keeps consuming them, however
\* old its copy of the tail, unless the other ring's tail register reads as all
\* ones, which with its own is the sign of a dead PCIe link.
PublishedIsConsumed ==
  <>[](ConsumerUp /\ tail # consumed /\ ~cPeerOnes) => []<><<Release>>_vars

\* "Magic number must show up to confirm the header is fully initialized": an
\* attached host never finds the AMC rewriting the header.
MagicConfirmsHeader == hostPc # "closed" => amcPc \notin {"header", "reset"}

-----------------------------------------------------------------------------
(* The inductive invariant behind the properties above, in parts.          *)

\* The counters of a side count once its driver has started on them.
ProducerReady == IF AmcProduces THEN amcPc \in {"reset", "up"} ELSE hostPc = "up"
ConsumerReady == IF AmcProduces THEN hostPc = "up" ELSE amcPc \in {"reset", "up"}
RingReady     == amcPc \in {"reset", "up"}

\* The magic number is there while the AMC is up, which is as long as a host
\* is attached; the AMC starts with an empty ring.
PhaseInv ==
  /\ magic <=> amcPc = "up"
  /\ hostPc # "closed" => amcPc = "up"
  /\ amcPc = "reset" => tail = consumed

WindowInv == RingReady => Sub(tail, consumed) <= NumSlots

\* The producer is at most one slot ahead of the tail, and its copy of the
\* consumed counter lags behind the counter by no more than the window.
ProducerInv ==
  ProducerReady =>
    /\ pProduced = IF pPc = "idle" THEN tail ELSE Inc(tail)
    /\ Sub(pProduced, pConsumed) <= NumSlots
    /\ Sub(pProduced, consumed) <= Sub(pProduced, pConsumed)

\* The consumer is at most one slot ahead of the consumed counter, its copy of
\* the tail lies between the two, and it reads only slots it knows of.
ConsumerInv ==
  ConsumerReady =>
    /\ cConsumed = IF cPc \in {"read", "release"} THEN Inc(consumed) ELSE consumed
    /\ Sub(cProduced, consumed) <= Sub(tail, consumed)
    /\ cPc \in {"read", "release"} => cProduced # consumed

\* A host that attaches has read the tail and not yet the consumed counter.
AttachInv ==
  hostPc = "produced" =>
    IF AmcProduces THEN Sub(cProduced, consumed) <= Sub(tail, consumed)
                   ELSE pProduced = tail

CounterInv ==
  PhaseInv /\ WindowInv /\ ProducerInv /\ ConsumerInv /\ AttachInv

\* Every slot between the consumed counter and the tail holds a whole message.
SlotsInv ==
  RingReady =>
    \A i \in Ctr : Sub(i, consumed) < Sub(tail, consumed)
                     => \E m \in Msgs : slot[Slot(i)] = Whole(m)

\* The slot at the tail holds what the producer has written of its message.
FillInv ==
  ProducerReady =>
    /\ pPc = "write" => \A w \in 1 .. Words : w < pWord => slot[Slot(tail)][w] = pMsg
    /\ pPc = "publish" => slot[Slot(tail)] = Whole(pMsg)

\* The buffer of the consumer agrees with the slot it reads.
CopyInv ==
  ConsumerReady =>
    /\ cPc = "read" => \A w \in 1 .. Words : w < cWord => cBuf[w] = slot[Slot(consumed)][w]
    /\ cPc = "release" => cBuf = slot[Slot(consumed)]

DeliveredInv == got # NoMsg => \E m \in Msgs : got = Whole(m)

RingInv == CounterInv /\ SlotsInv /\ FillInv /\ CopyInv /\ DeliveredInv
=============================================================================
