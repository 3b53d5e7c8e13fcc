------------------------------- MODULE GcqRing -------------------------------
(***************************************************************************)
(* One ring of the generic command queue (GCQ) driver shared by the AMC    *)
(* firmware and the AMI kernel driver.  A GCQ instance owns two rings: the *)
(* SQ, produced by the host and consumed by the AMC, and the CQ, produced  *)
(* by the AMC and consumed by the host.  AmcProduces tells which of the    *)
(* two this ring is.                                                       *)
(*                                                                         *)
(* A ring is a slot array in shared memory, a tail register that only its  *)
(* producer writes, and a consumed counter in the ring header.  Each side  *)
(* keeps its own GCQ_RING_TYPE copy of both counters; the copy of the      *)
(* peer's counter is a cache, refreshed only when the ring looks full (to  *)
(* the producer) or empty (to the consumer).  The counters run freely      *)
(* modulo Wrap (2^32 in the code) and slots are addressed modulo NumSlots. *)
(*                                                                         *)
(* Every access to shared memory is a step of its own.                     *)
(***************************************************************************)
EXTENDS Integers

CONSTANTS
  NumSlots,       \* ulRingSlotNum, a power of two of at least two
  Wrap,           \* number of values of a uint32_t counter
  Words,          \* 32-bit words in a slot
  Msgs,           \* payloads
  NoMsg,          \* nothing delivered yet
  AmcProduces,    \* TRUE for the CQ, FALSE for the SQ
  PeerTails,      \* values the tail register of the other ring takes
  MemoryRetained  \* whether the magic number survives a reset of the card
                  \* (vConfigurePartitionTable leaves it, nothing clears it)

ASSUME RingAssumption ==
  /\ NumSlots \in Nat /\ NumSlots >= 2
  /\ Wrap \in Nat /\ Wrap > NumSlots /\ Wrap % NumSlots = 0
  /\ Words \in Nat /\ Words >= 1
  /\ AmcProduces \in BOOLEAN /\ MemoryRetained \in BOOLEAN
  /\ PeerTails \subseteq 0 .. Wrap - 1 /\ PeerTails # {}
  /\ Msgs # {} /\ NoMsg \notin [1 .. Words -> Msgs]

Ctr == 0 .. Wrap - 1
AllOnes == Wrap - 1                \* ( uint32_t )-1
Whole(m) == [w \in 1 .. Words |-> m]

VARIABLES
  magic,      \* ulHdrMagic = GCQ_ALLOC_MAGIC
  tail,       \* the tail pointer register of this ring
  consumed,   \* ulHdrSQConsumed / ulHdrCQConsumed in the ring header
  slot,       \* the slots; a slot is Words payload words
  peerTail,   \* the tail pointer register of the other ring
  pProduced, pConsumed,  \* the producer's GCQ_RING_TYPE
  cProduced, cConsumed,  \* the consumer's GCQ_RING_TYPE
  pPc, pMsg, pWord,      \* xGCQProduceData
  cPc, cWord, cBuf,      \* xGCQConsumeData
  cPeerOnes,  \* the consumer read all ones from the other tail register
  got,        \* the last message xGCQConsumeData returned
  amcPc,      \* xGCQInit in the AMC: off, header, reset, up
  hostPc      \* open in the host: closed, magic, produced, up

shared == <<magic, tail, consumed, slot, peerTail>>
pvars  == <<pProduced, pConsumed, pPc, pMsg, pWord>>
cvars  == <<cProduced, cConsumed, cPc, cWord, cBuf, cPeerOnes, got>>
vars   == <<shared, pvars, cvars, amcPc, hostPc>>

-----------------------------------------------------------------------------
(* Counters. *)

\* Mutant: the counter is wider than its register.
IncWide(i) == i + 1

Inc(i)    == (i + 1) % Wrap
Sub(a, b) == (a - b) % Wrap
Slot(i)   == i % NumSlots          \* idx & ( ulRingSlotNum - 1 )

\* Mutant: one slot too many.
IsFullLate(produced, cons) == Sub(produced, cons) > NumSlots

IsFull(produced, cons)  == Sub(produced, cons) >= NumSlots
IsEmpty(produced, cons) == produced = cons

ProducerUp == IF AmcProduces THEN amcPc = "up" ELSE hostPc = "up"
ConsumerUp == IF AmcProduces THEN hostPc = "up" ELSE amcPc = "up"

Init ==
  /\ magic = FALSE /\ tail = 0 /\ consumed = 0
  /\ slot \in [0 .. NumSlots - 1 -> {Whole(m) : m \in Msgs}]
  /\ peerTail \in PeerTails
  /\ pProduced = 0 /\ pConsumed = 0 /\ cProduced = 0 /\ cConsumed = 0
  /\ pPc = "idle" /\ pMsg \in Msgs /\ pWord = 1
  /\ cPc = "idle" /\ cWord = 1 /\ cBuf \in {Whole(m) : m \in Msgs}
  /\ cPeerOnes = FALSE /\ got = NoMsg
  /\ amcPc = "off" /\ hostPc = "closed"

-----------------------------------------------------------------------------
(* xGCQProduceData.                                                        *)

\* Mutant: the tail is published before the words are written.
ReserveAndPublish(m) ==
  /\ ProducerUp /\ pPc = "idle"
  /\ pConsumed' = IF IsFull(pProduced, pConsumed) THEN consumed ELSE pConsumed
  /\ ~IsFull(pProduced, pConsumed')
  /\ pProduced' = Inc(pProduced) /\ tail' = Inc(pProduced)
  /\ pMsg' = m /\ pWord' = 1 /\ pPc' = "write"
  /\ UNCHANGED <<magic, consumed, slot, peerTail, cvars, amcPc, hostPc>>

\* prvxGCQProduce with prvucGCQCanProduce: the consumed counter is read
\* again only when the cached one says the ring is full.
Reserve(m) ==
  /\ ProducerUp /\ pPc = "idle"
  /\ pConsumed' = IF IsFull(pProduced, pConsumed) THEN consumed ELSE pConsumed
  /\ ~IsFull(pProduced, pConsumed')
  /\ pProduced' = Inc(pProduced)
  /\ pMsg' = m /\ pWord' = 1 /\ pPc' = "write"
  /\ UNCHANGED <<shared, cvars, amcPc, hostPc>>

\* GCQ_ERRORS_PRODUCER_NO_FREE_SLOTS.
NoFreeSlots ==
  /\ ProducerUp /\ pPc = "idle"
  /\ IsFull(pProduced, pConsumed) /\ IsFull(pProduced, consumed)
  /\ pConsumed' = consumed
  /\ UNCHANGED <<shared, cvars, amcPc, hostPc, pProduced, pPc, pMsg, pWord>>

\* One xGCQWriteMem32 of the copy loop; the slot address was taken before
\* ulRingProduced was incremented.
WriteWord ==
  /\ ProducerUp /\ pPc = "write"
  /\ slot' = [slot EXCEPT ![Slot(Sub(pProduced, 1))][pWord] = pMsg]
  /\ pWord' = pWord + 1
  /\ pPc' = IF pWord = Words THEN "publish" ELSE "write"
  /\ UNCHANGED <<magic, tail, consumed, peerTail, cvars, amcPc, hostPc,
                 pProduced, pConsumed, pMsg>>

\* prvvGCQRingWriteProduced.
Publish ==
  /\ ProducerUp /\ pPc = "publish"
  /\ tail' = pProduced
  /\ pPc' = "idle"
  /\ UNCHANGED <<magic, consumed, slot, peerTail, cvars, amcPc, hostPc,
                 pProduced, pConsumed, pMsg, pWord>>

-----------------------------------------------------------------------------
(* xGCQConsumeData.                                                        *)

\* prvucGCQCanConsume starts by reading the tail register of the other ring.
ReadPeerTail ==
  /\ ConsumerUp /\ cPc = "idle"
  /\ cPeerOnes' = (peerTail = AllOnes)
  /\ cPc' = "tails"
  /\ UNCHANGED <<shared, pvars, amcPc, hostPc,
                 cProduced, cConsumed, cWord, cBuf, got>>

\* prvxGCQConsume after a successful check: take the next slot.
Take ==
  /\ cConsumed' = Inc(cConsumed)
  /\ cWord' = 1 /\ cPc' = "read"

\* The tail register of this ring, the all ones check, and the check of the
\* cached counters.
ReadTail ==
  /\ ConsumerUp /\ cPc = "tails"
  /\ \/ /\ cPeerOnes /\ tail = AllOnes
        /\ cPc' = "idle"
        /\ UNCHANGED <<cConsumed, cWord>>
     \/ /\ ~(cPeerOnes /\ tail = AllOnes)
        /\ ~IsEmpty(cProduced, cConsumed)
        /\ Take
     \/ /\ ~(cPeerOnes /\ tail = AllOnes)
        /\ IsEmpty(cProduced, cConsumed)
        /\ cPc' = "refresh"
        /\ UNCHANGED <<cConsumed, cWord>>
  /\ UNCHANGED <<shared, pvars, amcPc, hostPc, cProduced, cBuf, cPeerOnes, got>>

\* Mutant: the cached tail is trusted.
RefreshNothing ==
  /\ ConsumerUp /\ cPc = "refresh"
  /\ cPc' = "idle"
  /\ UNCHANGED <<shared, pvars, amcPc, hostPc, cProduced, cConsumed, cWord,
                 cBuf, cPeerOnes, got>>

\* Mutant: a ring that looked empty is cleared instead of read.
RefreshAndClear ==
  /\ ConsumerUp /\ cPc = "refresh"
  /\ cProduced' = tail /\ cConsumed' = tail /\ consumed' = tail
  /\ cPc' = "idle"
  /\ UNCHANGED <<magic, tail, slot, peerTail, pvars, amcPc, hostPc, cWord, cBuf,
                 cPeerOnes, got>>

\* prvvGCQRingReadProduced when the cached counters say the ring is empty.
RefreshTail ==
  /\ ConsumerUp /\ cPc = "refresh"
  /\ cProduced' = tail
  /\ \/ ~IsEmpty(tail, cConsumed) /\ Take
     \/ /\ IsEmpty(tail, cConsumed)   \* GCQ_ERRORS_CONSUMER_NO_DATA_RECEIVED
        /\ cPc' = "idle"
        /\ UNCHANGED <<cConsumed, cWord>>
  /\ UNCHANGED <<shared, pvars, amcPc, hostPc, cBuf, cPeerOnes, got>>

\* One xGCQReadMem32 of the copy loop.
ReadWord ==
  /\ ConsumerUp /\ cPc = "read"
  /\ cBuf' = [cBuf EXCEPT ![cWord] = slot[Slot(Sub(cConsumed, 1))][cWord]]
  /\ cWord' = cWord + 1
  /\ cPc' = IF cWord = Words THEN "release" ELSE "read"
  /\ UNCHANGED <<shared, pvars, amcPc, hostPc,
                 cProduced, cConsumed, cPeerOnes, got>>

\* prvvGCQRingWriteConsumed; the data goes back to the caller.
Release ==
  /\ ConsumerUp /\ cPc = "release"
  /\ consumed' = cConsumed
  /\ got' = cBuf
  /\ cPc' = "idle"
  /\ UNCHANGED <<magic, tail, slot, peerTail, pvars, amcPc, hostPc,
                 cProduced, cConsumed, cWord, cBuf, cPeerOnes>>

-----------------------------------------------------------------------------
(* Opening and closing the two ends.  The GCQ_RING_TYPE copy of a side is  *)
(* the producer's or the consumer's, whichever the side is on this ring.   *)

\* The copy of the AMC, or of the host, becomes (produced, cons) and its
\* driver is between two calls.
SetEnd(isProducer, produced, cons) ==
  IF isProducer
  THEN /\ pProduced' = produced /\ pConsumed' = cons /\ pPc' = "idle"
       /\ UNCHANGED <<pMsg, pWord, cvars>>
  ELSE /\ cProduced' = produced /\ cConsumed' = cons /\ cPc' = "idle"
       /\ UNCHANGED <<cWord, cBuf, cPeerOnes, got, pvars>>

AmcEnd(produced, cons)  == SetEnd(AmcProduces, produced, cons)
HostEnd(produced, cons) == SetEnd(~AmcProduces, produced, cons)

\* Mutant: the header carries its magic number from the start.
AmcWriteHeaderWithMagic ==
  /\ amcPc = "off"
  /\ magic' = TRUE /\ consumed' = 0
  /\ AmcEnd(0, 0)
  /\ amcPc' = "header"
  /\ UNCHANGED <<tail, slot, peerTail, hostPc>>

\* xGCQInit in the AMC, producer mode: clear the local rings and write the
\* header with no magic number and zero consumed counters.
AmcWriteHeader ==
  /\ amcPc = "off"
  /\ magic' = FALSE /\ consumed' = 0
  /\ AmcEnd(0, 0)
  /\ amcPc' = "header"
  /\ UNCHANGED <<tail, slot, peerTail, hostPc>>

\* Mutant: the consumed counter of the header is left behind.
AmcSoftResetLocal ==
  /\ amcPc = "header"
  /\ AmcEnd(tail, tail)
  /\ amcPc' = "reset"
  /\ UNCHANGED <<magic, tail, consumed, slot, peerTail, hostPc>>

\* prvvGCQSoftReset: whatever the ring holds is dropped.
AmcSoftReset ==
  /\ amcPc = "header"
  /\ AmcEnd(tail, tail)
  /\ consumed' = tail
  /\ amcPc' = "reset"
  /\ UNCHANGED <<magic, tail, slot, peerTail, hostPc>>

\* The magic number confirms the header.
AmcWriteMagic ==
  /\ amcPc = "reset"
  /\ magic' = TRUE
  /\ amcPc' = "up"
  /\ UNCHANGED <<tail, consumed, slot, peerTail, pvars, cvars, hostPc>>

\* Environment: the device is reset.  The host has removed the PCI device,
\* and closed the queue, before it resets the card.
AmcRestart ==
  /\ hostPc = "closed" /\ amcPc # "off"
  /\ amcPc' = "off"
  /\ magic' = (magic /\ MemoryRetained)
  /\ UNCHANGED <<tail, consumed, slot, peerTail, pvars, cvars, hostPc>>

\* xGCQInit, consumer mode, and the magic number check of xGCQAttachConsumer.
HostAttach ==
  /\ hostPc = "closed" /\ magic
  /\ HostEnd(0, 0)
  /\ hostPc' = "magic"
  /\ UNCHANGED <<shared, amcPc>>

\* prvvGCQFastForward: the produced counter, then the consumed one.
HostReadProduced ==
  /\ hostPc = "magic"
  /\ HostEnd(tail, 0)
  /\ hostPc' = "produced"
  /\ UNCHANGED <<shared, amcPc>>

\* Mutant: the host takes everything produced as consumed.
HostSkipsPending ==
  /\ hostPc = "produced"
  /\ LET produced == IF AmcProduces THEN cProduced ELSE pProduced
     IN  HostEnd(produced, produced)
  /\ hostPc' = "up"
  /\ UNCHANGED <<shared, amcPc>>

HostReadConsumed ==
  /\ hostPc = "produced"
  /\ HostEnd(IF AmcProduces THEN cProduced ELSE pProduced, consumed)
  /\ hostPc' = "up"
  /\ UNCHANGED <<shared, amcPc>>

\* Close, or a host that goes away in the middle of a call.
HostClose ==
  /\ hostPc # "closed"
  /\ hostPc' = "closed"
  /\ UNCHANGED <<shared, pvars, cvars, amcPc>>

\* Environment: the other ring moves.
PeerMoves ==
  /\ peerTail' \in PeerTails
  /\ UNCHANGED <<magic, tail, consumed, slot, pvars, cvars, amcPc, hostPc>>

Produce == (\E m \in Msgs : Reserve(m)) \/ NoFreeSlots \/ WriteWord \/ Publish
Consume == ReadPeerTail \/ ReadTail \/ RefreshTail \/ ReadWord \/ Release
AmcLife == AmcWriteHeader \/ AmcSoftReset \/ AmcWriteMagic \/ AmcRestart
HostLife == HostAttach \/ HostReadProduced \/ HostReadConsumed \/ HostClose

Next == Produce \/ Consume \/ AmcLife \/ HostLife \/ PeerMoves

Spec == Init /\ [][Next]_vars

\* The consumer polls for ever (vProxyDriverTask, complete_response_thread).
FairSpec == Spec /\ WF_vars(Consume)
=============================================================================
