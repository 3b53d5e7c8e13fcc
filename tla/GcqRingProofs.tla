---------------------------- MODULE GcqRingProofs ----------------------------
(***************************************************************************)
(* Proofs about a GCQ ring, for every size of ring, slot and counter:      *)
(* TypeCorrect, RingSafe (the invariants the runs check) and RingIsFifo    *)
(* (the ring implements GcqFifo).                                          *)
(*                                                                         *)
(* The counters wrap, so the proofs never compare two counters: they work  *)
(* with the distance Sub(a, b) from b up to a, and Distance, Successor and *)
(* Window reduce what they need of it to linear arithmetic.  The inductive *)
(* invariant is RingInv.  Its first half, CounterInv, keeps every counter  *)
(* and every cached copy in the window between consumed and tail; the      *)
(* second says what the slots of that window hold.                         *)
(***************************************************************************)
EXTENDS GcqRingProps, SequenceTheorems, TLAPS

-----------------------------------------------------------------------------
(* Counters that wrap.                                                     *)

\* Division with remainder.
LEMMA Division ==
  \A n \in Nat \ {0}, x \in Int :
    /\ x \div n \in Int /\ x % n \in 0 .. n - 1
    /\ x = n * (x \div n) + (x % n)
OBVIOUS

\* No multiple of n lies strictly between 0 and n.
LEMMA NoMultipleBetween ==
  \A n \in Nat, k \in Int : ~(0 < n * k /\ n * k < n)
OBVIOUS

\* The ring is at most half as large as the range of its counters.
LEMMA Sizes ==
  /\ NumSlots \in Nat \ {0} /\ NumSlots >= 2 /\ Wrap \in Nat \ {0}
  /\ Wrap >= 2 * NumSlots /\ Wrap = NumSlots * (Wrap \div NumSlots)
  /\ Wrap \div NumSlots \in Int
  /\ Ctr = 0 .. Wrap - 1
<1> DEFINE q == Wrap \div NumSlots
<1>1. Wrap = NumSlots * q /\ q \in Int
  BY RingAssumption
<1> HIDE DEF q
<1>2. q >= 2
  BY <1>1, RingAssumption
<1>3. Wrap >= 2 * NumSlots
  BY RingAssumption
<1> QED BY RingAssumption DEF Ctr

\* The distance from b up to a, modulo Wrap.
LEMMA Distance ==
  \A a, b \in Ctr : /\ Sub(a, b) \in Ctr
                    /\ Sub(a, b) = IF a >= b THEN a - b ELSE a - b + Wrap
<1> TAKE a, b \in Ctr
<1>1. CASE a >= b
  BY Sizes DEF Sub
<1>2. CASE a < b
  BY Sizes DEF Sub
<1> QED BY <1>1, <1>2, Sizes

\* prvxGCQProduce and prvxGCQConsume increment a counter.
LEMMA Successor ==
  \A a \in Ctr : /\ Inc(a) \in Ctr
                 /\ Inc(a) = IF a = Wrap - 1 THEN 0 ELSE a + 1
<1> TAKE a \in Ctr
<1>1. CASE a = Wrap - 1
  BY Sizes DEF Inc
<1>2. CASE a < Wrap - 1
  BY Sizes DEF Inc
<1> QED BY <1>1, <1>2, Sizes

\* The counter k steps ahead of a is at distance k from it.
LEMMA Ahead ==
  ASSUME NEW a \in Ctr, NEW k \in Ctr
  PROVE  (a + k) % Wrap \in Ctr /\ Sub((a + k) % Wrap, a) = k
<1> DEFINE i == (a + k) % Wrap
<1>1. CASE a + k < Wrap
  <2>1. i = a + k BY <1>1, Sizes
  <2> HIDE DEF i
  <2>2. i \in Ctr BY <2>1, <1>1, Sizes
  <2>3. i \in Ctr /\ Sub(i, a) = k
    BY <2>1, <2>2, Sizes, Distance
  <2> QED BY <2>3 DEF i
<1>2. CASE a + k >= Wrap
  <2>1. i = a + k - Wrap BY <1>2, Sizes
  <2> HIDE DEF i
  <2>2. i \in Ctr BY <2>1, <1>2, Sizes
  <2>3. i \in Ctr /\ Sub(i, a) = k
    BY <2>1, <2>2, Sizes, Distance
  <2> QED BY <2>3 DEF i
<1>3. a + k < Wrap \/ a + k >= Wrap
  BY Sizes
<1>4. i \in Ctr /\ Sub(i, a) = k
  BY <1>1, <1>2, <1>3
<1> QED BY <1>4

\* A counter addresses a slot.
LEMMA SlotIsSlot == \A a \in Ctr : Slot(a) \in 0 .. NumSlots - 1
BY Sizes DEF Slot

\* Counters less than NumSlots apart address different slots; here the slots have
\* to divide the range of the counters.
LEMMA SlotsDiffer ==
  ASSUME NEW a \in Ctr, NEW b \in Ctr, 0 < Sub(a, b), Sub(a, b) < NumSlots
  PROVE  Slot(a) # Slot(b)
<1> SUFFICES ASSUME Slot(a) = Slot(b) PROVE FALSE
  OBVIOUS
<1> DEFINE q == Wrap \div NumSlots
           qa == a \div NumSlots
           qb == b \div NumSlots
<1>1. Wrap = NumSlots * q /\ q \in Int
  BY Sizes
<1>2. /\ a = NumSlots * qa + Slot(a) /\ qa \in Int
      /\ b = NumSlots * qb + Slot(b) /\ qb \in Int
  <2>1. a \in Int /\ b \in Int /\ NumSlots \in Nat \ {0}
    BY Sizes
  <2>2. a = NumSlots * (a \div NumSlots) + (a % NumSlots) /\ a \div NumSlots \in Int
    BY <2>1
  <2>3. b = NumSlots * (b \div NumSlots) + (b % NumSlots) /\ b \div NumSlots \in Int
    BY <2>1
  <2> QED BY <2>2, <2>3 DEF Slot
<1> HIDE DEF q, qa, qb
<1>5. a - b = NumSlots * (qa - qb)
  BY <1>2, Sizes, SlotIsSlot, SMTT(30)
<1>6. a - b + Wrap = NumSlots * (qa - qb + q)
  BY <1>1, <1>2, <1>5, Sizes, SMTT(30)
<1>7. Sub(a, b) = a - b \/ Sub(a, b) = a - b + Wrap
  BY Distance
<1>8. qa - qb \in Int /\ qa - qb + q \in Int
  BY <1>1, <1>2
<1> QED BY <1>5, <1>6, <1>7, <1>8, Sizes

\* Facts about the constants.
LEMMA Basics ==
  /\ 0 \in Ctr /\ NumSlots \in Nat /\ Words \in Nat /\ 1 \in 1 .. Words /\ 1 \in 1 .. Words + 1
  /\ AmcProduces \in BOOLEAN /\ MemoryRetained \in BOOLEAN
BY RingAssumption DEF Ctr

-----------------------------------------------------------------------------
(* Types.                                                                  *)

\* Setting the counters of an end keeps its type.
LEMMA EndTyped ==
  ASSUME TypeOK, NEW isProducer \in BOOLEAN, NEW produced \in Ctr, NEW cons \in Ctr,
         SetEnd(isProducer, produced, cons)
  PROVE  ProducerTypeOK' /\ ConsumerTypeOK'
BY DEF SetEnd, TypeOK, ProducerTypeOK, ConsumerTypeOK, pvars, cvars

\* The copy loops stay within the words of a slot.
LEMMA NextWord ==
  ASSUME NEW w \in 1 .. Words
  PROVE  w + 1 \in 1 .. Words + 1 /\ (w # Words => w + 1 # Words + 1)
BY Basics

\* The counter before a.
LEMMA Before == \A a \in Ctr : Sub(Inc(a), 1) = a /\ Sub(a, 1) \in Ctr
<1> TAKE a \in Ctr
<1>1. 1 \in Ctr
  BY Sizes
<1>2. Inc(a) \in Ctr /\ Inc(a) = IF a = Wrap - 1 THEN 0 ELSE a + 1
  BY Successor
<1>3. Sub(Inc(a), 1) = IF Inc(a) >= 1 THEN Inc(a) - 1 ELSE Inc(a) - 1 + Wrap
  BY <1>1, <1>2, Distance
<1>4. Sub(Inc(a), 1) = a
  BY <1>2, <1>3, Sizes
<1> QED BY <1>1, <1>4, Distance

\* The slot that a copy loop is at is a slot.
LEMMA SlotBefore == \A a \in Ctr : Slot(Sub(a, 1)) \in 0 .. NumSlots - 1
BY Before, SlotIsSlot

\* Every step keeps the types.
LEMMA TypeStep ==
  ASSUME TypeOK, [Next]_vars
  PROVE  TypeOK'
<1>1. ASSUME NEW m \in Msgs, Reserve(m) PROVE TypeOK'
  BY <1>1, Successor, Basics
  DEF Reserve, shared, cvars, TypeOK, SharedTypeOK, ProducerTypeOK, ConsumerTypeOK,
     LifeTypeOK
<1>2. ASSUME NoFreeSlots PROVE TypeOK'
  BY <1>2
  DEF NoFreeSlots, shared, cvars, TypeOK, SharedTypeOK, ProducerTypeOK,
     ConsumerTypeOK, LifeTypeOK
<1>3. ASSUME WriteWord PROVE TypeOK'
  <2>1. pWord \in 1 .. Words
    BY <1>3, Basics DEF WriteWord, TypeOK, ProducerTypeOK
  <2>2. ProducerTypeOK'
    BY <1>3, <2>1, NextWord DEF WriteWord, TypeOK, ProducerTypeOK
  <2>3. SharedTypeOK'
    BY <1>3 DEF WriteWord, TypeOK, SharedTypeOK, ProducerTypeOK
  <2> QED BY <1>3, <2>2, <2>3 DEF WriteWord, cvars, TypeOK, ConsumerTypeOK,
             LifeTypeOK
<1>4. ASSUME Publish PROVE TypeOK'
  BY <1>4 DEF Publish, cvars, TypeOK, SharedTypeOK, ProducerTypeOK, ConsumerTypeOK,
     LifeTypeOK
<1>5. ASSUME ReadPeerTail PROVE TypeOK'
  BY <1>5
  DEF ReadPeerTail, shared, pvars, TypeOK, SharedTypeOK, ProducerTypeOK,
     ConsumerTypeOK, LifeTypeOK
<1>6. ASSUME ReadTail PROVE TypeOK'
  BY <1>6, Successor, Basics
  DEF ReadTail, Take, shared, pvars, TypeOK, SharedTypeOK, ProducerTypeOK,
     ConsumerTypeOK, LifeTypeOK
<1>7. ASSUME RefreshTail PROVE TypeOK'
  BY <1>7, Successor, Basics
  DEF RefreshTail, Take, shared, pvars, TypeOK, SharedTypeOK, ProducerTypeOK,
     ConsumerTypeOK, LifeTypeOK
<1>8. ASSUME ReadWord PROVE TypeOK'
  <2>1. cWord \in 1 .. Words
    BY <1>8, Basics DEF ReadWord, TypeOK, ConsumerTypeOK
  <2>2. Slot(Sub(cConsumed, 1)) \in 0 .. NumSlots - 1 
    BY SlotBefore DEF TypeOK, ConsumerTypeOK
  <2>3. ConsumerTypeOK'
    BY <1>8, <2>1, <2>2, NextWord DEF ReadWord, TypeOK, SharedTypeOK, ConsumerTypeOK
  <2> QED BY <1>8, <2>3
            DEF ReadWord, shared, pvars, TypeOK, SharedTypeOK, ProducerTypeOK,
             LifeTypeOK
<1>9. ASSUME Release PROVE TypeOK'
  BY <1>9 DEF Release, pvars, TypeOK, SharedTypeOK, ProducerTypeOK, ConsumerTypeOK,
     LifeTypeOK
<1>10. ASSUME AmcWriteHeader PROVE TypeOK'
  <2>1. ProducerTypeOK' /\ ConsumerTypeOK'
    BY <1>10, EndTyped, Basics DEF AmcWriteHeader, AmcEnd
  <2> QED BY <1>10, <2>1, Basics DEF AmcWriteHeader, TypeOK, SharedTypeOK,
             LifeTypeOK
<1>11. ASSUME AmcSoftReset PROVE TypeOK'
  <2>1. ProducerTypeOK' /\ ConsumerTypeOK'
    BY <1>11, EndTyped, Basics DEF AmcSoftReset, AmcEnd, TypeOK, SharedTypeOK
  <2> QED BY <1>11, <2>1 DEF AmcSoftReset, TypeOK, SharedTypeOK, LifeTypeOK
<1>12. ASSUME AmcWriteMagic PROVE TypeOK'
  BY <1>12
  DEF AmcWriteMagic, pvars, cvars, TypeOK, SharedTypeOK, ProducerTypeOK,
     ConsumerTypeOK, LifeTypeOK
<1>13. ASSUME AmcRestart PROVE TypeOK'
  BY <1>13
  DEF AmcRestart, pvars, cvars, TypeOK, SharedTypeOK, ProducerTypeOK,
     ConsumerTypeOK, LifeTypeOK
<1>14. ASSUME HostAttach PROVE TypeOK'
  <2>1. ProducerTypeOK' /\ ConsumerTypeOK'
    BY <1>14, EndTyped, Basics DEF HostAttach, HostEnd
  <2> QED BY <1>14, <2>1 DEF HostAttach, shared, TypeOK, SharedTypeOK, LifeTypeOK
<1>15. ASSUME HostReadProduced PROVE TypeOK'
  <2>1. ProducerTypeOK' /\ ConsumerTypeOK'
    BY <1>15, EndTyped, Basics DEF HostReadProduced, HostEnd, TypeOK, SharedTypeOK
  <2> QED BY <1>15, <2>1 DEF HostReadProduced, shared, TypeOK, SharedTypeOK,
             LifeTypeOK
<1>16. ASSUME HostReadConsumed PROVE TypeOK'
  <2>1. ProducerTypeOK' /\ ConsumerTypeOK'
    BY <1>16, EndTyped
    DEF HostReadConsumed, HostEnd, TypeOK, SharedTypeOK, ProducerTypeOK,
       ConsumerTypeOK
  <2> QED BY <1>16, <2>1 DEF HostReadConsumed, shared, TypeOK, SharedTypeOK,
             LifeTypeOK
<1>17. ASSUME HostClose PROVE TypeOK'
  BY <1>17
  DEF HostClose, shared, pvars, cvars, TypeOK, SharedTypeOK, ProducerTypeOK,
     ConsumerTypeOK, LifeTypeOK
<1>18. ASSUME PeerMoves PROVE TypeOK'
  BY <1>18
  DEF PeerMoves, pvars, cvars, TypeOK, SharedTypeOK, ProducerTypeOK, ConsumerTypeOK,
     LifeTypeOK
<1>19. ASSUME UNCHANGED vars PROVE TypeOK'
  BY <1>19
  DEF vars, shared, pvars, cvars, TypeOK, SharedTypeOK, ProducerTypeOK,
     ConsumerTypeOK, LifeTypeOK
<1> QED BY <1>1, <1>2, <1>3, <1>4, <1>5, <1>6, <1>7, <1>8, <1>9, <1>10, <1>11,
           <1>12, <1>13, <1>14, <1>15, <1>16, <1>17, <1>18, <1>19
          DEF Next, Produce, Consume, AmcLife, HostLife

-----------------------------------------------------------------------------
(* The counters stay in the window.                                        *)

\* Distances, as the invariants use them.
LEMMA Window ==
  \A a, b \in Ctr :
    /\ Inc(a) \in Ctr /\ Sub(a, b) \in Nat /\ (Sub(a, b) = 0 <=> a = b)
    /\ Sub(a, b) <= NumSlots => Sub(Inc(a), b) = Sub(a, b) + 1
    /\ a # b => Sub(a, Inc(b)) = Sub(a, b) - 1
<1> TAKE a, b \in Ctr
<1>1. /\ Inc(a) \in Ctr /\ Inc(a) = IF a = Wrap - 1 THEN 0 ELSE a + 1
      /\ Inc(b) \in Ctr /\ Inc(b) = IF b = Wrap - 1 THEN 0 ELSE b + 1
  BY Successor
<1>2. Sub(a, b) = IF a >= b THEN a - b ELSE a - b + Wrap
  BY Distance
<1>3. Sub(Inc(a), b) = IF Inc(a) >= b THEN Inc(a) - b ELSE Inc(a) - b + Wrap
  BY <1>1, Distance
<1>4. Sub(a, Inc(b)) = IF a >= Inc(b) THEN a - Inc(b) ELSE a - Inc(b) + Wrap
  BY <1>1, Distance
<1>5. Sub(a, b) \in Nat /\ (Sub(a, b) = 0 <=> a = b)
  BY <1>2, Sizes
<1>6. Sub(a, b) <= NumSlots => Sub(Inc(a), b) = Sub(a, b) + 1
  BY <1>1, <1>2, <1>3, Sizes
<1>7. a # b => Sub(a, Inc(b)) = Sub(a, b) - 1
  BY <1>1, <1>2, <1>4, Sizes
<1> QED BY <1>1, <1>5, <1>6, <1>7

-----------------------------------------------------------------------------
(* The slots of the window hold whole messages.                            *)

\* Slots with the same words are equal.
LEMMA SameWords ==
  ASSUME NEW f \in [1 .. Words -> Msgs], NEW g \in [1 .. Words -> Msgs],
         \A w \in 1 .. Words : f[w] = g[w]
  PROVE  f = g
<1>1. f = [w \in 1 .. Words |-> f[w]] /\ g = [w \in 1 .. Words |-> g[w]]
  OBVIOUS
<1>2. [w \in 1 .. Words |-> f[w]] = [w \in 1 .. Words |-> g[w]]
  OBVIOUS
<1> QED BY <1>1

\* The distance from c to a splits at b.
LEMMA DistanceSplits ==
  ASSUME NEW a \in Ctr, NEW b \in Ctr, NEW c \in Ctr, Sub(b, c) <= Sub(a, c)
  PROVE  Sub(a, b) = Sub(a, c) - Sub(b, c)
<1>1. Sub(a, b) = IF a >= b THEN a - b ELSE a - b + Wrap
  BY Distance
<1>2. Sub(a, c) = IF a >= c THEN a - c ELSE a - c + Wrap
  BY Distance
<1>3. Sub(b, c) = IF b >= c THEN b - c ELSE b - c + Wrap
  BY Distance
<1> QED BY <1>1, <1>2, <1>3, Sizes

\* A counter is determined by its distance from another.
LEMMA SameDistance ==
  ASSUME NEW a \in Ctr, NEW b \in Ctr, NEW c \in Ctr, Sub(a, c) = Sub(b, c)
  PROVE  a = b
<1>1. Sub(a, c) \in Nat /\ Sub(b, c) \in Nat
  BY Window
<1>2. Sub(a, b) = Sub(a, c) - Sub(b, c)
  BY <1>1, DistanceSplits
<1>3. Sub(a, b) = 0
  BY <1>1, <1>2
<1> QED BY <1>3, Window

\* As long as the ring is not full, no pending message is in the slot at the tail.
LEMMA PendingSlots ==
  ASSUME TypeOK, NEW i \in Ctr, Sub(i, consumed) < Sub(tail, consumed),
         Sub(tail, consumed) < NumSlots
  PROVE  Slot(i) # Slot(tail)
<1>1. tail \in Ctr /\ consumed \in Ctr
  BY DEF TypeOK, SharedTypeOK
<1>2. Sub(i, consumed) \in Nat /\ Sub(tail, consumed) \in Nat /\ NumSlots \in Nat
  BY <1>1, Window, Basics
<1>3. Sub(tail, i) = Sub(tail, consumed) - Sub(i, consumed)
  BY <1>1, <1>2, DistanceSplits
<1>4. 0 < Sub(tail, i) /\ Sub(tail, i) < NumSlots
  BY <1>2, <1>3
<1> QED BY <1>1, <1>4, SlotsDiffer

\* The slot the producer fills is the one at the tail, and it is free.
LEMMA FillsTheTailSlot ==
  ASSUME TypeOK, CounterInv, ProducerUp, pPc \in {"write", "publish"}
  PROVE  /\ ProducerReady /\ RingReady /\ Sub(tail, consumed) < NumSlots
         /\ Sub(pProduced, 1) = tail
<1>1. tail \in Ctr /\ consumed \in Ctr /\ pProduced \in Ctr /\ pConsumed \in Ctr
  BY DEF TypeOK, SharedTypeOK, ProducerTypeOK
<1>2. ProducerReady /\ RingReady
  BY DEF ProducerUp, ProducerReady, RingReady, CounterInv, PhaseInv
<1>3. pProduced = Inc(tail) /\ Sub(tail, consumed) <= NumSlots
  BY <1>2 DEF CounterInv, ProducerInv, WindowInv
<1>4. Sub(pProduced, consumed) <= NumSlots
  BY <1>1, <1>2, Window, Basics DEF CounterInv, ProducerInv
<1>5. Sub(tail, consumed) < NumSlots
  BY <1>1, <1>3, <1>4, Window, Basics
<1>6. Sub(pProduced, 1) = tail
  BY <1>1, <1>3, Before
<1> QED BY <1>2, <1>5, <1>6

\* What a word of the producer changes.
LEMMA WritesTheTailSlot ==
  ASSUME TypeOK, CounterInv, WriteWord
  PROVE  /\ ProducerReady /\ RingReady /\ Sub(tail, consumed) < NumSlots
         /\ slot' = [slot EXCEPT ![Slot(tail)][pWord] = pMsg]
         /\ pWord \in 1 .. Words /\ Slot(tail) \in DOMAIN slot
         /\ UNCHANGED <<tail, consumed, amcPc, hostPc, magic>>
<1>1. pWord \in 1 .. Words
  BY Basics DEF WriteWord, TypeOK, ProducerTypeOK
<1>2. /\ ProducerReady /\ RingReady /\ Sub(tail, consumed) < NumSlots
      /\ Sub(pProduced, 1) = tail
  BY FillsTheTailSlot DEF WriteWord
<1>3. Slot(tail) \in DOMAIN slot
  BY SlotIsSlot DEF TypeOK, SharedTypeOK
<1> QED BY <1>1, <1>2, <1>3 DEF WriteWord

\* While it holds the slot it reads, the consumer is behind the tail.
LEMMA ReadsTheConsumedSlot ==
  ASSUME TypeOK, CounterInv, ConsumerReady, cPc \in {"read", "release"}
  PROVE  RingReady /\ cConsumed = Inc(consumed) /\ 0 < Sub(tail, consumed)
<1>1. tail \in Ctr /\ consumed \in Ctr /\ cProduced \in Ctr
  BY DEF TypeOK, SharedTypeOK, ConsumerTypeOK
<1>2. /\ cConsumed = Inc(consumed) /\ cProduced # consumed
      /\ Sub(cProduced, consumed) <= Sub(tail, consumed)
  BY DEF CounterInv, ConsumerInv
<1>3. 0 < Sub(tail, consumed)
  BY <1>1, <1>2, Window
<1>4. RingReady
  BY DEF ConsumerReady, RingReady, CounterInv, PhaseInv
<1> QED BY <1>2, <1>3, <1>4

\* Every step keeps the counters in the window.
LEMMA CounterStep ==
  ASSUME TypeOK, CounterInv, ~MemoryRetained, [Next]_vars
  PROVE  CounterInv'
<1>1. ASSUME NEW m \in Msgs, Reserve(m) PROVE CounterInv'
  <2>0. /\ tail \in Ctr /\ consumed \in Ctr /\ pProduced \in Ctr
        /\ pConsumed \in Ctr /\ cProduced \in Ctr /\ cConsumed \in Ctr
    BY DEF TypeOK, SharedTypeOK, ProducerTypeOK, ConsumerTypeOK
  <2>1. /\ ProducerReady /\ pProduced = tail /\ Sub(tail, consumed) <= NumSlots
        /\ Sub(pProduced, consumed) <= Sub(pProduced, pConsumed)
        /\ Sub(pProduced, pConsumed) <= NumSlots
    BY <1>1
    DEF Reserve, CounterInv, PhaseInv, WindowInv, ProducerInv, ProducerReady,
       RingReady, ProducerUp
  <2>2. /\ pConsumed' \in Ctr /\ ~(Sub(tail, pConsumed') >= NumSlots)
        /\ Sub(tail, consumed) <= Sub(tail, pConsumed')
    BY <1>1, <2>0, <2>1, Window DEF Reserve, IsFull
  <2>3. /\ Sub(Inc(tail), pConsumed') = Sub(tail, pConsumed') + 1
        /\ Sub(Inc(tail), consumed) = Sub(tail, consumed) + 1
    BY <2>0, <2>2, Window, Basics
  <2>4. ProducerInv'
    BY <1>1, <2>0, <2>1, <2>2, Window, Basics DEF Reserve, shared, ProducerInv
  <2>5. (PhaseInv /\ WindowInv /\ ConsumerInv /\ AttachInv)'
    BY <1>1
    DEF Reserve, shared, cvars, CounterInv, PhaseInv, WindowInv, ConsumerInv,
       AttachInv, ConsumerReady, RingReady, ProducerUp
  <2> QED BY <2>4, <2>5 DEF CounterInv
<1>2. ASSUME NoFreeSlots PROVE CounterInv'
  <2>0. /\ tail \in Ctr /\ consumed \in Ctr /\ pProduced \in Ctr
        /\ pConsumed \in Ctr /\ cProduced \in Ctr /\ cConsumed \in Ctr
    BY DEF TypeOK, SharedTypeOK, ProducerTypeOK, ConsumerTypeOK
  <2>1. ProducerReady /\ pProduced = tail /\ Sub(tail, consumed) <= NumSlots
    BY <1>2
    DEF NoFreeSlots, CounterInv, PhaseInv, WindowInv, ProducerInv, ProducerReady,
       RingReady, ProducerUp
  <2>2. ProducerInv'
    BY <1>2, <2>0, <2>1, Window DEF NoFreeSlots, shared, ProducerInv
  <2>3. (PhaseInv /\ WindowInv /\ ConsumerInv /\ AttachInv)'
    BY <1>2
    DEF NoFreeSlots, shared, cvars, CounterInv, PhaseInv, WindowInv, ConsumerInv,
       AttachInv, ConsumerReady, RingReady
  <2> QED BY <2>2, <2>3 DEF CounterInv
<1>3. ASSUME WriteWord PROVE CounterInv'
  BY <1>3
  DEF WriteWord, cvars, CounterInv, PhaseInv, WindowInv, ProducerInv, ConsumerInv,
     AttachInv, ProducerReady, ConsumerReady, RingReady
<1>4. ASSUME Publish PROVE CounterInv'
  <2>0. /\ tail \in Ctr /\ consumed \in Ctr /\ pProduced \in Ctr
        /\ pConsumed \in Ctr /\ cProduced \in Ctr /\ cConsumed \in Ctr
    BY DEF TypeOK, SharedTypeOK, ProducerTypeOK, ConsumerTypeOK
  <2>1. /\ ProducerReady /\ pProduced = Inc(tail) /\ Sub(tail, consumed) <= NumSlots
        /\ Sub(pProduced, consumed) <= NumSlots /\ tail' = pProduced
    BY <1>4, <2>0, Window, Basics
    DEF Publish, CounterInv, PhaseInv, WindowInv, ProducerInv, ProducerReady,
       RingReady, ProducerUp
  <2>2. Sub(tail', consumed) = Sub(tail, consumed) + 1
    BY <2>0, <2>1, Window
  <2>3. PhaseInv'
    BY <1>4 DEF Publish, CounterInv, PhaseInv, ProducerUp
  <2>4. WindowInv' /\ ProducerInv'
    BY <1>4, <2>1 DEF Publish, CounterInv, WindowInv, ProducerInv
  <2>5. ConsumerInv'
    BY <1>4, <2>0, <2>2, Window DEF Publish, cvars, CounterInv, ConsumerInv,
       ConsumerReady
  <2>6. AttachInv'
    BY <1>4, <2>0, <2>2, Window DEF Publish, cvars, CounterInv, AttachInv
  <2> QED BY <2>3, <2>4, <2>5, <2>6 DEF CounterInv
<1>5. ASSUME ReadPeerTail PROVE CounterInv'
  BY <1>5
  DEF ReadPeerTail, shared, pvars, CounterInv, PhaseInv, WindowInv, ProducerInv,
     ConsumerInv, AttachInv, ProducerReady, ConsumerReady, RingReady
<1>6. ASSUME ReadTail PROVE CounterInv'
  <2>1. PhaseInv'
    BY <1>6 DEF ReadTail, shared, CounterInv, PhaseInv
  <2>2. WindowInv'
    BY <1>6 DEF ReadTail, shared, CounterInv, WindowInv, RingReady
  <2>3. ProducerInv'
    BY <1>6 DEF ReadTail, shared, pvars, CounterInv, ProducerInv, ProducerReady
  <2>4. ConsumerInv'
    BY <1>6 DEF ReadTail, Take, shared, IsEmpty, CounterInv, ConsumerInv,
       ConsumerReady
  <2>5. AttachInv'
    BY <1>6 DEF ReadTail, shared, pvars, CounterInv, AttachInv
  <2> QED BY <2>1, <2>2, <2>3, <2>4, <2>5 DEF CounterInv
<1>7. ASSUME RefreshTail PROVE CounterInv'
  <2>1. PhaseInv'
    BY <1>7 DEF RefreshTail, shared, CounterInv, PhaseInv
  <2>2. WindowInv'
    BY <1>7 DEF RefreshTail, shared, CounterInv, WindowInv, RingReady
  <2>3. ProducerInv'
    BY <1>7 DEF RefreshTail, shared, pvars, CounterInv, ProducerInv, ProducerReady
  <2>4. ConsumerInv'
    BY <1>7, Window
    DEF RefreshTail, Take, shared, IsEmpty, CounterInv, PhaseInv, ConsumerInv,
       ConsumerReady, TypeOK, SharedTypeOK
  <2>5. AttachInv'
    BY <1>7 DEF RefreshTail, shared, pvars, CounterInv, AttachInv, ConsumerUp
  <2> QED BY <2>1, <2>2, <2>3, <2>4, <2>5 DEF CounterInv
<1>8. ASSUME ReadWord PROVE CounterInv'
  BY <1>8
  DEF ReadWord, shared, pvars, CounterInv, PhaseInv, WindowInv, ProducerInv,
     ConsumerInv, AttachInv, ProducerReady, ConsumerReady, RingReady
<1>9. ASSUME Release PROVE CounterInv'
  <2>0. /\ tail \in Ctr /\ consumed \in Ctr /\ pProduced \in Ctr
        /\ pConsumed \in Ctr /\ cProduced \in Ctr /\ cConsumed \in Ctr
    BY DEF TypeOK, SharedTypeOK, ProducerTypeOK, ConsumerTypeOK
  <2>1. /\ ConsumerReady /\ RingReady /\ consumed' = Inc(consumed)
        /\ cProduced # consumed /\ Sub(cProduced, consumed) <= Sub(tail, consumed)
        /\ Sub(tail, consumed) <= NumSlots
    BY <1>9
    DEF Release, CounterInv, PhaseInv, WindowInv, ConsumerInv, ConsumerReady,
       RingReady, ConsumerUp
  <2>2. tail # consumed
    BY <2>0, <2>1, Window
  <2>3. /\ Sub(tail, consumed') = Sub(tail, consumed) - 1
        /\ Sub(cProduced, consumed') = Sub(cProduced, consumed) - 1
    BY <2>0, <2>1, Window
  <2>4. ASSUME ProducerReady
        PROVE  Sub(pProduced, consumed') = Sub(pProduced, consumed) - 1
    <3>1. pProduced = tail \/ pProduced = Inc(tail)
      BY <2>4 DEF CounterInv, ProducerInv
    <3>2. pProduced # consumed
      BY <3>1, <2>0, <2>1, Window
    <3> QED BY <3>2, <2>0, <2>1, Window
  <2>5. PhaseInv'
    BY <1>9 DEF Release, CounterInv, PhaseInv, ConsumerUp
  <2>6. WindowInv'
    BY <1>9, <2>0, <2>1, Window, Basics DEF Release, WindowInv
  <2>7. ProducerInv'
    <3>1. UNCHANGED <<ProducerReady, pProduced, pConsumed, pPc, tail>>
      BY <1>9 DEF Release, pvars, ProducerReady
    <3>2. ASSUME ProducerReady
          PROVE  Sub(pProduced, consumed') <= Sub(pProduced, pConsumed)
      <4>1. /\ Sub(pProduced, consumed) \in Nat /\ Sub(pProduced, pConsumed) \in Nat
            /\ Sub(pProduced, consumed) <= Sub(pProduced, pConsumed)
        BY <3>2, <2>0, Window DEF CounterInv, ProducerInv
      <4> QED BY <4>1, <3>2, <2>4
    <3> QED BY <3>1, <3>2 DEF CounterInv, ProducerInv
  <2>8. ConsumerInv'
    BY <1>9, <2>0, <2>1, Window DEF Release, ConsumerInv
  <2>9. AttachInv'
    BY <1>9 DEF Release, pvars, CounterInv, AttachInv, ConsumerUp
  <2> QED BY <2>5, <2>6, <2>7, <2>8, <2>9 DEF CounterInv
<1>10. ASSUME AmcWriteHeader PROVE CounterInv'
  BY <1>10
  DEF AmcWriteHeader, CounterInv, PhaseInv, WindowInv, ProducerInv, ConsumerInv,
     AttachInv, ProducerReady, ConsumerReady, RingReady
<1>11. ASSUME AmcSoftReset PROVE CounterInv'
  <2>0. /\ tail \in Ctr /\ consumed \in Ctr /\ pProduced \in Ctr
        /\ pConsumed \in Ctr /\ cProduced \in Ctr /\ cConsumed \in Ctr
    BY DEF TypeOK, SharedTypeOK, ProducerTypeOK, ConsumerTypeOK
  <2>1. tail' = tail /\ consumed' = tail /\ Sub(tail, tail) = 0
    BY <1>11, <2>0, Window DEF AmcSoftReset
  <2>2. hostPc = "closed" /\ hostPc' = "closed" /\ amcPc' = "reset" /\ ~magic'
    BY <1>11 DEF AmcSoftReset, CounterInv, PhaseInv
  <2>3. (PhaseInv /\ WindowInv /\ AttachInv)'
    BY <2>1, <2>2, Basics DEF PhaseInv, WindowInv, AttachInv
  <2>4. (ProducerInv /\ ConsumerInv)'
    <3>1. CASE AmcProduces
      BY <3>1, <1>11, <2>1, <2>2, Basics
      DEF AmcSoftReset, AmcEnd, SetEnd, ProducerInv, ConsumerInv, ConsumerReady
    <3>2. CASE ~AmcProduces
      BY <3>2, <1>11, <2>1, <2>2
      DEF AmcSoftReset, AmcEnd, SetEnd, ProducerInv, ProducerReady, ConsumerInv
    <3> QED BY <3>1, <3>2
  <2> QED BY <2>3, <2>4 DEF CounterInv
<1>12. ASSUME AmcWriteMagic PROVE CounterInv'
  BY <1>12
  DEF AmcWriteMagic, pvars, cvars, CounterInv, PhaseInv, WindowInv, ProducerInv,
     ConsumerInv, AttachInv, ProducerReady, ConsumerReady, RingReady
<1>13. ASSUME AmcRestart PROVE CounterInv'
  BY <1>13
  DEF AmcRestart, CounterInv, PhaseInv, WindowInv, ProducerInv, ConsumerInv,
     AttachInv, ProducerReady, ConsumerReady, RingReady
<1>14. ASSUME HostAttach PROVE CounterInv'
  BY <1>14
  DEF HostAttach, HostEnd, SetEnd, shared, pvars, cvars, CounterInv, PhaseInv,
     WindowInv, ProducerInv, ConsumerInv, AttachInv, ProducerReady, ConsumerReady,
     RingReady
<1>15. ASSUME HostReadProduced PROVE CounterInv'
  <2>1. PhaseInv'
    BY <1>15 DEF HostReadProduced, shared, CounterInv, PhaseInv
  <2>2. WindowInv'
    BY <1>15 DEF HostReadProduced, shared, CounterInv, WindowInv, RingReady
  <2>3. ProducerInv'
    BY <1>15
    DEF HostReadProduced, HostEnd, SetEnd, shared, pvars, CounterInv, ProducerInv,
       ProducerReady
  <2>4. ConsumerInv'
    BY <1>15
    DEF HostReadProduced, HostEnd, SetEnd, shared, cvars, CounterInv, ConsumerInv,
       ConsumerReady
  <2>5. AttachInv'
    BY <1>15, Window
    DEF HostReadProduced, HostEnd, SetEnd, shared, pvars, CounterInv, PhaseInv,
       ProducerInv, AttachInv, ProducerReady, TypeOK, SharedTypeOK, ProducerTypeOK
  <2> QED BY <2>1, <2>2, <2>3, <2>4, <2>5 DEF CounterInv
<1>16. ASSUME HostReadConsumed PROVE CounterInv'
  <2>0. /\ tail \in Ctr /\ consumed \in Ctr /\ pProduced \in Ctr
        /\ pConsumed \in Ctr /\ cProduced \in Ctr /\ cConsumed \in Ctr
    BY DEF TypeOK, SharedTypeOK, ProducerTypeOK, ConsumerTypeOK
  <2>1. /\ UNCHANGED <<tail, consumed, amcPc, magic>>
        /\ hostPc = "produced" /\ hostPc' = "up"
        /\ Sub(tail, consumed) <= NumSlots
    BY <1>16 DEF HostReadConsumed, shared, CounterInv, PhaseInv, WindowInv,
       RingReady
  <2>2. (PhaseInv /\ WindowInv /\ AttachInv)'
    BY <2>1 DEF CounterInv, PhaseInv, WindowInv, AttachInv
  <2>3. (ProducerInv /\ ConsumerInv)'
    <3>1. CASE AmcProduces
      BY <3>1, <1>16, <2>1
      DEF HostReadConsumed, HostEnd, SetEnd, pvars, CounterInv, AttachInv,
         ProducerInv, ProducerReady, ConsumerInv
    <3>2. CASE ~AmcProduces
      <4>1. /\ pProduced' = tail /\ pConsumed' = consumed /\ pPc' = "idle"
            /\ UNCHANGED cvars
        BY <3>2, <1>16 DEF HostReadConsumed, HostEnd, SetEnd, CounterInv, AttachInv
      <4>2. ProducerInv'
        <5>1. Sub(tail, consumed) \in Nat /\ NumSlots \in Nat
          BY <2>0, Window, Basics
        <5> QED BY <4>1, <2>1, <5>1 DEF ProducerInv
      <4> QED BY <4>1, <4>2, <3>2, <2>1 DEF cvars, CounterInv, ConsumerInv,
                 ConsumerReady
    <3> QED BY <3>1, <3>2
  <2> QED BY <2>2, <2>3 DEF CounterInv
<1>17. ASSUME HostClose PROVE CounterInv'
  BY <1>17
  DEF HostClose, shared, pvars, cvars, CounterInv, PhaseInv, WindowInv, ProducerInv,
     ConsumerInv, AttachInv, ProducerReady, ConsumerReady, RingReady
<1>18. ASSUME PeerMoves PROVE CounterInv'
  BY <1>18
  DEF PeerMoves, pvars, cvars, CounterInv, PhaseInv, WindowInv, ProducerInv,
     ConsumerInv, AttachInv, ProducerReady, ConsumerReady, RingReady
<1>19. ASSUME UNCHANGED vars PROVE CounterInv'
  BY <1>19
  DEF vars, shared, pvars, cvars, CounterInv, PhaseInv, WindowInv, ProducerInv,
     ConsumerInv, AttachInv, ProducerReady, ConsumerReady, RingReady
<1> QED BY <1>1, <1>2, <1>3, <1>4, <1>5, <1>6, <1>7, <1>8, <1>9, <1>10, <1>11,
           <1>12, <1>13, <1>14, <1>15, <1>16, <1>17, <1>18, <1>19
          DEF Next, Produce, Consume, AmcLife, HostLife

\* Every step keeps whole messages between consumed and tail.
LEMMA DataStep ==
  ASSUME TypeOK, RingInv, ~MemoryRetained, [Next]_vars
  PROVE  SlotsInv' /\ FillInv' /\ CopyInv' /\ DeliveredInv'
<1>1. ASSUME NEW m \in Msgs, Reserve(m) PROVE SlotsInv' /\ FillInv' /\ CopyInv' /\ DeliveredInv'
  BY <1>1
  DEF Reserve, shared, cvars, RingInv, SlotsInv, FillInv, CopyInv, DeliveredInv,
     ConsumerReady, RingReady
<1>2. ASSUME NoFreeSlots PROVE SlotsInv' /\ FillInv' /\ CopyInv' /\ DeliveredInv'
  BY <1>2
  DEF NoFreeSlots, shared, cvars, RingInv, SlotsInv, FillInv, CopyInv, DeliveredInv,
     ConsumerReady, RingReady
<1>3. ASSUME WriteWord PROVE SlotsInv' /\ FillInv' /\ CopyInv' /\ DeliveredInv'
  <2>1. /\ ProducerReady /\ RingReady /\ Sub(tail, consumed) < NumSlots
        /\ slot' = [slot EXCEPT ![Slot(tail)][pWord] = pMsg]
        /\ pWord \in 1 .. Words /\ Slot(tail) \in DOMAIN slot
        /\ UNCHANGED <<tail, consumed, amcPc, hostPc, magic>>
    BY <1>3, WritesTheTailSlot DEF RingInv
  <2>2. slot[Slot(tail)] \in [1 .. Words -> Msgs]
    BY <2>1 DEF TypeOK, SharedTypeOK
  <2>3. /\ slot'[Slot(tail)][pWord] = pMsg
        /\ \A w \in 1 .. Words : w # pWord => slot'[Slot(tail)][w] = slot[Slot(tail)][w]
        /\ slot'[Slot(tail)] \in [1 .. Words -> Msgs]
        /\ \A s \in DOMAIN slot : s # Slot(tail) => slot'[s] = slot[s]
    BY <2>1, <2>2 DEF TypeOK, ProducerTypeOK
  <2>4. tail \in Ctr /\ consumed \in Ctr /\ DOMAIN slot = 0 .. NumSlots - 1
    BY DEF TypeOK, SharedTypeOK
  <2>5. SlotsInv'
    <3> SUFFICES ASSUME NEW i \in Ctr, Sub(i, consumed) < Sub(tail, consumed)
                 PROVE  \E m \in Msgs : slot'[Slot(i)] = Whole(m)
      BY <2>1 DEF SlotsInv
    <3>1. Slot(i) # Slot(tail) /\ Slot(i) \in DOMAIN slot
      BY <2>1, <2>4, PendingSlots, SlotIsSlot
    <3> QED BY <2>1, <3>1 DEF RingInv, SlotsInv
  <2>6. FillInv'
    <3>1. \A w \in 1 .. Words : w < pWord => slot[Slot(tail)][w] = pMsg
      BY <1>3, <2>1 DEF WriteWord, RingInv, FillInv
    <3>2. \A w \in 1 .. Words : w < pWord + 1 => slot'[Slot(tail)][w] = pMsg
      BY <2>1, <2>3, <3>1
    <3>3. CASE pWord = Words
      <4>1. slot'[Slot(tail)] = Whole(pMsg)
        BY <2>3, <3>2, <3>3, Basics DEF Whole
      <4> QED BY <1>3, <4>1, <3>3 DEF WriteWord, FillInv
    <3>4. CASE pWord # Words
      BY <1>3, <3>2, <3>4 DEF WriteWord, FillInv
    <3> QED BY <3>3, <3>4
  <2>7. CopyInv'
    <3>1. ASSUME ConsumerReady, cPc \in {"read", "release"}
          PROVE  slot'[Slot(consumed)] = slot[Slot(consumed)]
      <4>1. 0 < Sub(tail, consumed)
        BY <3>1, ReadsTheConsumedSlot DEF RingInv
      <4>2. Slot(consumed) # Slot(tail)
        BY <2>1, <2>4, <4>1, SlotsDiffer
      <4> QED BY <2>3, <2>4, <4>2, SlotIsSlot
    <3>2. UNCHANGED <<ConsumerReady, cPc, cWord, cBuf, consumed>>
      BY <1>3 DEF WriteWord, cvars, ConsumerReady
    <3> QED BY <3>1, <3>2 DEF RingInv, CopyInv
  <2>8. DeliveredInv'
    BY <1>3 DEF WriteWord, cvars, RingInv, DeliveredInv
  <2> QED BY <2>5, <2>6, <2>7, <2>8
<1>4. ASSUME Publish PROVE SlotsInv' /\ FillInv' /\ CopyInv' /\ DeliveredInv'
  <2>1. /\ ProducerReady /\ RingReady /\ pProduced = Inc(tail) /\ tail' = Inc(tail)
        /\ UNCHANGED <<slot, consumed, amcPc, hostPc>>
        /\ slot[Slot(tail)] = Whole(pMsg)
    BY <1>4
    DEF Publish, RingInv, CounterInv, PhaseInv, ProducerInv, FillInv, ProducerReady,
       ProducerUp, RingReady
  <2>2. tail \in Ctr /\ consumed \in Ctr /\ pMsg \in Msgs
    BY DEF TypeOK, SharedTypeOK, ProducerTypeOK
  <2>3. Sub(tail', consumed) = Sub(tail, consumed) + 1 /\ Sub(tail, consumed) \in Nat
    BY <2>1, <2>2, Window DEF RingInv, CounterInv, WindowInv
  <2>4. SlotsInv'
    <3> SUFFICES ASSUME NEW i \in Ctr, Sub(i, consumed) < Sub(tail', consumed)
                 PROVE  \E m \in Msgs : slot[Slot(i)] = Whole(m)
      BY <2>1 DEF SlotsInv
    <3>1. Sub(i, consumed) < Sub(tail, consumed) \/ i = tail
      BY <2>2, <2>3, Window, SameDistance
    <3> QED BY <2>1, <2>2, <3>1 DEF RingInv, SlotsInv
  <2>5. FillInv' /\ CopyInv' /\ DeliveredInv'
    BY <1>4 DEF Publish, cvars, RingInv, FillInv, CopyInv, DeliveredInv,
       ConsumerReady
  <2> QED BY <2>4, <2>5
<1>5. ASSUME ReadPeerTail PROVE SlotsInv' /\ FillInv' /\ CopyInv' /\ DeliveredInv'
  BY <1>5
  DEF ReadPeerTail, shared, pvars, RingInv, SlotsInv, FillInv, CopyInv,
     DeliveredInv, ProducerReady, RingReady
<1>6. ASSUME ReadTail PROVE SlotsInv' /\ FillInv' /\ CopyInv' /\ DeliveredInv'
  BY <1>6
  DEF ReadTail, Take, shared, pvars, RingInv, SlotsInv, FillInv, CopyInv,
     DeliveredInv, ProducerReady, RingReady
<1>7. ASSUME RefreshTail PROVE SlotsInv' /\ FillInv' /\ CopyInv' /\ DeliveredInv'
  BY <1>7
  DEF RefreshTail, Take, shared, pvars, RingInv, SlotsInv, FillInv, CopyInv,
     DeliveredInv, ProducerReady, RingReady
<1>8. ASSUME ReadWord PROVE SlotsInv' /\ FillInv' /\ CopyInv' /\ DeliveredInv'
  <2>1. ConsumerReady
    BY <1>8 DEF ReadWord, ConsumerUp, ConsumerReady
  <2>2. cConsumed = Inc(consumed) /\ consumed \in Ctr
    BY <1>8, <2>1, ReadsTheConsumedSlot DEF ReadWord, RingInv, TypeOK, SharedTypeOK
  <2>3. cBuf' = [cBuf EXCEPT ![cWord] = slot[Slot(consumed)][cWord]]
    BY <1>8, <2>2, Before DEF ReadWord
  <2>4. cWord \in 1 .. Words /\ cBuf \in [1 .. Words -> Msgs]
    BY <1>8, Basics DEF ReadWord, TypeOK, ConsumerTypeOK
  <2>5. slot[Slot(consumed)] \in [1 .. Words -> Msgs]
    BY SlotIsSlot DEF TypeOK, SharedTypeOK
  <2>6. \A w \in 1 .. Words : w < cWord + 1 => cBuf'[w] = slot[Slot(consumed)][w]
    <3>1. \A w \in 1 .. Words : w < cWord => cBuf[w] = slot[Slot(consumed)][w]
      BY <1>8, <2>1 DEF ReadWord, RingInv, CopyInv
    <3> QED BY <2>3, <2>4, <3>1
  <2>7. CopyInv'
    <3>1. CASE cWord = Words
      <4>1. cBuf' = slot[Slot(consumed)]
        <5>1. \A w \in 1 .. Words : cBuf'[w] = slot[Slot(consumed)][w]
          BY <2>6, <3>1, Basics
        <5>2. cBuf' \in [1 .. Words -> Msgs]
          BY <2>3, <2>4, <2>5
        <5> QED BY <2>5, <5>1, <5>2, SameWords
      <4> QED BY <1>8, <4>1 DEF ReadWord, shared, CopyInv
    <3>2. CASE cWord # Words
      BY <1>8, <2>6, <3>2 DEF ReadWord, shared, CopyInv
    <3> QED BY <3>1, <3>2
  <2>8. SlotsInv' /\ FillInv' /\ DeliveredInv'
    BY <1>8
    DEF ReadWord, shared, pvars, RingInv, SlotsInv, FillInv, DeliveredInv,
       RingReady, ProducerReady
  <2> QED BY <2>7, <2>8
<1>9. ASSUME Release PROVE SlotsInv' /\ FillInv' /\ CopyInv' /\ DeliveredInv'
  <2>1. ConsumerReady
    BY <1>9 DEF Release, ConsumerUp, ConsumerReady
  <2>2. RingReady /\ cConsumed = Inc(consumed) /\ 0 < Sub(tail, consumed)
    BY <1>9, <2>1, ReadsTheConsumedSlot DEF Release, RingInv
  <2>3. tail \in Ctr /\ consumed \in Ctr /\ Sub(consumed, consumed) = 0
    BY Window DEF TypeOK, SharedTypeOK
  <2>4. \A i \in Ctr : Sub(i, consumed) < Sub(tail, consumed)
                        => \E m \in Msgs : slot[Slot(i)] = Whole(m)
    BY <2>2 DEF RingInv, SlotsInv
  <2>5. cBuf = slot[Slot(consumed)]
    BY <1>9, <2>1 DEF Release, RingInv, CopyInv
  <2>6. DeliveredInv'
    BY <1>9, <2>2, <2>3, <2>4, <2>5 DEF Release, DeliveredInv
  <2>7. SlotsInv'
    <3> SUFFICES ASSUME NEW i \in Ctr, Sub(i, consumed') < Sub(tail, consumed')
                 PROVE  \E m \in Msgs : slot[Slot(i)] = Whole(m)
      BY <1>9 DEF Release, SlotsInv
    <3>1. consumed' = Inc(consumed)
      BY <1>9, <2>2 DEF Release
    <3>2. Sub(tail, consumed') = Sub(tail, consumed) - 1
      BY <2>2, <2>3, <3>1, Window
    <3>3. CASE i = consumed
      BY <3>3, <2>2, <2>3, <2>4
    <3>4. CASE i # consumed
      <4>1. Sub(i, consumed') = Sub(i, consumed) - 1
        BY <2>3, <3>1, <3>4, Window
      <4>2. Sub(i, consumed) \in Nat /\ Sub(tail, consumed) \in Nat
        BY <2>3, Window
      <4> QED BY <2>4, <3>2, <4>1, <4>2
    <3> QED BY <3>3, <3>4
  <2>8. FillInv' /\ CopyInv'
    BY <1>9 DEF Release, pvars, RingInv, FillInv, CopyInv, ProducerReady
  <2> QED BY <2>6, <2>7, <2>8
<1>10. ASSUME AmcWriteHeader PROVE SlotsInv' /\ FillInv' /\ CopyInv' /\ DeliveredInv'
  BY <1>10
  DEF AmcWriteHeader, AmcEnd, SetEnd, cvars, RingInv, CounterInv, PhaseInv,
     SlotsInv, FillInv, CopyInv, DeliveredInv, ProducerReady, ConsumerReady,
     RingReady
<1>11. ASSUME AmcSoftReset PROVE SlotsInv' /\ FillInv' /\ CopyInv' /\ DeliveredInv'
  <2>1. tail' = tail /\ consumed' = tail /\ tail \in Ctr
    BY <1>11 DEF AmcSoftReset, TypeOK, SharedTypeOK
  <2>2. SlotsInv'
    <3>1. \A i \in Ctr : ~(Sub(i, tail) < Sub(tail, tail))
      <4> TAKE i \in Ctr
      <4>1. Sub(tail, tail) = 0 /\ Sub(i, tail) \in Nat
        BY <2>1, Window
      <4> QED BY <4>1
    <3> QED BY <2>1, <3>1 DEF SlotsInv
  <2>3. hostPc' = "closed"
    BY <1>11 DEF AmcSoftReset, RingInv, CounterInv, PhaseInv
  <2>4. DeliveredInv' /\ FillInv' /\ CopyInv'
    <3>1. CASE AmcProduces
      BY <1>11, <2>3, <3>1
      DEF AmcSoftReset, AmcEnd, SetEnd, cvars, RingInv, DeliveredInv, FillInv,
         CopyInv, ConsumerReady
    <3>2. CASE ~AmcProduces
      BY <1>11, <2>3, <3>2
      DEF AmcSoftReset, AmcEnd, SetEnd, RingInv, DeliveredInv, FillInv, CopyInv,
         ProducerReady
    <3> QED BY <3>1, <3>2
  <2> QED BY <2>2, <2>4
<1>12. ASSUME AmcWriteMagic PROVE SlotsInv' /\ FillInv' /\ CopyInv' /\ DeliveredInv'
  BY <1>12
  DEF AmcWriteMagic, pvars, cvars, RingInv, SlotsInv, FillInv, CopyInv,
     DeliveredInv, ProducerReady, ConsumerReady, RingReady
<1>13. ASSUME AmcRestart PROVE SlotsInv' /\ FillInv' /\ CopyInv' /\ DeliveredInv'
  BY <1>13
  DEF AmcRestart, cvars, RingInv, SlotsInv, FillInv, CopyInv, DeliveredInv,
     ProducerReady, ConsumerReady, RingReady
<1>14. ASSUME HostAttach PROVE SlotsInv' /\ FillInv' /\ CopyInv' /\ DeliveredInv'
  BY <1>14
  DEF HostAttach, HostEnd, SetEnd, shared, pvars, cvars, RingInv, SlotsInv, FillInv,
     CopyInv, DeliveredInv, ProducerReady, ConsumerReady, RingReady
<1>15. ASSUME HostReadProduced PROVE SlotsInv' /\ FillInv' /\ CopyInv' /\ DeliveredInv'
  BY <1>15
  DEF HostReadProduced, HostEnd, SetEnd, shared, pvars, cvars, RingInv, SlotsInv,
     FillInv, CopyInv, DeliveredInv, ProducerReady, ConsumerReady, RingReady
<1>16. ASSUME HostReadConsumed PROVE SlotsInv' /\ FillInv' /\ CopyInv' /\ DeliveredInv'
  <2>1. SlotsInv'
    BY <1>16 DEF HostReadConsumed, shared, RingInv, SlotsInv, RingReady
  <2>2. DeliveredInv' /\ FillInv' /\ CopyInv'
    <3>1. CASE AmcProduces
      BY <1>16, <3>1
      DEF HostReadConsumed, HostEnd, SetEnd, shared, pvars, RingInv, DeliveredInv,
         FillInv, CopyInv, ProducerReady
    <3>2. CASE ~AmcProduces
      BY <1>16, <3>2
      DEF HostReadConsumed, HostEnd, SetEnd, shared, cvars, RingInv, DeliveredInv,
         FillInv, CopyInv, ConsumerReady
    <3> QED BY <3>1, <3>2
  <2> QED BY <2>1, <2>2
<1>17. ASSUME HostClose PROVE SlotsInv' /\ FillInv' /\ CopyInv' /\ DeliveredInv'
  BY <1>17
  DEF HostClose, shared, pvars, cvars, RingInv, SlotsInv, FillInv, CopyInv,
     DeliveredInv, ProducerReady, ConsumerReady, RingReady
<1>18. ASSUME PeerMoves PROVE SlotsInv' /\ FillInv' /\ CopyInv' /\ DeliveredInv'
  BY <1>18
  DEF PeerMoves, pvars, cvars, RingInv, SlotsInv, FillInv, CopyInv, DeliveredInv,
     ProducerReady, ConsumerReady, RingReady
<1>19. ASSUME UNCHANGED vars PROVE SlotsInv' /\ FillInv' /\ CopyInv' /\ DeliveredInv'
  BY <1>19
  DEF vars, shared, pvars, cvars, RingInv, SlotsInv, FillInv, CopyInv, DeliveredInv,
     ProducerReady, ConsumerReady, RingReady
<1> QED BY <1>1, <1>2, <1>3, <1>4, <1>5, <1>6, <1>7, <1>8, <1>9, <1>10, <1>11,
           <1>12, <1>13, <1>14, <1>15, <1>16, <1>17, <1>18, <1>19
          DEF Next, Produce, Consume, AmcLife, HostLife

\* The invariants hold initially.
LEMMA InitRing == Init => TypeOK /\ RingInv
<1> SUFFICES ASSUME Init PROVE TypeOK /\ RingInv
  OBVIOUS
<1>1. \A m \in Msgs : Whole(m) \in [1 .. Words -> Msgs]
  BY DEF Whole
<1>2. TypeOK
  <2>1. slot \in [0 .. NumSlots - 1 -> [1 .. Words -> Msgs]]
    BY <1>1 DEF Init
  <2>2. cBuf \in [1 .. Words -> Msgs]
    BY <1>1 DEF Init
  <2> QED BY <2>1, <2>2, Basics
            DEF Init, TypeOK, SharedTypeOK, ProducerTypeOK, ConsumerTypeOK,
             LifeTypeOK
<1>3. CounterInv
  BY
  DEF Init, CounterInv, PhaseInv, WindowInv, ProducerInv, ConsumerInv, AttachInv,
     ProducerReady, ConsumerReady, RingReady
<1>4. SlotsInv /\ FillInv /\ CopyInv /\ DeliveredInv
  BY DEF Init, SlotsInv, FillInv, CopyInv, DeliveredInv, RingReady
<1> QED BY <1>2, <1>3, <1>4 DEF RingInv

\* For every size of ring and counter the ring is well typed.
THEOREM TypeCorrect == Spec => []TypeOK
<1>1. Init => TypeOK
  BY InitRing
<1>2. TypeOK /\ [Next]_vars => TypeOK'
  BY TypeStep
<1> QED BY <1>1, <1>2, PTL DEF Spec

\* The inductive invariant holds when a restart of the AMC clears the magic number.
LEMMA RingInvariant ==
  ASSUME ~MemoryRetained
  PROVE  Spec => [](TypeOK /\ RingInv)
<1>1. Init => TypeOK /\ RingInv
  BY InitRing
<1>2. TypeOK /\ RingInv /\ [Next]_vars => (TypeOK /\ RingInv)'
  BY TypeStep, CounterStep, DataStep DEF RingInv
<1> QED BY <1>1, <1>2, PTL DEF Spec

-----------------------------------------------------------------------------
(* The properties.                                                         *)

\* With both copy loops under way the two sides are at different slots.
LEMMA SlotsApart ==
  ASSUME TypeOK, RingInv
  PROVE  NoSlotRace
<1> SUFFICES ASSUME ProducerUp, ConsumerUp, pPc = "write", cPc = "read"
             PROVE  Slot(Sub(pProduced, 1)) # Slot(Sub(cConsumed, 1))
  BY DEF NoSlotRace
<1>1. tail \in Ctr /\ consumed \in Ctr
  BY DEF TypeOK, SharedTypeOK
<1>2. Sub(tail, consumed) < NumSlots /\ Sub(pProduced, 1) = tail
  BY FillsTheTailSlot DEF RingInv
<1>3. ConsumerReady
  BY DEF ConsumerUp, ConsumerReady
<1>4. cConsumed = Inc(consumed) /\ 0 < Sub(tail, consumed)
  BY <1>3, ReadsTheConsumedSlot DEF RingInv
<1>5. Sub(cConsumed, 1) = consumed
  BY <1>1, <1>4, Before
<1> QED BY <1>1, <1>2, <1>4, <1>5, SlotsDiffer

\* The messages from c to t are a sequence, one per counter.
LEMMA BetweenIsSeq ==
  ASSUME NEW t \in Ctr, NEW c \in Ctr, NEW s, 
         s \in [0 .. NumSlots - 1 -> [1 .. Words -> Msgs]]
  PROVE  /\ Between(t, c, s) \in Seq([1 .. Words -> Msgs])
         /\ Len(Between(t, c, s)) = Sub(t, c)
         /\ \A k \in 1 .. Sub(t, c) :
              /\ (c + k - 1) % Wrap \in Ctr /\ Sub((c + k - 1) % Wrap, c) = k - 1
              /\ Between(t, c, s)[k] = s[Slot((c + k - 1) % Wrap)]
<1>1. Sub(t, c) \in Ctr /\ Sub(t, c) \in Nat
  BY Distance, Window
<1>2. ASSUME NEW k \in 1 .. Sub(t, c)
      PROVE  (c + k - 1) % Wrap \in Ctr /\ Sub((c + k - 1) % Wrap, c) = k - 1
  <2>1. k - 1 \in Ctr /\ c + k - 1 = c + (k - 1)
    BY <1>1, Sizes
  <2> QED BY <2>1, Ahead
<1>3. \A k \in 1 .. Sub(t, c) : s[Slot((c + k - 1) % Wrap)] \in [1 .. Words -> Msgs]
  BY <1>2, SlotIsSlot
<1>4. Between(t, c, s) \in [1 .. Sub(t, c) -> [1 .. Words -> Msgs]]
  BY <1>3 DEF Between
<1>5. Between(t, c, s) \in Seq([1 .. Words -> Msgs]) /\ Len(Between(t, c, s)) = Sub(t, c)
  BY <1>1, <1>4
<1> QED BY <1>2, <1>5 DEF Between

\* Each of them is in the slot of a counter.
LEMMA BetweenAt ==
  \A s \in [0 .. NumSlots - 1 -> [1 .. Words -> Msgs]] :
    \A t, c \in Ctr : \A k \in 1 .. Sub(t, c) :
      \E i \in Ctr : Sub(i, c) = k - 1 /\ Between(t, c, s)[k] = s[Slot(i)]
BY BetweenIsSeq, ZenonT(60)

\* No unread message is torn.
LEMMA UnreadIsWhole ==
  ASSUME TypeOK, RingInv, magic
  PROVE  \A k \in 1 .. Sub(tail, consumed) : \E m \in Msgs : Unread[k] = Whole(m)
<1>1. /\ tail \in Ctr /\ consumed \in Ctr
      /\ slot \in [0 .. NumSlots - 1 -> [1 .. Words -> Msgs]]
  BY DEF TypeOK, SharedTypeOK
<1>2. RingReady
  BY DEF RingInv, CounterInv, PhaseInv, RingReady
<1> TAKE k \in 1 .. Sub(tail, consumed)
<1>3. PICK i \in Ctr : Sub(i, consumed) = k - 1 /\ Unread[k] = slot[Slot(i)]
  BY <1>1, BetweenAt DEF Unread
<1>4. Sub(i, consumed) < Sub(tail, consumed)
  <2>1. Sub(tail, consumed) \in Nat /\ k \in 1 .. Sub(tail, consumed)
    BY <1>1, Window
  <2> QED BY <1>3, <2>1
<1> QED BY <1>2, <1>3, <1>4 DEF RingInv, SlotsInv

\* The properties of one state that the runs check, for every size of ring,
\* slot and counter, provided that a reset of the card clears the magic number in
\* shared memory (the code does not do it): no slot is written while it is read,
\* the window is bounded, no message is torn, and the magic number confirms the
\* header.
THEOREM RingSafe ==
  ASSUME ~MemoryRetained
  PROVE  Spec => [](NoSlotRace /\ WindowBounded /\ NoTornMessage /\ MagicConfirmsHeader)
<1>1. ASSUME TypeOK, RingInv
      PROVE  NoSlotRace /\ WindowBounded /\ NoTornMessage /\ MagicConfirmsHeader
  <2>1. NoSlotRace
    BY <1>1, SlotsApart
  <2>2. WindowBounded /\ MagicConfirmsHeader
    BY <1>1
    DEF RingInv, CounterInv, PhaseInv, WindowInv, RingReady, WindowBounded,
       MagicConfirmsHeader
  <2>3. magic => DOMAIN Unread = 1 .. Sub(tail, consumed)
    BY DEF Unread, Between
  <2>4. NoTornMessage
    BY <1>1, <2>3, UnreadIsWhole DEF RingInv, DeliveredInv, NoTornMessage
  <2> QED BY <2>1, <2>2, <2>4
<1> QED BY <1>1, RingInvariant, PTL

\* The unlocked copy loops of producer and consumer never touch the same slot,
\* for every size of ring, slot and counter, provided that a reset of the card
\* clears the magic number.
THEOREM SlotsNeverShared ==
  ASSUME ~MemoryRetained
  PROVE  Spec => []NoSlotRace
BY RingSafe, PTL

\* A host that attached because of the magic number finds a complete header:
\* the AMC does not write it while a host is attached.  With a magic number that
\* survives the reset of the card this is false: see MemoryRetained.
THEOREM HeaderComplete ==
  ASSUME ~MemoryRetained
  PROVE  Spec => []MagicConfirmsHeader
BY RingSafe, PTL

-----------------------------------------------------------------------------
(* The ring is a FIFO.                                                     *)

\* Publishing appends a message.
LEMMA Grows ==
  ASSUME NEW t \in Ctr, NEW c \in Ctr, NEW s, Sub(t, c) < NumSlots,
         s \in [0 .. NumSlots - 1 -> [1 .. Words -> Msgs]]
  PROVE  Between(Inc(t), c, s) = Append(Between(t, c, s), s[Slot(t)])
<1> DEFINE S == [1 .. Words -> Msgs]
           old == Between(t, c, s)
           new == Between(Inc(t), c, s)
<1>1. Inc(t) \in Ctr /\ Sub(t, c) \in Nat /\ Sub(Inc(t), c) = Sub(t, c) + 1
  BY Window, Basics
<1>2. old \in Seq(S) /\ Len(old) = Sub(t, c)
  BY BetweenIsSeq
<1>3. new \in Seq(S) /\ Len(new) = Sub(t, c) + 1
  BY <1>1, BetweenIsSeq
<1>4. \A k \in 1 .. Sub(t, c) : new[k] = old[k]
  BY <1>1 DEF Between
<1>5. new[Sub(t, c) + 1] = s[Slot(t)]
  <2>1. PICK n \in 1 .. Sub(Inc(t), c) : n = Sub(t, c) + 1
    BY <1>1
  <2>2. PICK i \in Ctr : Sub(i, c) = n - 1 /\ new[n] = s[Slot(i)]
    BY <1>1, BetweenAt
  <2>3. Sub(i, c) = Sub(t, c)
    BY <1>1, <2>1, <2>2
  <2>4. i = t
    BY <2>3, SameDistance
  <2> QED BY <2>2, <2>4
<1>6. s[Slot(t)] \in S
  BY SlotIsSlot
<1> DEFINE app == Append(old, s[Slot(t)])
<1>7. /\ app \in Seq(S) /\ Len(app) = Len(old) + 1
      /\ \A k \in 1 .. Len(old) : app[k] = old[k]
      /\ app[Len(old) + 1] = s[Slot(t)]
  BY <1>2, <1>6
<1> HIDE DEF old, new, app, S
<1>8. \A k \in 1 .. Len(new) : new[k] = app[k]
  BY <1>2, <1>3, <1>4, <1>5, <1>7
<1>9. new = app
  BY <1>2, <1>3, <1>7, <1>8
<1> QED BY <1>9 DEF old, new, app

\* Releasing removes the first message.
LEMMA Shrinks ==
  ASSUME NEW t \in Ctr, NEW c \in Ctr, NEW s, t # c, Sub(t, c) <= NumSlots,
         s \in [0 .. NumSlots - 1 -> [1 .. Words -> Msgs]]
  PROVE  /\ Between(t, c, s) # <<>> /\ Head(Between(t, c, s)) = s[Slot(c)]
         /\ Between(t, Inc(c), s) = Tail(Between(t, c, s))
<1> DEFINE S == [1 .. Words -> Msgs]
           old == Between(t, c, s)
           new == Between(t, Inc(c), s)
<1>1. /\ Inc(c) \in Ctr /\ Sub(t, c) \in Nat \ {0} /\ NumSlots \in Nat
      /\ Sub(t, Inc(c)) = Sub(t, c) - 1 /\ Sub(c, c) = 0
  BY Window, Basics
<1>2. old \in Seq(S) /\ Len(old) = Sub(t, c)
  BY BetweenIsSeq
<1>3. new \in Seq(S) /\ Len(new) = Sub(t, c) - 1
  BY <1>1, BetweenIsSeq, SMTT(30)
<1>4. old # <<>>
  BY <1>1
<1>5. old[1] = s[Slot(c)]
  <2>0. 1 \in 1 .. Sub(t, c)
    BY <1>1
  <2>1. PICK i \in Ctr : Sub(i, c) = 1 - 1 /\ old[1] = s[Slot(i)]
    BY <2>0, BetweenAt
  <2>2. i = c
    BY <1>1, <2>1, SameDistance
  <2> QED BY <2>1, <2>2
<1>6. ASSUME NEW k \in 1 .. Sub(t, c) - 1
      PROVE  new[k] = old[k + 1]
  <2>0. k \in 1 .. Sub(t, Inc(c))
    BY <1>1
  <2>1. PICK i \in Ctr : Sub(i, Inc(c)) = k - 1 /\ new[k] = s[Slot(i)]
    BY <1>1, <2>0, BetweenAt, SMTT(30)
  <2>2. PICK n \in 1 .. Sub(t, c) : n = k + 1 /\ k \in Nat /\ k < NumSlots /\ k # 0
    BY <1>1
  <2>3. PICK j \in Ctr : Sub(j, c) = n - 1 /\ old[n] = s[Slot(j)]
    BY BetweenAt
  <2>4. j # c
    BY <1>1, <2>2, <2>3
  <2>5. Sub(j, Inc(c)) = k - 1
    BY <2>2, <2>3, <2>4, Window
  <2>6. i = j
    BY <1>1, <2>1, <2>5, SameDistance
  <2> QED BY <2>1, <2>2, <2>3, <2>6
<1>7. /\ Head(old) = old[1]
      /\ Tail(old) \in Seq(S) /\ Len(Tail(old)) = Len(old) - 1
      /\ \A k \in 1 .. Len(Tail(old)) : Tail(old)[k] = old[k + 1]
  BY <1>2, <1>4
<1> DEFINE tl == Tail(old)
<1> HIDE DEF new, tl, S
<1>8. \A k \in 1 .. Len(new) : new[k] = tl[k]
  BY <1>2, <1>3, <1>6 DEF tl
<1>9. new = tl
  BY <1>2, <1>3, <1>8 DEF tl
<1> QED BY <1>5, <1>7, <1>9 DEF new, tl

\* Writing elsewhere changes no message.
LEMMA Unchanged ==
  \A s \in [0 .. NumSlots - 1 -> [1 .. Words -> Msgs]] : \A t, c \in Ctr : \A r :
    (\A i \in Ctr : Sub(i, c) < Sub(t, c) => r[Slot(i)] = s[Slot(i)])
      => Between(t, c, r) = Between(t, c, s)
<1> SUFFICES ASSUME NEW s \in [0 .. NumSlots - 1 -> [1 .. Words -> Msgs]],
                    NEW t \in Ctr, NEW c \in Ctr, NEW r,
                    \A i \in Ctr : Sub(i, c) < Sub(t, c) => r[Slot(i)] = s[Slot(i)]
             PROVE  Between(t, c, r) = Between(t, c, s)
  OBVIOUS
<1>1. ASSUME NEW k \in 1 .. Sub(t, c)
      PROVE  r[Slot((c + k - 1) % Wrap)] = s[Slot((c + k - 1) % Wrap)]
  <2>1. (c + k - 1) % Wrap \in Ctr /\ Sub((c + k - 1) % Wrap, c) = k - 1
    BY BetweenIsSeq
  <2>2. Sub(t, c) \in Nat
    BY Window
  <2>3. k - 1 < Sub(t, c)
    BY <2>2
  <2> QED BY <2>1, <2>3
<1> QED BY <1>1 DEF Between

\* An empty ring holds no message.
LEMMA NothingBetween == \A c \in Ctr : \A s : Between(c, c, s) = <<>>
<1> TAKE c \in Ctr
<1> TAKE s
<1>1. Sub(c, c) = 0
  BY Window
<1> QED BY <1>1 DEF Between

\* One step of the ring is a step of the FIFO, or none.
LEMMA FifoStep ==
  ASSUME TypeOK, TypeOK', RingInv, RingInv', ~MemoryRetained, [Next]_vars
  PROVE  [Fifo!Next]_(Fifo!vars)
<1> DEFINE up == amcPc = "up"
<1> DEFINE queue == IF up THEN Unread ELSE <<>>
<1>0. /\ tail \in Ctr /\ consumed \in Ctr /\ tail' \in Ctr /\ consumed' \in Ctr
      /\ slot \in [0 .. NumSlots - 1 -> [1 .. Words -> Msgs]]
  BY DEF TypeOK, SharedTypeOK
<1>1. SUFFICES [Fifo!Next]_<<up, queue, got>>
  BY DEF Fifo!vars
<1>2. ASSUME UNCHANGED <<tail, consumed, slot, got, amcPc>>
      PROVE  UNCHANGED <<up, queue, got>>
  BY <1>2 DEF Unread
<1>3. ASSUME WriteWord
      PROVE  UNCHANGED <<up, queue, got>>
  <2>1. /\ RingReady /\ Sub(tail, consumed) < NumSlots
        /\ slot' = [slot EXCEPT ![Slot(tail)][pWord] = pMsg]
        /\ Slot(tail) \in DOMAIN slot /\ UNCHANGED <<tail, consumed, magic>>
    BY <1>3, WritesTheTailSlot DEF RingInv
  <2>2. \A i \in Ctr : Sub(i, consumed) < Sub(tail, consumed)
                         => slot'[Slot(i)] = slot[Slot(i)]
    BY <2>1, PendingSlots
  <2>3. Between(tail, consumed, slot') = Between(tail, consumed, slot)
    BY <1>0, <2>2, Unchanged
  <2> QED BY <1>3, <2>3 DEF WriteWord, cvars, Unread
<1>4. ASSUME Publish
      PROVE  \E m \in {Whole(m) : m \in Msgs} : Fifo!Send(m)
  <2>1. /\ ProducerReady /\ RingReady /\ Sub(tail, consumed) < NumSlots
        /\ pProduced = Inc(tail) /\ up /\ up'
        /\ slot[Slot(tail)] = Whole(pMsg) /\ pMsg \in Msgs
    <3>1. ProducerReady /\ RingReady /\ Sub(tail, consumed) < NumSlots
      BY <1>4, FillsTheTailSlot DEF Publish, RingInv
    <3>2. up /\ up'
      BY <1>4 DEF Publish, ProducerUp, RingInv, CounterInv, PhaseInv
    <3> QED BY <1>4, <3>1, <3>2
              DEF Publish, RingInv, CounterInv, ProducerInv, FillInv, TypeOK,
               ProducerTypeOK
  <2>2. Between(Inc(tail), consumed, slot)
          = Append(Between(tail, consumed, slot), Whole(pMsg))
    BY <1>0, <2>1, Grows
  <2>3. Len(Unread) = Sub(tail, consumed)
    BY <1>0, BetweenIsSeq DEF Unread
  <2>4. Fifo!Send(Whole(pMsg))
    BY <1>4, <2>1, <2>2, <2>3 DEF Publish, cvars, Unread, Fifo!Send
  <2> QED BY <2>1, <2>4
<1>5. ASSUME Release
      PROVE  Fifo!Receive
  <2>1. ConsumerReady
    BY <1>5 DEF Release, ConsumerUp, ConsumerReady
  <2>2. /\ RingReady /\ cConsumed = Inc(consumed) /\ 0 < Sub(tail, consumed)
        /\ cBuf = slot[Slot(consumed)]
    BY <1>5, <2>1, ReadsTheConsumedSlot DEF Release, RingInv, CopyInv
  <2>3. up /\ up' /\ Sub(tail, consumed) <= NumSlots
    BY <1>5, <2>2 DEF Release, ConsumerUp, RingInv, CounterInv, PhaseInv, WindowInv
  <2>4. tail # consumed
    BY <1>0, <2>2, Window
  <2>5. /\ Between(tail, consumed, slot) # <<>>
        /\ Head(Between(tail, consumed, slot)) = slot[Slot(consumed)]
        /\ Between(tail, Inc(consumed), slot) = Tail(Between(tail, consumed, slot))
    <3>1. tail \in Ctr /\ consumed \in Ctr /\ slot \in [0 .. NumSlots - 1 -> [1 .. Words -> Msgs]]
      BY <1>0
    <3>2. tail # consumed /\ Sub(tail, consumed) <= NumSlots
      BY <2>3, <2>4
    <3> HIDE DEF queue
    <3>3. /\ Between(tail, consumed, slot) # <<>>
          /\ Head(Between(tail, consumed, slot)) = slot[Slot(consumed)]
      BY <3>1, <3>2, Shrinks
    <3>4. Between(tail, Inc(consumed), slot) = Tail(Between(tail, consumed, slot))
      BY <3>1, <3>2, Shrinks
    <3> QED BY <3>3, <3>4
  <2> QED BY <1>5, <2>2, <2>3, <2>5 DEF Release, Unread, Fifo!Receive
<1>6. ASSUME AmcRestart
      PROVE  Fifo!GoDown \/ UNCHANGED <<up, queue, got>>
  <2>1. ~up' /\ UNCHANGED got
    BY <1>6 DEF AmcRestart, cvars
  <2>2. CASE up
    BY <2>1, <2>2 DEF Fifo!GoDown
  <2>3. CASE ~up
    BY <2>1, <2>3
  <2> QED BY <2>2, <2>3
<1>7. ASSUME AmcWriteMagic
      PROVE  Fifo!ComeUp
  <2>1. ~up /\ up' /\ tail = consumed /\ UNCHANGED <<tail, consumed, slot, got>>
    BY <1>7 DEF AmcWriteMagic, RingInv, CounterInv, PhaseInv, cvars
  <2>2. Between(tail, consumed, slot) = <<>>
    BY <1>0, <2>1, NothingBetween
  <2>3. Between(tail', consumed', slot') = <<>>
    BY <2>1, <2>2
  <2> QED BY <2>1, <2>3 DEF Unread, Fifo!ComeUp
<1>8. ASSUME AmcWriteHeader \/ AmcSoftReset
      PROVE  UNCHANGED <<up, queue, got>>
  <2>1. ~up /\ ~up' /\ UNCHANGED got
    BY <1>8 DEF AmcWriteHeader, AmcSoftReset, AmcEnd, SetEnd, cvars
  <2> QED BY <2>1
<1>9. ASSUME (\E m \in Msgs : Reserve(m)) \/ NoFreeSlots \/ ReadPeerTail
             \/ ReadTail \/ RefreshTail \/ ReadWord \/ HostAttach \/ HostReadProduced
             \/ HostReadConsumed \/ HostClose \/ PeerMoves \/ UNCHANGED vars
      PROVE  UNCHANGED <<tail, consumed, slot, got, amcPc>>
  BY <1>9
  DEF Reserve, NoFreeSlots, ReadPeerTail, ReadTail, RefreshTail, ReadWord,
     HostAttach, HostReadProduced, HostReadConsumed, HostClose, PeerMoves, HostEnd,
     SetEnd, vars, shared, cvars
<1> QED
  BY <1>2, <1>3, <1>4, <1>5, <1>6, <1>7, <1>8, <1>9
  DEF Next, Produce, Consume, AmcLife, HostLife, Fifo!Next

\* The ring implements the FIFO: every message published is delivered whole,
\* once and in order, and none is lost before the AMC is reset, for every size of
\* ring, slot and counter, provided that the reset clears the magic number.
THEOREM RingIsFifo ==
  ASSUME ~MemoryRetained
  PROVE  Spec => ImplementsFifo
<1>1. Init => Fifo!Init
  BY DEF Init, Fifo!Init
<1>2. TypeOK /\ RingInv /\ (TypeOK /\ RingInv)' /\ [Next]_vars => [Fifo!Next]_(Fifo!vars)
  BY FifoStep
<1> QED BY <1>1, <1>2, RingInvariant, PTL DEF Spec, ImplementsFifo, Fifo!Spec
=============================================================================
